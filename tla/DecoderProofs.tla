--------------------------- MODULE DecoderProofs ---------------------------
(***************************************************************************)
(* Proofs about Decoder and DecoderStream.                                 *)
(*                                                                         *)
(* Of any bytes, however they are cut into buffers: the decoder stays      *)
(* within its buffers, its assertion holds, it passes on whole packets and *)
(* their timestamps never decrease.  ControlInv is about the two state     *)
(* machines and is inductive by itself.  HistoryInv is about the packets   *)
(* passed on, and needs ControlInv.                                        *)
(*                                                                         *)
(* Of what a device sends, however it and the host cut it: it is passed on *)
(* in order, as it was sent, and nothing is held back.  StreamIInv says at *)
(* which byte of the wire, and of the stream of packets in it, the decoder *)
(* is, and that its state is what the bytes before it make it.             *)
(***************************************************************************)
EXTENDS DecoderStream, SequenceTheorems, TLAPS

UsbPacket == [magic : {0, 160, 162}, flags : Byte, size : Nat,
              timestamp : Nat, data : Seq(Byte)]

\* While the packet decoder runs, the frame decoder waits for SDRAM data; the
\* low byte of a bus address is still free when it is awaited.
FrameInv == /\ proc \in {"packet", "return"} => frame_state = "SDRAM_DATA"
            /\ frame_state = "BUS_ADDR_LO" => addr <= 65280

\* The offset into a packet is 0 unless its data is being copied, and then what
\* was copied is there.
OffsetInv ==
  /\ packet_state # "DATA" => buf_actual_length = 0
  /\ packet_state = "DATA" => buf_actual_length <= CapturedSize(flags, size)
  /\ buf_actual_length <= Len(data)

ControlInv == TypeOK /\ FrameInv /\ ReadsWithinFrame /\ TimestampFits /\ OffsetInv

\* What packet_decoder_proc() is at in its buffer, and how the frame decoder's count
\* of the frame, which learns of that when it returns, compares with what is left.
CallInv ==
  /\ proc \in {"packet", "return"} =>
       /\ data_start <= pos /\ pos <= data_end
       /\ data_end - data_start <= required_length
       /\ ~frame_failed => required_length = frame_left + (pos - data_start)
  /\ proc \in {"frame", "error"} /\ ~frame_failed => required_length = frame_left

\* The packets passed on are whole, none is later than the decoder's clock, and
\* the packet whose data is being copied has the clock's time.
PacketsInv ==
  /\ packets \in Seq(UsbPacket)
  /\ \A i \in 1 .. Len(packets) :
       /\ ~wrapped => packets[i].timestamp <= cumulative_ts
       /\ Len(packets[i].data) = CapturedSize(packets[i].flags, packets[i].size)

ClockInv == packet_state = "DATA" => timestamp = cumulative_ts

HistoryInv == PacketsInv /\ ClockInv /\ TimestampsOrdered

IInv == ControlInv /\ CallInv /\ HistoryInv

-----------------------------------------------------------------------------
(***************************************************************************)
(* What the steps have in common                                           *)
(***************************************************************************)
LEMMA ByteBound == \A b \in Byte : b \in Nat /\ b <= 255
BY DEF Byte

LEMMA AddressRange == \A m : m \in Address <=> m \in Nat /\ m <= MaxAddress
<1>1. MaxAddress \in Nat
  BY DEF MaxAddress
<1> QED
  BY <1>1 DEF Address

LEMMA CapturedSizeNat ==
  ASSUME NEW f \in Byte, NEW s \in Nat
  PROVE  CapturedSize(f, s) \in Nat
BY MaxPacketSizeAssumption DEF CapturedSize

\* The byte at hand is one.
LEMMA HereInFrame ==
  ASSUME TypeOK, NEW st, InFrame(st)
  PROVE  Here \in Byte
<1>1. buf \in Seq(Byte) /\ pos \in Nat /\ pos < Len(buf)
  BY DEF TypeOK, InFrame
<1> QED
  BY <1>1, ElementOfSeq DEF Here

LEMMA HereInPacket ==
  ASSUME TypeOK, ReadsWithinFrame, NEW st, InPacket(st)
  PROVE  Here \in Byte
<1>1. buf \in Seq(Byte) /\ pos \in Nat /\ pos + 1 \in 1 .. Len(buf)
  BY DEF TypeOK, InPacket, ReadsWithinFrame
<1> QED
  BY <1>1, ElementOfSeq DEF Here

\* The clock counts to the end of its width.
LEMMA LaterFacts ==
  ASSUME NEW t \in Nat, NEW d \in Nat
  PROVE  Later(t, d) \in Nat /\ (t + d < ClockMod => Later(t, d) = t + d)
<1>1. t + d \in Nat
  OBVIOUS
<1> QED
  BY <1>1, ClockModAssumption, SMTT(30) DEF Later

\* Another byte only adds to the timestamp.
LEMMA TimestampGrows ==
  ASSUME TypeOK, ReadsWithinFrame, TimestampFits, InPacket("TIMESTAMP")
  PROVE  ShiftedTimestamp \in Nat
<1>1. Here \in Byte
  BY HereInPacket
<1>2. ts_byte \in 0 .. 7 /\ timestamp \in Nat
  BY DEF TypeOK, TimestampFits, InPacket
<1>3. Shifted(Here, ts_byte) \in Nat
  BY <1>1, <1>2, ShiftedAssumption
<1> QED
  BY <1>2, <1>3 DEF ShiftedTimestamp

\* What memcpy() copies: no more than the packet misses and the buffer has.
LEMMA CopyBounds ==
  ASSUME ControlInv, InPacket("DATA")
  PROVE  /\ DataMissing \in Nat /\ DataToCopy \in Nat
         /\ DataToCopy <= DataMissing /\ DataToCopy <= data_end - pos
         /\ DataMissing + buf_actual_length = CapturedSize(flags, size)
         /\ pos + DataToCopy <= Len(buf)
         /\ ~frame_failed => DataToCopy <= frame_left
<1>0. flags \in Byte /\ size \in Nat
  BY DEF ControlInv, TypeOK
<1>1. CapturedSize(flags, size) \in Nat
  BY <1>0, CapturedSizeNat
<1>2. /\ buf_actual_length \in Nat /\ buf_actual_length <= CapturedSize(flags, size)
      /\ pos \in Nat /\ data_end \in Nat /\ pos < data_end
      /\ data_end <= Len(buf) /\ (~frame_failed => data_end - pos <= frame_left)
      /\ frame_left \in Int /\ Len(buf) \in Nat
  BY DEF ControlInv, TypeOK, OffsetInv, ReadsWithinFrame, InPacket
<1> QED
  BY <1>1, <1>2 DEF DataMissing, DataToCopy, MinOf

LEMMA CopiedDataType ==
  ASSUME ControlInv, InPacket("DATA")
  PROVE  /\ CopiedData \in Seq(Byte)
         /\ Len(CopiedData) = buf_actual_length + DataToCopy
<1>1. /\ buf \in Seq(Byte) /\ data \in Seq(Byte)
      /\ buf_actual_length \in Nat /\ buf_actual_length <= Len(data)
      /\ pos \in Nat
  BY DEF ControlInv, TypeOK, OffsetInv
<1>2. DataToCopy \in Nat /\ pos + DataToCopy <= Len(buf)
  BY CopyBounds
<1> DEFINE old == SubSeq(data, 1, buf_actual_length)
           new == SubSeq(buf, pos + 1, pos + DataToCopy)
<1>3. old \in Seq(Byte) /\ Len(old) = buf_actual_length
  <2>1. \A i \in 1 .. buf_actual_length : i \in 1 .. Len(data)
    BY <1>1
  <2> QED
    BY <1>1, <2>1, SubSeqProperties
<1>4. new \in Seq(Byte) /\ Len(new) = DataToCopy
  <2>1. \A i \in pos + 1 .. pos + DataToCopy : i \in 1 .. Len(buf)
    BY <1>1, <1>2
  <2> QED
    BY <1>1, <1>2, <2>1, SubSeqProperties, SMTT(30)
<1>5. old \o new \in Seq(Byte) /\ Len(old \o new) = Len(old) + Len(new)
  BY <1>3, <1>4, ConcatProperties
<1> QED
  BY <1>3, <1>4, <1>5 DEF CopiedData

-----------------------------------------------------------------------------
(***************************************************************************)
(* ControlInv is inductive: a lemma for each action                        *)
(***************************************************************************)
USE DEF packet_vars, frame_vars, header, clock, payload, sdram

LEMMA InitControl == Init => ControlInv
<1> SUFFICES ASSUME Init PROVE ControlInv
  OBVIOUS
<1>4. frame_failed \in BOOLEAN /\ wrapped \in BOOLEAN
  BY Zenon DEF Init, InitPacketDecoder
<1>1. TypeOK
  BY <1>4, EmptySeq DEF Init, InitPacketDecoder, TypeOK, FrameState, PacketState, Byte
<1>2. FrameInv /\ TimestampFits /\ OffsetInv
  BY EmptySeq DEF Init, InitPacketDecoder, FrameInv, TimestampFits, OffsetInv
<1>3. ReadsWithinFrame
  BY EmptySeq DEF Init, ReadsWithinFrame
<1> QED
  BY <1>1, <1>2, <1>3 DEF ControlInv

LEMMA FrameMagicControl == ControlInv /\ FrameMagic => ControlInv'
<1> SUFFICES ASSUME ControlInv, FrameMagic PROVE ControlInv'
  OBVIOUS
<1>1. /\ frame_state = "MAGIC" /\ proc = "frame" /\ pos < Len(buf)
      /\ frame_state' \in {"BUS_ADDR_HI", "SDRAM_LENGTH"} /\ pos' = pos + 1
      /\ UNCHANGED <<buf, data_start, data_end, proc, sdram, addr, value>>
      /\ UNCHANGED packet_vars
  BY DEF FrameMagic, FrameByte, InFrame
<1>2. TypeOK'
  BY <1>1 DEF ControlInv, TypeOK, FrameState
<1>3. FrameInv' /\ ReadsWithinFrame'
  BY <1>1 DEF ControlInv, TypeOK, FrameInv, ReadsWithinFrame
<1>4. TimestampFits' /\ OffsetInv'
  BY <1>1 DEF ControlInv, TimestampFits, OffsetInv
<1> QED
  BY <1>2, <1>3, <1>4 DEF ControlInv

LEMMA WrongFrameMagicControl == ControlInv /\ WrongFrameMagic => ControlInv'
<1> SUFFICES ASSUME ControlInv, WrongFrameMagic PROVE ControlInv'
  OBVIOUS
<1>2. TypeOK'
  BY DEF ControlInv, TypeOK, FrameInv, FrameState, WrongFrameMagic, InFrame
<1>3. FrameInv'
  BY DEF ControlInv, TypeOK, FrameInv, WrongFrameMagic, InFrame
<1>4. ReadsWithinFrame'
  BY DEF ControlInv, TypeOK, FrameInv, ReadsWithinFrame, WrongFrameMagic,
     InFrame
<1>5. TimestampFits' /\ OffsetInv'
  BY DEF ControlInv, TimestampFits, OffsetInv, WrongFrameMagic, InFrame
<1> QED
  BY <1>2, <1>3, <1>4, <1>5 DEF ControlInv

LEMMA SdramLengthControl == ControlInv /\ SdramLength => ControlInv'
<1> SUFFICES ASSUME ControlInv, SdramLength PROVE ControlInv'
  OBVIOUS
<1>1. Here \in Byte
  BY HereInFrame DEF ControlInv, SdramLength, FrameByte
<1>6. required_length' \in Nat /\ required_length' <= 512 /\ frame_left' \in Int
  BY <1>1, ByteBound DEF SdramLength
<1>7. frame_failed' \in BOOLEAN
  BY Zenon DEF SdramLength
<1>2. TypeOK'
  BY <1>6, <1>7 DEF ControlInv, TypeOK, FrameState, SdramLength, FrameByte, InFrame
<1>3. FrameInv'
  BY <1>1, ByteBound DEF ControlInv, TypeOK, FrameInv, SdramLength,
     FrameByte, InFrame
<1>4. ReadsWithinFrame'
  BY <1>1, ByteBound, SMTT(30) DEF ControlInv, TypeOK, FrameInv, ReadsWithinFrame,
     SdramLength, FrameByte, InFrame
<1>5. TimestampFits' /\ OffsetInv'
  BY DEF ControlInv, TimestampFits, OffsetInv, SdramLength, FrameByte, InFrame
<1> QED
  BY <1>2, <1>3, <1>4, <1>5 DEF ControlInv

LEMMA SdramDataControl == ControlInv /\ CallInv /\ SdramData => ControlInv'
<1> SUFFICES ASSUME ControlInv, CallInv, SdramData PROVE ControlInv'
  OBVIOUS
<1>2. TypeOK'
  BY DEF ControlInv, TypeOK, FrameInv, FrameState, SdramData, MinOf, InFrame
<1>3. FrameInv'
  BY DEF ControlInv, TypeOK, FrameInv, SdramData, MinOf, InFrame
<1>4. ReadsWithinFrame'
  BY DEF ControlInv, CallInv, TypeOK, FrameInv, ReadsWithinFrame, SdramData, MinOf,
     InFrame
<1>5. TimestampFits' /\ OffsetInv'
  BY DEF ControlInv, TimestampFits, OffsetInv, SdramData, MinOf, InFrame
<1> QED
  BY <1>2, <1>3, <1>4, <1>5 DEF ControlInv

LEMMA BusAddrHiControl == ControlInv /\ BusAddrHi => ControlInv'
<1> SUFFICES ASSUME ControlInv, BusAddrHi PROVE ControlInv'
  OBVIOUS
<1>1. Here \in Byte
  BY HereInFrame DEF ControlInv, BusAddrHi, FrameByte
<1>2. TypeOK'
  BY <1>1, ByteBound DEF ControlInv, TypeOK, FrameInv, FrameState,
     BusAddrHi, FrameByte, InFrame
<1>3. FrameInv'
  BY <1>1, ByteBound DEF ControlInv, TypeOK, FrameInv, BusAddrHi, FrameByte,
     InFrame
<1>4. ReadsWithinFrame'
  BY <1>1, ByteBound DEF ControlInv, TypeOK, FrameInv, ReadsWithinFrame,
     BusAddrHi, FrameByte, InFrame
<1>5. TimestampFits' /\ OffsetInv'
  BY DEF ControlInv, TimestampFits, OffsetInv, BusAddrHi, FrameByte, InFrame
<1> QED
  BY <1>2, <1>3, <1>4, <1>5 DEF ControlInv

LEMMA BusAddrLoControl == ControlInv /\ BusAddrLo => ControlInv'
<1> SUFFICES ASSUME ControlInv, BusAddrLo PROVE ControlInv'
  OBVIOUS
<1>1. Here \in Byte
  BY HereInFrame DEF ControlInv, BusAddrLo, FrameByte
<1>2. TypeOK'
  BY <1>1, ByteBound DEF ControlInv, TypeOK, FrameInv, FrameState,
     BusAddrLo, FrameByte, InFrame
<1>3. FrameInv'
  BY <1>1, ByteBound DEF ControlInv, TypeOK, FrameInv, BusAddrLo, FrameByte,
     InFrame
<1>4. ReadsWithinFrame'
  BY <1>1, ByteBound DEF ControlInv, TypeOK, FrameInv, ReadsWithinFrame,
     BusAddrLo, FrameByte, InFrame
<1>5. TimestampFits' /\ OffsetInv'
  BY DEF ControlInv, TimestampFits, OffsetInv, BusAddrLo, FrameByte, InFrame
<1> QED
  BY <1>2, <1>3, <1>4, <1>5 DEF ControlInv

LEMMA BusValueControl == ControlInv /\ BusValue => ControlInv'
<1> SUFFICES ASSUME ControlInv, BusValue PROVE ControlInv'
  OBVIOUS
<1>1. Here \in Byte
  BY HereInFrame DEF ControlInv, BusValue, FrameByte
<1>2. TypeOK'
  BY <1>1, ByteBound DEF ControlInv, TypeOK, FrameInv, FrameState, BusValue,
     FrameByte, InFrame
<1>3. FrameInv'
  BY <1>1, ByteBound DEF ControlInv, TypeOK, FrameInv, BusValue, FrameByte,
     InFrame
<1>4. ReadsWithinFrame'
  BY <1>1, ByteBound DEF ControlInv, TypeOK, FrameInv, ReadsWithinFrame,
     BusValue, FrameByte, InFrame
<1>5. TimestampFits' /\ OffsetInv'
  BY DEF ControlInv, TimestampFits, OffsetInv, BusValue, FrameByte, InFrame
<1> QED
  BY <1>2, <1>3, <1>4, <1>5 DEF ControlInv

LEMMA BusChecksumControl == ControlInv /\ BusChecksum => ControlInv'
<1> SUFFICES ASSUME ControlInv, BusChecksum PROVE ControlInv'
  OBVIOUS
<1>1. Here \in Byte
  BY HereInFrame DEF ControlInv, BusChecksum, FrameByte
<1>2. TypeOK'
  BY <1>1, ByteBound DEF ControlInv, TypeOK, FrameInv, FrameState,
     BusChecksum, FrameByte, InFrame
<1>3. FrameInv'
  BY <1>1, ByteBound DEF ControlInv, TypeOK, FrameInv, BusChecksum,
     FrameByte, InFrame
<1>4. ReadsWithinFrame'
  BY <1>1, ByteBound DEF ControlInv, TypeOK, FrameInv, ReadsWithinFrame,
     BusChecksum, FrameByte, InFrame
<1>5. TimestampFits' /\ OffsetInv'
  BY DEF ControlInv, TimestampFits, OffsetInv, BusChecksum, FrameByte, InFrame
<1> QED
  BY <1>2, <1>3, <1>4, <1>5 DEF ControlInv

LEMMA PacketMagicControl == ControlInv /\ PacketMagic => ControlInv'
<1> SUFFICES ASSUME ControlInv, PacketMagic PROVE ControlInv'
  OBVIOUS
<1>1. /\ packet_state = "MAGIC" /\ proc = "packet" /\ pos < data_end
      /\ packet_state' \in {"MAGIC", "FLAGS"}
      /\ magic' \in {magic, 160, 162} /\ pos' = pos + 1
      /\ frame_left' = frame_left - 1
      /\ UNCHANGED <<buf, data_start, data_end, proc, frame_state, required_length, frame_failed, addr, value>>
      /\ UNCHANGED <<flags, size, clock, payload>>
  BY DEF PacketMagic, PacketByte, InPacket, Consume
<1>2. TypeOK'
  BY <1>1 DEF ControlInv, TypeOK, ReadsWithinFrame, PacketState
<1>3. FrameInv' /\ ReadsWithinFrame'
  BY <1>1 DEF ControlInv, TypeOK, FrameInv, ReadsWithinFrame
<1>4. TimestampFits' /\ OffsetInv'
  BY <1>1 DEF ControlInv, TimestampFits, OffsetInv
<1> QED
  BY <1>2, <1>3, <1>4 DEF ControlInv

LEMMA WrongPacketMagicControl == ControlInv /\ WrongPacketMagic => ControlInv'
<1> SUFFICES ASSUME ControlInv, WrongPacketMagic PROVE ControlInv'
  OBVIOUS
<1>2. TypeOK'
  BY DEF ControlInv, TypeOK, ReadsWithinFrame, TimestampFits, PacketState,
     WrongPacketMagic, InPacket
<1>3. FrameInv' /\ ReadsWithinFrame'
  BY DEF ControlInv, TypeOK, FrameInv, ReadsWithinFrame, WrongPacketMagic,
     InPacket
<1>4. TimestampFits'
  BY DEF ControlInv, TypeOK, TimestampFits, WrongPacketMagic, InPacket
<1>5. OffsetInv'
  BY DEF ControlInv, OffsetInv, WrongPacketMagic, InPacket
<1> QED
  BY <1>2, <1>3, <1>4, <1>5 DEF ControlInv

LEMMA PacketFlagsControl == ControlInv /\ PacketFlags => ControlInv'
<1> SUFFICES ASSUME ControlInv, PacketFlags PROVE ControlInv'
  OBVIOUS
<1>1. Here \in Byte
  BY HereInPacket DEF ControlInv, PacketFlags, PacketByte
<1>2. TypeOK'
  BY <1>1, ByteBound DEF ControlInv, TypeOK, ReadsWithinFrame,
     TimestampFits, PacketState, PacketFlags, PacketByte, Consume, InPacket
<1>3. FrameInv' /\ ReadsWithinFrame'
  BY DEF ControlInv, TypeOK, FrameInv, ReadsWithinFrame, PacketFlags,
     PacketByte, Consume, InPacket
<1>4. TimestampFits'
  BY <1>1, ByteBound DEF ControlInv, TypeOK, TimestampFits, PacketFlags,
     PacketByte, Consume, InPacket
<1>5. OffsetInv'
  BY DEF ControlInv, OffsetInv, PacketFlags, PacketByte, Consume, InPacket
<1> QED
  BY <1>2, <1>3, <1>4, <1>5 DEF ControlInv

LEMMA PacketLengthLoControl == ControlInv /\ PacketLengthLo => ControlInv'
<1> SUFFICES ASSUME ControlInv, PacketLengthLo PROVE ControlInv'
  OBVIOUS
<1>1. Here \in Byte
  BY HereInPacket DEF ControlInv, PacketLengthLo, PacketByte
<1>2. TypeOK'
  BY <1>1, ByteBound DEF ControlInv, TypeOK, ReadsWithinFrame,
     TimestampFits, PacketState, PacketLengthLo, PacketByte, Consume,
     InPacket
<1>3. FrameInv' /\ ReadsWithinFrame'
  BY DEF ControlInv, TypeOK, FrameInv, ReadsWithinFrame, PacketLengthLo,
     PacketByte, Consume, InPacket
<1>4. TimestampFits'
  BY <1>1, ByteBound DEF ControlInv, TypeOK, TimestampFits, PacketLengthLo,
     PacketByte, Consume, InPacket
<1>5. OffsetInv'
  BY DEF ControlInv, OffsetInv, PacketLengthLo, PacketByte, Consume, InPacket
<1> QED
  BY <1>2, <1>3, <1>4, <1>5 DEF ControlInv

LEMMA PacketLengthHiControl == ControlInv /\ PacketLengthHi => ControlInv'
<1> SUFFICES ASSUME ControlInv, PacketLengthHi PROVE ControlInv'
  OBVIOUS
<1>1. Here \in Byte
  BY HereInPacket DEF ControlInv, PacketLengthHi, PacketByte
<1>2. /\ (Here % 32) \in 0 .. 31
      /\ (Here \div 32) + 1 \in Nat /\ (Here \div 32) + 1 >= 1 /\ (Here \div 32) + 1 <= 8
  BY <1>1, ByteBound
<1>3. /\ packet_state = "LENGTH_HI" /\ proc = "packet" /\ pos < data_end
      /\ packet_state' = "TIMESTAMP" /\ pos' = pos + 1
      /\ frame_left' = frame_left - 1
      /\ ts_byte' = 0 /\ timestamp' = 0 /\ ts_length' = (Here \div 32) + 1
      /\ UNCHANGED <<buf, data_start, data_end, proc, frame_state, required_length, frame_failed, addr, value>>
      /\ UNCHANGED <<magic, flags, cumulative_ts, wrapped, payload>>
  BY DEF PacketLengthHi, PacketByte, InPacket, Consume
<1>4. size' \in Nat /\ size' <= 8191
  <2>1. size \in Nat /\ size <= 255
    BY <1>3, ByteBound DEF ControlInv, TypeOK
  <2>2. size' = (Here % 32) * 256 + size
    BY DEF PacketLengthHi
  <2> QED
    BY <1>2, <2>1, <2>2
<1>5. ts_length' \in Nat /\ ts_length' >= 1 /\ ts_length' <= 8
  BY <1>2, <1>3
<1>6. TypeOK'
  BY <1>3, <1>4, <1>5 DEF ControlInv, TypeOK, ReadsWithinFrame, PacketState
<1>7. FrameInv' /\ ReadsWithinFrame'
  BY <1>3 DEF ControlInv, TypeOK, FrameInv, ReadsWithinFrame
<1>8. TimestampFits' /\ OffsetInv'
  BY <1>3, <1>5 DEF ControlInv, TimestampFits, OffsetInv
<1> QED
  BY <1>6, <1>7, <1>8 DEF ControlInv

LEMMA PacketTimestampControl == ControlInv /\ PacketTimestamp => ControlInv'
<1> SUFFICES ASSUME ControlInv, PacketTimestamp PROVE ControlInv'
  OBVIOUS
<1>1. ShiftedTimestamp \in Nat
  BY TimestampGrows DEF ControlInv, PacketTimestamp, PacketByte
<1>2. TypeOK'
  BY <1>1 DEF ControlInv, TypeOK, ReadsWithinFrame, TimestampFits,
     PacketState, PacketTimestamp, PacketByte, Consume, MoreTimestamp,
     InPacket
<1>3. FrameInv' /\ ReadsWithinFrame'
  BY DEF ControlInv, TypeOK, FrameInv, ReadsWithinFrame, PacketTimestamp,
     PacketByte, Consume, MoreTimestamp, InPacket
<1>4. TimestampFits'
  BY <1>1 DEF ControlInv, TypeOK, TimestampFits, PacketTimestamp,
     PacketByte, Consume, MoreTimestamp, InPacket
<1>5. OffsetInv'
  BY DEF ControlInv, OffsetInv, PacketTimestamp, PacketByte, Consume,
     MoreTimestamp, InPacket
<1> QED
  BY <1>2, <1>3, <1>4, <1>5 DEF ControlInv

LEMMA PacketTimestampEndControl == ControlInv /\ PacketTimestampEnd => ControlInv'
<1> SUFFICES ASSUME ControlInv, PacketTimestampEnd PROVE ControlInv'
  OBVIOUS
<1>1. ShiftedTimestamp \in Nat
  BY TimestampGrows DEF ControlInv, PacketTimestampEnd, PacketByte
<1>6. cumulative_ts' \in Nat /\ wrapped' \in BOOLEAN
  BY <1>1, LaterFacts DEF ControlInv, TypeOK, PacketTimestampEnd, ClockForward
<1>2. TypeOK'
  BY <1>1, <1>6 DEF ControlInv, TypeOK, ReadsWithinFrame, TimestampFits,
     PacketState, PacketTimestampEnd, PacketByte, Consume, MoreTimestamp,
     InPacket
<1>3. FrameInv' /\ ReadsWithinFrame'
  BY DEF ControlInv, TypeOK, FrameInv, ReadsWithinFrame, PacketTimestampEnd,
     PacketByte, Consume, MoreTimestamp, InPacket
<1>4. TimestampFits'
  BY <1>1 DEF ControlInv, TypeOK, TimestampFits, PacketTimestampEnd,
     PacketByte, Consume, MoreTimestamp, InPacket
<1>5. OffsetInv'
  <2>1. flags \in Byte /\ size \in Nat
    BY DEF ControlInv, TypeOK
  <2>2. CapturedSize(flags, size) \in Nat
    BY <2>1, CapturedSizeNat
  <2> QED
    BY <2>2 DEF ControlInv, OffsetInv, PacketTimestampEnd, PacketByte,
       Consume, MoreTimestamp, InPacket
<1> QED
  BY <1>2, <1>3, <1>4, <1>5 DEF ControlInv

LEMMA PacketDataControl == ControlInv /\ PacketData => ControlInv'
<1> SUFFICES ASSUME ControlInv, PacketData PROVE ControlInv'
  OBVIOUS
<1>1. InPacket("DATA")
  BY DEF PacketData
<1>2. /\ DataToCopy \in Nat /\ DataToCopy <= DataMissing /\ DataMissing \in Nat
      /\ DataToCopy <= data_end - pos
      /\ DataMissing + buf_actual_length = CapturedSize(flags, size)
      /\ CopiedData \in Seq(Byte)
      /\ Len(CopiedData) = buf_actual_length + DataToCopy
  BY <1>1, CopyBounds, CopiedDataType
<1>3. TypeOK'
  BY <1>2 DEF ControlInv, TypeOK, PacketState, PacketData, Consume, InPacket
<1>4. FrameInv' /\ ReadsWithinFrame'
  BY <1>2 DEF ControlInv, TypeOK, FrameInv, ReadsWithinFrame, PacketData,
     Consume, InPacket
<1>5. TimestampFits'
  BY DEF ControlInv, TimestampFits, PacketData, Consume, InPacket
<1>6. OffsetInv'
  BY <1>2 DEF ControlInv, TypeOK, OffsetInv, PacketData, Consume, InPacket
<1> QED
  BY <1>3, <1>4, <1>5, <1>6 DEF ControlInv

LEMMA PacketDataEndControl == ControlInv /\ PacketDataEnd => ControlInv'
<1> SUFFICES ASSUME ControlInv, PacketDataEnd PROVE ControlInv'
  OBVIOUS
<1>1. InPacket("DATA")
  BY DEF PacketDataEnd
<1>2. /\ DataToCopy \in Nat /\ DataToCopy <= DataMissing /\ DataMissing \in Nat
      /\ DataToCopy <= data_end - pos
      /\ DataMissing + buf_actual_length = CapturedSize(flags, size)
      /\ CopiedData \in Seq(Byte)
      /\ Len(CopiedData) = buf_actual_length + DataToCopy
  BY <1>1, CopyBounds, CopiedDataType
<1>3. TypeOK'
  BY <1>2 DEF ControlInv, TypeOK, PacketState, PacketDataEnd, Consume, InPacket
<1>4. FrameInv' /\ ReadsWithinFrame'
  BY <1>2 DEF ControlInv, TypeOK, FrameInv, ReadsWithinFrame, PacketDataEnd,
     Consume, InPacket
<1>5. TimestampFits'
  BY DEF ControlInv, TimestampFits, PacketDataEnd, Consume, InPacket
<1>6. OffsetInv'
  BY <1>2 DEF ControlInv, TypeOK, OffsetInv, PacketDataEnd, Consume, InPacket
<1> QED
  BY <1>3, <1>4, <1>5, <1>6 DEF ControlInv

LEMMA PacketReturnControl == ControlInv /\ CallInv /\ PacketReturn => ControlInv'
<1> SUFFICES ASSUME ControlInv, CallInv, PacketReturn PROVE ControlInv'
  OBVIOUS
<1>4. required_length' \in Nat /\ required_length' <= 512
  BY DEF ControlInv, CallInv, TypeOK, PacketReturn
<1>1. TypeOK'
  BY <1>4 DEF ControlInv, TypeOK, FrameState, PacketReturn
<1>2. FrameInv' /\ ReadsWithinFrame'
  BY <1>4 DEF ControlInv, TypeOK, FrameInv, ReadsWithinFrame, PacketReturn
<1>3. TimestampFits' /\ OffsetInv'
  BY DEF ControlInv, TimestampFits, OffsetInv, PacketReturn
<1> QED
  BY <1>1, <1>2, <1>3 DEF ControlInv

LEMMA FeedControl ==
  ASSUME ControlInv, NEW chunk \in Seq(Byte), Feed(chunk)
  PROVE  ControlInv'
<1>2. TypeOK'
  BY DEF ControlInv, TypeOK, Feed, AtRest
<1>3. FrameInv' /\ ReadsWithinFrame'
  BY LenProperties DEF ControlInv, TypeOK, FrameInv, ReadsWithinFrame, Feed, AtRest
<1>4. TimestampFits' /\ OffsetInv'
  BY DEF ControlInv, TimestampFits, OffsetInv, Feed
<1> QED
  BY <1>2, <1>3, <1>4 DEF ControlInv

LEMMA NextControl == ControlInv /\ CallInv /\ [Next]_decoder_vars => ControlInv'
<1> SUFFICES ASSUME ControlInv, CallInv, [Next]_decoder_vars PROVE ControlInv'
  OBVIOUS
<1>1. CASE FrameStep
  BY <1>1, FrameMagicControl, WrongFrameMagicControl, SdramLengthControl,
     SdramDataControl, BusAddrHiControl, BusAddrLoControl, BusValueControl,
     BusChecksumControl DEF FrameStep
<1>2. CASE PacketStep
  BY <1>2, PacketMagicControl, WrongPacketMagicControl, PacketFlagsControl,
     PacketLengthLoControl, PacketLengthHiControl, PacketTimestampControl,
     PacketTimestampEndControl, PacketDataControl, PacketDataEndControl,
     PacketReturnControl DEF PacketStep
<1>3. CASE \E chunk \in Chunk : Feed(chunk)
  BY <1>3, FeedControl, ChunkAssumption
<1>4. CASE UNCHANGED decoder_vars
  BY <1>4 DEF decoder_vars, ControlInv, TypeOK, FrameInv, ReadsWithinFrame,
              TimestampFits, OffsetInv
<1> QED
  BY <1>1, <1>2, <1>3, <1>4 DEF Next, Step

-----------------------------------------------------------------------------
(***************************************************************************)
(* So is CallInv, given ControlInv                                         *)
(***************************************************************************)
LEMMA InitCall == Init => CallInv
BY DEF Init, CallInv

\* The packet decoder goes on in its buffer.
LEMMA ConsumeCall ==
  ASSUME TypeOK, CallInv, proc = "packet", NEW n \in Nat, n <= data_end - pos, Consume(n),
         proc' \in {"packet", "return"}
  PROVE  CallInv'
BY DEF TypeOK, CallInv, Consume

LEMMA FrameCall ==
  ASSUME TypeOK, ReadsWithinFrame, CallInv, FrameStep
  PROVE  CallInv'
<1>1. CASE SdramData
  BY <1>1 DEF TypeOK, ReadsWithinFrame, CallInv, SdramData, InFrame, MinOf
<1>2. CASE SdramLength
  BY <1>2 DEF CallInv, SdramLength, FrameByte, InFrame
<1>3. CASE FrameMagic \/ WrongFrameMagic \/ BusAddrHi \/ BusAddrLo \/ BusValue \/ BusChecksum
  <2>1. proc = "frame" /\ proc' \in {"frame", "error"} /\ UNCHANGED sdram
    BY <1>3 DEF FrameMagic, WrongFrameMagic, BusAddrHi, BusAddrLo, BusValue, BusChecksum,
       FrameByte, InFrame
  <2> QED
    BY <2>1 DEF CallInv
<1> QED
  BY <1>1, <1>2, <1>3 DEF FrameStep

LEMMA NextCall == ControlInv /\ CallInv /\ [Next]_decoder_vars => CallInv'
<1> SUFFICES ASSUME ControlInv, CallInv, [Next]_decoder_vars PROVE CallInv'
  OBVIOUS
<1>1. TypeOK /\ ReadsWithinFrame
  BY DEF ControlInv
<1>2. CASE FrameStep
  BY <1>1, <1>2, FrameCall
<1>3. CASE \/ PacketMagic \/ PacketFlags \/ PacketLengthLo \/ PacketLengthHi
           \/ PacketTimestamp \/ PacketTimestampEnd
  <2>1. proc = "packet" /\ proc' = "packet" /\ pos < data_end /\ Consume(1)
    BY <1>3 DEF PacketMagic, PacketFlags, PacketLengthLo, PacketLengthHi,
       PacketTimestamp, PacketTimestampEnd, PacketByte, InPacket
  <2>2. 1 <= data_end - pos
    BY <1>1, <2>1 DEF TypeOK
  <2> QED
    BY <1>1, <2>1, <2>2, ConsumeCall
<1>4. CASE PacketData \/ PacketDataEnd
  <2>1. /\ InPacket("DATA") /\ proc = "packet" /\ proc' \in {"packet", "return"}
        /\ Consume(DataToCopy)
    BY <1>4 DEF PacketData, PacketDataEnd, InPacket
  <2>2. DataToCopy \in Nat /\ DataToCopy <= data_end - pos
    BY <2>1, CopyBounds
  <2>3. PICK n \in Nat : n = DataToCopy
    BY <2>2
  <2>4. Consume(n)
    BY <2>1, <2>3 DEF Consume
  <2> QED
    BY <1>1, <2>1, <2>2, <2>3, <2>4, ConsumeCall
<1>5. CASE WrongPacketMagic
  BY <1>5 DEF CallInv, WrongPacketMagic
<1>6. CASE PacketReturn
  BY <1>1, <1>6 DEF TypeOK, CallInv, PacketReturn
<1>7. CASE \E chunk \in Chunk : Feed(chunk)
  BY <1>7 DEF CallInv, Feed, AtRest
<1>8. CASE UNCHANGED decoder_vars
  BY <1>8 DEF decoder_vars, CallInv
<1> QED
  BY <1>2, <1>3, <1>4, <1>5, <1>6, <1>7, <1>8 DEF Next, Step, PacketStep

-----------------------------------------------------------------------------
(***************************************************************************)
(* HistoryInv is inductive, given ControlInv                               *)
(***************************************************************************)
LEMMA InitHistory == Init => HistoryInv
BY EmptySeq DEF Init, InitPacketDecoder, HistoryInv, PacketsInv, ClockInv,
   TimestampsOrdered

\* A step that passes no packet on and leaves the clock alone
LEMMA HistorySame ==
  ASSUME HistoryInv, UNCHANGED <<packets, cumulative_ts, wrapped>>, ClockInv'
  PROVE  HistoryInv'
<1>1. PacketsInv'
  BY DEF HistoryInv, PacketsInv
<1>2. TimestampsOrdered'
  BY DEF HistoryInv, TimestampsOrdered
<1> QED
  BY <1>1, <1>2 DEF HistoryInv

\* The steps of the frame decoder, and those that end a call, do not reach into
\* the packet decoder.
LEMMA OutsideHistory ==
  ASSUME HistoryInv, UNCHANGED <<packet_vars, packets>>
  PROVE  HistoryInv'
<1>1. ClockInv' /\ UNCHANGED <<packets, cumulative_ts, wrapped>>
  BY DEF HistoryInv, ClockInv
<1> QED
  BY <1>1, HistorySame

LEMMA FrameHistory ==
  ASSUME HistoryInv, FrameStep \/ WrongPacketMagic \/ PacketReturn
  PROVE  HistoryInv'
<1>1. UNCHANGED <<packet_vars, packets>>
  BY DEF FrameStep, FrameMagic, WrongFrameMagic, SdramLength, SdramData,
     BusAddrHi,
         BusAddrLo, BusValue, BusChecksum, FrameByte, WrongPacketMagic, PacketReturn
<1> QED
  BY <1>1, OutsideHistory

\* The steps through the header of a packet, and the copying of its data
LEMMA HeaderHistory ==
  ASSUME HistoryInv,
         \/ PacketMagic \/ PacketFlags \/ PacketLengthLo \/ PacketLengthHi
         \/ PacketTimestamp \/ PacketData
  PROVE  HistoryInv'
<1>1. UNCHANGED <<packets, cumulative_ts, wrapped>>
  BY DEF PacketMagic, PacketFlags, PacketLengthLo, PacketLengthHi,
     PacketTimestamp,
         PacketData, PacketByte
<1>2. ClockInv'
  BY DEF HistoryInv, ClockInv, PacketMagic, PacketFlags, PacketLengthLo,
     PacketLengthHi,
         PacketTimestamp, PacketData, PacketByte, InPacket
<1> QED
  BY <1>1, <1>2, HistorySame

\* The clock goes forward, until it wraps: what was passed on is not after it.
LEMMA TimestampEndHistory ==
  ASSUME ControlInv, HistoryInv, PacketTimestampEnd
  PROVE  HistoryInv'
<1>1. ShiftedTimestamp \in Nat
  BY TimestampGrows DEF ControlInv, PacketTimestampEnd, PacketByte
<1>2. /\ cumulative_ts \in Nat /\ timestamp' = cumulative_ts' /\ UNCHANGED packets
      /\ cumulative_ts' = Later(cumulative_ts, ShiftedTimestamp)
  BY DEF ControlInv, TypeOK, PacketTimestampEnd, PacketByte, ClockForward
<1>6. ~wrapped' => ~wrapped /\ ~(cumulative_ts + ShiftedTimestamp >= ClockMod)
  BY Zenon DEF PacketTimestampEnd, ClockForward
<1>5. ~wrapped' => ~wrapped /\ cumulative_ts' = cumulative_ts + ShiftedTimestamp
  BY <1>1, <1>2, <1>6, ClockModAssumption, LaterFacts
<1>3. PacketsInv'
  <2>1. \A i \in 1 .. Len(packets) : packets[i].timestamp \in Nat
    <3> TAKE i \in 1 .. Len(packets)
    <3>1. packets[i] \in UsbPacket
      BY ElementOfSeq DEF HistoryInv, PacketsInv
    <3> QED
      BY <3>1 DEF UsbPacket
  <2> QED
    BY <1>1, <1>2, <1>5, <2>1 DEF HistoryInv, PacketsInv
<1>4. ClockInv' /\ TimestampsOrdered'
  BY <1>2, <1>6 DEF HistoryInv, ClockInv, TimestampsOrdered
<1> QED
  BY <1>3, <1>4 DEF HistoryInv

\* A packet is passed on whole, at the clock's time.
LEMMA DataEndHistory ==
  ASSUME ControlInv, HistoryInv, PacketDataEnd
  PROVE  HistoryInv'
<1> DEFINE last == [magic |-> magic, flags |-> flags, size |-> size,
                    timestamp |-> timestamp, data |-> CopiedData]
           n == Len(packets)
<1>1. InPacket("DATA") /\ DataMissing = DataToCopy
  BY DEF PacketDataEnd, DataComplete
<1>2. /\ CopiedData \in Seq(Byte)
      /\ Len(CopiedData) = CapturedSize(flags, size)
  <2>1. DataMissing + buf_actual_length = CapturedSize(flags, size)
    BY <1>1, CopyBounds
  <2>2. Len(CopiedData) = buf_actual_length + DataToCopy /\ CopiedData \in Seq(Byte)
    BY <1>1, CopiedDataType
  <2>3. DataMissing \in Nat /\ buf_actual_length \in Nat
    BY <1>1, CopyBounds DEF ControlInv, TypeOK
  <2> QED
    BY <1>1, <2>1, <2>2, <2>3
<1>3. last \in UsbPacket
  BY <1>2 DEF UsbPacket, ControlInv, TypeOK
<1>4. /\ packets' = Append(packets, last) /\ UNCHANGED <<cumulative_ts, wrapped>>
      /\ packet_state' = "MAGIC" /\ timestamp = cumulative_ts
  BY <1>1 DEF PacketDataEnd, HistoryInv, ClockInv, InPacket
<1>5. packets \in Seq(UsbPacket) /\ n \in Nat
  BY DEF HistoryInv, PacketsInv
<1>6. /\ packets' \in Seq(UsbPacket) /\ Len(packets') = n + 1
      /\ \A i \in 1 .. n : packets'[i] = packets[i]
      /\ packets'[n + 1] = last
  BY <1>3, <1>4, <1>5, AppendProperties
<1>7. last.timestamp = cumulative_ts /\ last.flags = flags /\ last.size = size
      /\ last.data = CopiedData
  BY <1>4
<1> HIDE DEF last
<1>8. PacketsInv'
  <2> SUFFICES ASSUME NEW i \in 1 .. n + 1
               PROVE  /\ ~wrapped => packets'[i].timestamp <= cumulative_ts
                      /\ Len(packets'[i].data)
                           = CapturedSize(packets'[i].flags, packets'[i].size)
    BY <1>4, <1>6 DEF PacketsInv
  <2>1. CASE i \in 1 .. n
    BY <1>6, <2>1 DEF HistoryInv, PacketsInv
  <2>2. CASE i = n + 1
    <3>1. packets'[i] = last /\ cumulative_ts \in Nat
      BY <1>6, <2>2 DEF ControlInv, TypeOK
    <3> QED
      BY <1>2, <1>7, <3>1
  <2> QED
    BY <1>5, <2>1, <2>2
<1>9. ClockInv'
  BY <1>4 DEF ClockInv
<1>10. TimestampsOrdered'
  <2> SUFFICES ASSUME ~wrapped, NEW i \in 1 .. n + 1, NEW j \in 1 .. n + 1, i < j
               PROVE  packets'[i].timestamp <= packets'[j].timestamp
    BY <1>4, <1>6 DEF TimestampsOrdered
  <2>1. i \in 1 .. n
    BY <1>5
  <2>2. CASE j \in 1 .. n
    BY <1>6, <2>1, <2>2 DEF HistoryInv, TimestampsOrdered
  <2>3. CASE j = n + 1
    <3>1. packets'[i] = packets[i] /\ packets'[j] = last
      BY <1>6, <2>1, <2>3
    <3>2. packets[i].timestamp <= cumulative_ts
      BY <2>1 DEF HistoryInv, PacketsInv
    <3> QED
      BY <1>7, <3>1, <3>2
  <2> QED
    BY <1>5, <2>2, <2>3
<1> QED
  BY <1>8, <1>9, <1>10 DEF HistoryInv

LEMMA NextHistory == ControlInv /\ HistoryInv /\ [Next]_decoder_vars => HistoryInv'
<1> SUFFICES ASSUME ControlInv, HistoryInv, [Next]_decoder_vars PROVE HistoryInv'
  OBVIOUS
<1>1. CASE FrameStep
  BY <1>1, FrameHistory
<1>2. CASE PacketStep
  BY <1>2, FrameHistory, HeaderHistory, TimestampEndHistory, DataEndHistory
     DEF PacketStep
<1>3. CASE \E chunk \in Chunk : Feed(chunk)
  <2>1. UNCHANGED <<packet_vars, packets>>
    BY <1>3 DEF Feed
  <2> QED
    BY <2>1, OutsideHistory
<1>4. CASE UNCHANGED decoder_vars
  <2>1. UNCHANGED <<packet_vars, packets>>
    BY <1>4 DEF decoder_vars
  <2> QED
    BY <2>1, OutsideHistory
<1> QED
  BY <1>1, <1>2, <1>3, <1>4 DEF Next, Step

-----------------------------------------------------------------------------
(***************************************************************************)
(* The theorems                                                            *)
(***************************************************************************)
\* The strengthened invariant holds whatever bytes the decoder is called with.
THEOREM Invariance == Spec => []IInv
<1>1. Init => IInv
  BY InitControl, InitCall, InitHistory DEF IInv
<1>2. IInv /\ [Next]_decoder_vars => IInv'
  BY NextControl, NextCall, NextHistory DEF IInv
<1> QED
  BY <1>1, <1>2, PTL DEF Spec

\* The fields of the decoders keep to the widths of the wire's fields: a size to
\* 13 bits, a timestamp to at most 8 bytes, a frame to 512 bytes.
THEOREM TypeCorrect == Spec => []TypeOK
<1>1. IInv => TypeOK
  BY DEF IInv, ControlInv
<1> QED
  BY <1>1, Invariance, PTL

\* The assertion of packet_decoder_proc() never fails: no packet starts with the
\* offset the packet before it left, not even in a stream out of step.
THEOREM DecoderAssertionCorrect == Spec => []DecoderAssertion
<1>1. IInv => DecoderAssertion
  BY DEF IInv, ControlInv, OffsetInv, DecoderAssertion
<1> QED
  BY <1>1, Invariance, PTL

\* The decoder reads no byte behind the caller's buffer, and the packet decoder
\* none behind the SDRAM frame it is in, unless a call has failed within that frame:
\* the next call then takes it for longer than it is (src/src/decoder.c:131-140).
THEOREM ReadsWithinFrameCorrect == Spec => []ReadsWithinFrame
<1>1. IInv => ReadsWithinFrame
  BY DEF IInv, ControlInv
<1> QED
  BY <1>1, Invariance, PTL

\* What has been copied of a packet is within its captured size, and so within as much
\* room as the caller has for that.
LEMMA IInvWritesWithinPacket == IInv => WritesWithinPacket
<1> SUFFICES ASSUME IInv PROVE WritesWithinPacket
  OBVIOUS
<1>1. buf_actual_length \in Nat /\ flags \in Byte /\ size \in Nat
  BY DEF IInv, ControlInv, TypeOK
<1>2. buf_length \in Nat /\ CapturedSize(flags, size) \in Nat
  BY <1>1, BufLengthAssumption, CapturedSizeNat
<1>3. OffsetInv /\ PacketsInv
  BY DEF IInv, ControlInv, HistoryInv
<1> QED
  BY <1>1, <1>2, <1>3 DEF OffsetInv, PacketsInv, WritesWithinPacket

\* memcpy() writes no byte behind the packet's captured size, and a packet is
\* passed on only when that many have been copied.
THEOREM WritesWithinPacketCorrect == Spec => []WritesWithinPacket
BY IInvWritesWithinPacket, Invariance, PTL

\* No timestamp byte is shifted out of the 64 bits of the timestamp.
THEOREM TimestampFitsCorrect == Spec => []TimestampFits
<1>1. IInv => TimestampFits
  BY DEF IInv, ControlInv
<1> QED
  BY <1>1, Invariance, PTL

\* The timestamps passed on never decrease until the clock passes its 64 bits
\* (src/src/decoder.c:66-70).
THEOREM TimestampsOrderedCorrect == Spec => []TimestampsOrdered
<1>1. IInv => TimestampsOrdered
  BY DEF IInv, HistoryInv
<1> QED
  BY <1>1, Invariance, PTL

\* Whatever bytes arrive in whatever buffers, also in those passed behind a call that
\* failed, the decoder keeps within them, within the captured size of the packet and
\* within its own fields, and within the SDRAM frame if no call has failed in that.
THEOREM WithinBoundsCorrect == Spec => []WithinBounds
BY DecoderAssertionCorrect, ReadsWithinFrameCorrect, WritesWithinPacketCorrect,
   TimestampFitsCorrect, PTL DEF WithinBounds

-----------------------------------------------------------------------------
(***************************************************************************)
(* The device's side of a stream: `stream' is all that the packets are     *)
(* encoded to, with the fillers; pm has the places in it where a packet    *)
(* ends, with the number of packets before, and wm those on the wire where *)
(* a frame ends, with the number of bus frames and of bytes of the stream  *)
(* before.  All three only grow, and they are not part of the state: that  *)
(* there are such is what the invariant says.                              *)
(***************************************************************************)
\* The timestamp of packet i, to which that of the next one is relative
TimeOf(i) == IF i = 0 THEN 0 ELSE sent[i].timestamp

\* Packet i + 1 is of kind k and begins behind byte a of the stream.
PacketAt(stream, pm, a, i, k) ==
  /\ a + Len(Encode(k)) <= Len(stream) /\ i < Len(sent)
  /\ \A j \in 1 .. Len(Encode(k)) : stream[a + j] = Encode(k)[j]
  /\ <<a + Len(Encode(k)), i + 1>> \in pm
  /\ sent[i + 1] = [magic |-> 160, flags |-> k.flags, size |-> k.size,
                    timestamp |-> Later(TimeOf(i), Timestamp(k.ts)), data |-> k.data]

FillerAt(stream, pm, a, i) ==
  a < Len(stream) /\ stream[a + 1] = 161 /\ <<a + 1, i>> \in pm

\* Byte a of the stream is the end of the first i packets, and what follows is a
\* packet, a filler or nothing yet.
PacketMark(stream, pm, a, i) ==
  \/ a = Len(stream) /\ i = Len(sent)
  \/ FillerAt(stream, pm, a, i)
  \/ \E k \in Kinds : PacketAt(stream, pm, a, i, k)

PacketMarks(stream, pm) ==
  /\ pm \subseteq Nat \X Nat
  /\ <<0, 0>> \in pm /\ <<Len(stream), Len(sent)>> \in pm
  /\ \A a, i \in Nat : <<a, i>> \in pm => PacketMark(stream, pm, a, i)

\* Behind byte f of the wire is bus frame b + 1, or an SDRAM frame with what
\* follows byte s of the stream.
BusAt(wm, f, b, s) ==
  /\ f + 5 <= Len(wire) /\ b < Len(sent_bus) /\ wire[f + 1] = 85
  /\ sent_bus[b + 1] = [addr |-> wire[f + 2] * 256 + wire[f + 3], value |-> wire[f + 4]]
  /\ <<f + 5, b + 1, s>> \in wm

FrameLength(f) == (wire[f + 2] + 1) * 2

SdramAt(stream, wm, f, b, s) ==
  /\ f + 2 <= Len(wire) /\ wire[f + 1] = 208
  /\ f + 2 + FrameLength(f) <= Len(wire) /\ s + FrameLength(f) <= Len(stream)
  /\ \A j \in 1 .. FrameLength(f) : wire[f + 2 + j] = stream[s + j]
  /\ <<f + 2 + FrameLength(f), b, s + FrameLength(f)>> \in wm

FrameMark(stream, wm, f, b, s) ==
  \/ f = Len(wire) /\ b = Len(sent_bus) /\ s = Len(stream) - Len(fifo)
  \/ BusAt(wm, f, b, s)
  \/ SdramAt(stream, wm, f, b, s)

FrameMarks(stream, wm) ==
  /\ wm \subseteq Nat \X Nat \X Nat
  /\ <<0, 0, 0>> \in wm
  /\ <<Len(wire), Len(sent_bus), Len(stream) - Len(fifo)>> \in wm
  /\ \A f, b, s \in Nat : <<f, b, s>> \in wm => FrameMark(stream, wm, f, b, s)

\* The fifo holds the end of the stream.
FifoEnds(stream) ==
  /\ Len(fifo) <= Len(stream)
  /\ \A j \in 1 .. Len(fifo) : fifo[j] = stream[Len(stream) - Len(fifo) + j]

DeviceInv(stream, pm, wm) ==
  stream \in Seq(Byte) /\ PacketMarks(stream, pm) /\ FrameMarks(stream, wm)
  /\ FifoEnds(stream)

BusFrame == [addr : Address, value : Byte]

StreamTypeOK ==
  /\ fifo \in Seq(Byte) /\ wire \in Seq(Byte)
  /\ sent \in Seq(UsbPacket) /\ sent_bus \in Seq(BusFrame)
  /\ fed \in 0 .. Len(wire) /\ lossy \in BOOLEAN

-----------------------------------------------------------------------------
(***************************************************************************)
(* The host's side: at a mark it waits for a magic, behind it its state    *)
(* says how far in the frame, or the packet, it has come.                  *)
(***************************************************************************)
\* How far the decoder has come on the wire
Place == (fed - Len(buf)) + pos

BufferInv ==
  /\ Len(buf) <= fed /\ fed <= Len(wire)
  /\ \A j \in 1 .. Len(buf) : buf[j] = wire[(fed - Len(buf)) + j]

\* Within bus frame b + 1, which begins behind byte f of the wire
InBusFrame(f) ==
  \/ frame_state = "BUS_ADDR_HI" /\ Place = f + 1
  \/ frame_state = "BUS_ADDR_LO" /\ Place = f + 2 /\ addr = wire[f + 2] * 256
  \/ /\ frame_state = "BUS_VALUE" /\ Place = f + 3
     /\ addr = wire[f + 2] * 256 + wire[f + 3]
  \/ /\ frame_state = "BUS_CHECKSUM" /\ Place = f + 4
     /\ addr = wire[f + 2] * 256 + wire[f + 3] /\ value = wire[f + 4]

\* Within the SDRAM frame that begins there, c bytes into the stream
InSdramFrame(f, s, c) ==
  \/ frame_state = "SDRAM_LENGTH" /\ proc = "frame" /\ Place = f + 1 /\ c = s
  \/ /\ frame_state = "SDRAM_DATA" /\ proc # "error" /\ ~frame_failed
     /\ frame_left <= FrameLength(f)
     /\ Place + frame_left = f + 2 + FrameLength(f)
     /\ c + frame_left = s + FrameLength(f)

AtFrame(stream, wm, f, b, s, c) ==
  /\ bus_frames = SubSeq(sent_bus, 1, b) /\ b <= Len(sent_bus)
  /\ \/ frame_state = "MAGIC" /\ proc = "frame" /\ Place = f /\ c = s
     \/ proc = "frame" /\ c = s /\ BusAt(wm, f, b, s) /\ InBusFrame(f)
     \/ SdramAt(stream, wm, f, b, s) /\ InSdramFrame(f, s, c)

SomeFrame(stream, wm, c) ==
  \E f, b, s \in Nat : <<f, b, s>> \in wm /\ AtFrame(stream, wm, f, b, s, c)

\* Within the header of a packet of kind k, o bytes into it
InHeader(k, o) ==
  \/ packet_state = "FLAGS" /\ o = 1
  \/ packet_state = "LENGTH_LO" /\ o = 2 /\ flags = k.flags
  \/ packet_state = "LENGTH_HI" /\ o = 3 /\ flags = k.flags /\ size = k.size % 256
  \/ /\ packet_state = "TIMESTAMP" /\ o = 4 + ts_byte /\ flags = k.flags /\ size = k.size
     /\ ts_length = Len(k.ts) /\ timestamp = TimestampUpTo(k.ts, ts_byte)

\* Within its data, or behind it if there is none
InData(k, o) ==
  /\ packet_state = "DATA" /\ o = 4 + Len(k.ts) + buf_actual_length
  /\ flags = k.flags /\ size = k.size
  /\ buf_actual_length < Len(k.data) \/ (buf_actual_length = 0 /\ Len(k.data) = 0)
  /\ \A j \in 1 .. buf_actual_length : data[j] = k.data[j]

\* Within packet i + 1, which begins behind byte a of the stream
InKind(stream, pm, a, i, c, k) ==
  /\ PacketAt(stream, pm, a, i, k) /\ magic = 160
  /\ \E o \in Nat :
       /\ c = a + o
       /\ \/ InHeader(k, o) /\ cumulative_ts = TimeOf(i)
          \/ /\ InData(k, o) /\ timestamp = cumulative_ts
             /\ cumulative_ts = Later(TimeOf(i), Timestamp(k.ts))

AtPacket(stream, pm, a, i, c) ==
  /\ packets = SubSeq(sent, 1, i) /\ i <= Len(sent)
  /\ \/ packet_state = "MAGIC" /\ c = a /\ cumulative_ts = TimeOf(i)
     \/ \E k \in Kinds : InKind(stream, pm, a, i, c, k)

SomePacket(stream, pm, c) ==
  \E a, i \in Nat : <<a, i>> \in pm /\ AtPacket(stream, pm, a, i, c)

\* Where the decoder is on the wire and where it is in the stream agree.
HostInv(stream, pm, wm) ==
  BufferInv /\ \E c \in Nat : SomeFrame(stream, wm, c) /\ SomePacket(stream, pm, c)

\* Until something is read the host is as it began.
Untouched ==
  /\ buf = << >> /\ pos = 0 /\ proc = "frame"
  /\ frame_state = "MAGIC" /\ packet_state = "MAGIC" /\ cumulative_ts = 0
  /\ packets = << >> /\ bus_frames = << >>

Witnessed(stream, pm, wm) ==
  DeviceInv(stream, pm, wm) /\ (~lossy /\ fed # 0 => HostInv(stream, pm, wm))

StreamIInv ==
  /\ IInv /\ StreamTypeOK /\ (fed = 0 => Untouched)
  /\ \E stream, pm, wm : Witnessed(stream, pm, wm)

-----------------------------------------------------------------------------
(***************************************************************************)
(* Sequences and timestamps                                                *)
(***************************************************************************)
\* The first n members of a sequence
LEMMA BeginningOf ==
  ASSUME NEW S, NEW all \in Seq(S), NEW n \in Nat, n <= Len(all)
  PROVE  /\ SubSeq(all, 1, n) \in Seq(S) /\ Len(SubSeq(all, 1, n)) = n
         /\ \A j \in 1 .. n : SubSeq(all, 1, n)[j] = all[j]
<1>1. \A i \in 1 .. n : all[i] \in S
  BY ElementOfSeq, LenProperties
<1> QED
  BY <1>1, SubSeqProperties

\* What follows the first n of them
LEMMA RestOf ==
  ASSUME NEW S, NEW all \in Seq(S), NEW n \in Nat, n <= Len(all)
  PROVE  /\ SubSeq(all, n + 1, Len(all)) \in Seq(S)
         /\ Len(SubSeq(all, n + 1, Len(all))) = Len(all) - n
         /\ \A j \in 1 .. Len(all) - n : SubSeq(all, n + 1, Len(all))[j] = all[n + j]
<1> DEFINE l == Len(all)
           rest == SubSeq(all, n + 1, l)
<1>1. l \in Nat /\ \A i \in n + 1 .. l : all[i] \in S
  BY ElementOfSeq, LenProperties
<1>2. n <= l
  OBVIOUS
<1> HIDE DEF l
<1>3. /\ rest \in Seq(S)
      /\ Len(rest) = IF n + 1 <= l THEN l - (n + 1) + 1 ELSE 0
      /\ \A j \in 1 .. l - (n + 1) + 1 : rest[j] = all[n + 1 + j - 1]
  BY <1>1, SubSeqProperties, SMTT(30)
<1>4. l - (n + 1) + 1 = l - n /\ \A j \in Nat : n + 1 + j - 1 = n + j
  BY <1>1
<1>5. Len(rest) = l - n
  <2>1. CASE n + 1 <= l
    BY <1>3, <1>4, <2>1
  <2>2. CASE ~(n + 1 <= l)
    <3>1. l - n = 0
      BY <1>1, <1>2, <2>2
    <3> QED
      BY <1>3, <2>2, <3>1
  <2> QED
    BY <2>1, <2>2
<1>6. ASSUME NEW j \in 1 .. l - n PROVE rest[j] = all[n + j]
  <2>1. j \in Nat /\ j \in 1 .. l - (n + 1) + 1
    BY <1>4
  <2> QED
    BY <1>3, <1>4, <2>1
<1> QED
  BY <1>3, <1>5, <1>6 DEF l

LEMMA ConcatAt ==
  ASSUME NEW S, NEW p \in Seq(S), NEW q \in Seq(S)
  PROVE  /\ p \o q \in Seq(S) /\ Len(p \o q) = Len(p) + Len(q)
         /\ Len(p) \in Nat /\ Len(q) \in Nat
         /\ \A i \in 1 .. Len(p) : (p \o q)[i] = p[i]
         /\ \A i \in 1 .. Len(q) : (p \o q)[Len(p) + i] = q[i]
<1>1. Len(p) \in Nat /\ Len(q) \in Nat
  BY LenProperties
<1>2. /\ p \o q \in Seq(S) /\ Len(p \o q) = Len(p) + Len(q)
      /\ \A i \in 1 .. Len(p) + Len(q) :
           (p \o q)[i] = IF i <= Len(p) THEN p[i] ELSE q[i - Len(p)]
  BY ConcatProperties
<1>3. \A i \in 1 .. Len(p) : (p \o q)[i] = p[i]
  BY <1>1, <1>2
<1>4. ASSUME NEW i \in 1 .. Len(q) PROVE (p \o q)[Len(p) + i] = q[i]
  <2>1. Len(p) + i \in 1 .. Len(p) + Len(q) /\ ~(Len(p) + i <= Len(p))
        /\ (Len(p) + i) - Len(p) = i
    BY <1>1
  <2> QED
    BY <1>2, <2>1
<1> QED
  BY <1>1, <1>2, <1>3, <1>4

\* A timestamp is put together byte by byte.
SumOf(p) == p[1] + p[2] + p[3] + p[4] + p[5] + p[6] + p[7] + p[8]

LEMMA SumOfNat ==
  ASSUME NEW p \in [1 .. 8 -> Nat]
  PROVE  SumOf(p) \in Nat
<1> SUFFICES ASSUME NEW a \in Nat, NEW b \in Nat, NEW c \in Nat, NEW d \in Nat,
                    NEW e \in Nat, NEW f \in Nat, NEW g \in Nat, NEW h \in Nat
             PROVE  a + b + c + d + e + f + g + h \in Nat
  <2>1. /\ p[1] \in Nat /\ p[2] \in Nat /\ p[3] \in Nat /\ p[4] \in Nat
        /\ p[5] \in Nat /\ p[6] \in Nat /\ p[7] \in Nat /\ p[8] \in Nat
    OBVIOUS
  <2> QED
    BY <2>1 DEF SumOf
<1> QED
  OBVIOUS

\* A term that was 0 adds to the sum what it becomes.
LEMMA OneMoreTerm ==
  ASSUME NEW p \in [1 .. 8 -> Nat], NEW q \in [1 .. 8 -> Nat], NEW m \in 1 .. 8,
         p[m] = 0, \A i \in 1 .. 8 : i # m => q[i] = p[i]
  PROVE  SumOf(q) = SumOf(p) + q[m]
<1>1. m \in {1, 2, 3, 4, 5, 6, 7, 8}
  OBVIOUS
<1> QED
  BY <1>1 DEF SumOf

\* The first n + 1 bytes are the first n, and the next in its place.
LEMMA TimestampSteps ==
  ASSUME NEW ts \in Seq(Byte), Len(ts) <= 8, NEW n \in 0 .. Len(ts)
  PROVE  /\ TimestampUpTo(ts, n) \in Nat
         /\ TimestampUpTo(ts, 0) = 0
         /\ n < Len(ts) =>
              TimestampUpTo(ts, n + 1) = TimestampUpTo(ts, n) + Shifted(ts[n + 1], n)
<1> DEFINE at(m) == [i \in 1 .. 8 |-> IF i <= m THEN Shifted(ts[i], i - 1) ELSE 0]
<1>1. Len(ts) \in Nat
  BY LenProperties
<1>2. ASSUME NEW i \in 1 .. Len(ts) PROVE Shifted(ts[i], i - 1) \in Nat
  <2>1. ts[i] \in Byte /\ i - 1 \in 0 .. 7
    BY <1>1, ElementOfSeq
  <2> QED
    BY <2>1, ShiftedAssumption
<1>3. ASSUME NEW m \in 0 .. Len(ts) PROVE at(m) \in [1 .. 8 -> Nat]
  <2> SUFFICES ASSUME NEW i \in 1 .. 8, i <= m PROVE Shifted(ts[i], i - 1) \in Nat
    OBVIOUS
  <2>1. i \in 1 .. Len(ts)
    BY <1>1
  <2> QED
    BY <1>2, <2>1
<1>4. \A m : TimestampUpTo(ts, m) = SumOf(at(m))
  BY DEF TimestampUpTo, SumOf
<1>5. \A p \in [1 .. 8 -> Nat] : SumOf(p) \in Nat
  BY SumOfNat
<1>6. SumOf(at(0)) = 0
  BY DEF SumOf
<1>7. ASSUME n < Len(ts) PROVE SumOf(at(n + 1)) = SumOf(at(n)) + Shifted(ts[n + 1], n)
  <2>1. at(n) \in [1 .. 8 -> Nat] /\ at(n + 1) \in [1 .. 8 -> Nat]
    <3>1. n + 1 \in 0 .. Len(ts)
      BY <1>1, <1>7
    <3> QED
      BY <1>3, <3>1
  <2>2. /\ n + 1 \in 1 .. 8 /\ at(n)[n + 1] = 0
        /\ at(n + 1)[n + 1] = Shifted(ts[n + 1], n)
        /\ \A i \in 1 .. 8 : i # n + 1 => at(n + 1)[i] = at(n)[i]
    BY <1>1, <1>7, SMTT(30)
  <2> HIDE DEF at
  <2> QED
    BY <2>1, <2>2, OneMoreTerm
<1> HIDE DEF at
<1> QED
  BY <1>3, <1>4, <1>5, <1>6, <1>7

\* The bytes of an encoded packet, one by one
LEMMA EncodeAt ==
  ASSUME NEW k \in Kinds
  PROVE  /\ Encode(k) \in Seq(Byte)
         /\ Len(Encode(k)) = 4 + Len(k.ts) + Len(k.data)
         /\ Encode(k)[1] = 160 /\ Encode(k)[2] = k.flags
         /\ Encode(k)[3] = k.size % 256
         /\ Encode(k)[4] = (k.size \div 256) + 32 * (Len(k.ts) - 1)
         /\ \A j \in 1 .. Len(k.ts) : Encode(k)[4 + j] = k.ts[j]
         /\ \A j \in 1 .. Len(k.data) : Encode(k)[4 + Len(k.ts) + j] = k.data[j]
<1> DEFINE h == <<160, k.flags, k.size % 256, (k.size \div 256) + 32 * (Len(k.ts) - 1)>>
           p == h \o k.ts
<1>1. /\ k.flags \in Byte /\ k.size \in Nat /\ k.size <= 8191
      /\ k.ts \in Seq(Byte) /\ k.data \in Seq(Byte)
      /\ Len(k.ts) \in Nat /\ 1 <= Len(k.ts) /\ Len(k.ts) <= 8
      /\ Len(k.data) \in Nat
  <2>1. k.ts \in Seq(Byte) /\ k.data \in Seq(Byte)
    BY KindsAssumption
  <2> QED
    BY <2>1, KindsAssumption, LenProperties
<1>2. /\ 160 \in Byte /\ k.size % 256 \in Byte
      /\ (k.size \div 256) + 32 * (Len(k.ts) - 1) \in Byte
  <2>1. 160 \in Byte
    BY DEF Byte
  <2>2. k.size % 256 \in Byte
    <3>1. k.size \in Nat
      BY <1>1
    <3> QED
      BY <3>1 DEF Byte
  <2>3. (k.size \div 256) + 32 * (Len(k.ts) - 1) \in Byte
    <3> DEFINE q == k.size \div 256
               n == Len(k.ts)
    <3>1. q \in Nat /\ q < 32 /\ n \in Nat /\ 1 <= n /\ n <= 8
      BY <1>1
    <3> HIDE DEF q, n
    <3>2. q + 32 * (n - 1) \in Byte
      BY <3>1 DEF Byte
    <3> QED
      BY <3>2 DEF q, n
  <2> QED
    BY <2>1, <2>2, <2>3
<1>3. h \in Seq(Byte) /\ Len(h) = 4
  BY <1>1, <1>2
<1>4. h[1] = 160 /\ h[2] = k.flags /\ h[3] = k.size % 256
      /\ h[4] = (k.size \div 256) + 32 * (Len(k.ts) - 1)
  OBVIOUS
<1>5. Encode(k) = p \o k.data
  BY DEF Encode
<1> HIDE DEF h
<1>6. /\ p \in Seq(Byte) /\ Len(p) = Len(h) + Len(k.ts)
      /\ \A j \in 1 .. Len(h) : p[j] = h[j]
      /\ \A j \in 1 .. Len(k.ts) : p[Len(h) + j] = k.ts[j]
  <2>1. h \in Seq(Byte) /\ k.ts \in Seq(Byte)
    BY <1>1, <1>3
  <2> QED
    BY <2>1, ConcatAt
<1> HIDE DEF p
<1>7. /\ Encode(k) \in Seq(Byte) /\ Len(Encode(k)) = Len(p) + Len(k.data)
      /\ \A j \in 1 .. Len(p) : Encode(k)[j] = p[j]
      /\ \A j \in 1 .. Len(k.data) : Encode(k)[Len(p) + j] = k.data[j]
  <2>1. p \in Seq(Byte) /\ k.data \in Seq(Byte)
    BY <1>1, <1>6
  <2> QED
    BY <1>5, <2>1, ConcatAt
<1>8. Len(p) = 4 + Len(k.ts) /\ Len(h) = 4 /\ Len(k.ts) \in Nat
  BY <1>1, <1>3, <1>6
<1>9. \A j \in 1 .. 4 : j \in 1 .. Len(p) /\ j \in 1 .. Len(h)
  BY <1>8
<1>10. \A j \in 1 .. 4 : Encode(k)[j] = h[j]
  BY <1>6, <1>7, <1>9
<1>11. \A j \in 1 .. Len(k.ts) : Encode(k)[4 + j] = k.ts[j]
  <2> TAKE j \in 1 .. Len(k.ts)
  <2>1. 4 + j \in 1 .. Len(p) /\ p[4 + j] = k.ts[j]
    BY <1>6, <1>8
  <2> QED
    BY <1>7, <2>1
<1>12. /\ Encode(k)[1] = h[1] /\ Encode(k)[2] = h[2] /\ Encode(k)[3] = h[3]
       /\ Encode(k)[4] = h[4]
  BY <1>10
<1> QED
  BY <1>4, <1>7, <1>8, <1>11, <1>12, ZenonT(40)

-----------------------------------------------------------------------------
(***************************************************************************)
(* What the device does keeps the marks and adds one                       *)
(***************************************************************************)
\* What is in the stream stays there, and so do the packets before it.
Extends(longer, shorter) ==
  /\ Len(shorter) \in Nat /\ Len(longer) \in Nat /\ Len(shorter) <= Len(longer)
  /\ \A j \in 1 .. Len(shorter) : longer[j] = shorter[j]

\* A packet stays where it is in the stream.
LEMMA KeepPacketAt ==
  ASSUME NEW st, NEW st2, Extends(st2, st), Extends(sent', sent),
         NEW pm, NEW pm2, pm \subseteq pm2,
         NEW a \in Nat, NEW i \in Nat, NEW k \in Kinds, PacketAt(st, pm, a, i, k)
  PROVE  PacketAt(st2, pm2, a, i, k)'
<1>1. Len(Encode(k)) \in Nat
  BY EncodeAt, LenProperties
<1>2. a + Len(Encode(k)) <= Len(st2) /\ i < Len(sent')
  BY <1>1 DEF Extends, PacketAt
<1>3. \A j \in 1 .. Len(Encode(k)) : st2[a + j] = Encode(k)[j]
  <2> TAKE j \in 1 .. Len(Encode(k))
  <2>1. a + j \in 1 .. Len(st)
    BY <1>1 DEF Extends, PacketAt
  <2> QED
    BY <2>1 DEF Extends, PacketAt
<1>4. <<a + Len(Encode(k)), i + 1>> \in pm2
  BY DEF PacketAt
<1>5. sent'[i + 1] = sent[i + 1] /\ TimeOf(i)' = TimeOf(i)
  <2>1. i + 1 \in 1 .. Len(sent) /\ (i # 0 => i \in 1 .. Len(sent))
    BY DEF Extends, PacketAt
  <2> QED
    BY <2>1 DEF Extends, TimeOf
<1>6. sent'[i + 1] = [magic |-> 160, flags |-> k.flags, size |-> k.size,
                      timestamp |-> Later(TimeOf(i)', Timestamp(k.ts)), data |-> k.data]
  BY <1>5, Zenon DEF PacketAt
<1> QED
  BY <1>2, <1>3, <1>4, <1>6 DEF PacketAt

\* So does a filler.
LEMMA KeepFillerAt ==
  ASSUME NEW st, NEW st2, Extends(st2, st), NEW pm, NEW pm2, pm \subseteq pm2,
         NEW a \in Nat, NEW i \in Nat, FillerAt(st, pm, a, i)
  PROVE  FillerAt(st2, pm2, a, i)
<1>1. a + 1 \in 1 .. Len(st)
  BY DEF FillerAt, Extends
<1> QED
  BY <1>1 DEF FillerAt, Extends

\* The marks stay, and what follows the last one leads to the new one.
LEMMA KeepPacketMarks ==
  ASSUME NEW st, NEW st2, Extends(st2, st), Extends(sent', sent),
         NEW pm, NEW pm2, PacketMarks(st, pm),
         pm2 = pm \cup {<<Len(st2), Len(sent')>>},
         NEW n, n = Len(sent), PacketMark(st2, pm2, Len(st), n)'
  PROVE  PacketMarks(st2, pm2)'
<1>1. Len(st2) \in Nat /\ Len(sent') \in Nat
  BY DEF Extends
<1>2. /\ pm2 \subseteq Nat \X Nat /\ <<0, 0>> \in pm2
      /\ <<Len(st2), Len(sent')>> \in pm2 /\ pm \subseteq pm2
  BY <1>1 DEF PacketMarks
<1>3. ASSUME NEW a \in Nat, NEW i \in Nat, <<a, i>> \in pm2
      PROVE  PacketMark(st2, pm2, a, i)'
  <2>1. CASE a = Len(st2) /\ i = Len(sent')
    BY <2>1 DEF PacketMark
  <2>2. CASE <<a, i>> \in pm
    <3>1. PacketMark(st, pm, a, i)
      BY <2>2 DEF PacketMarks
    <3>2. CASE a = Len(st) /\ i = Len(sent)
      <4>1. a = Len(st) /\ i = n
        BY <3>2
      <4> QED
        BY <4>1
    <3>3. CASE FillerAt(st, pm, a, i)
      <4>1. FillerAt(st2, pm2, a, i)
        BY <1>2, <3>3, KeepFillerAt
      <4> QED
        BY <4>1 DEF PacketMark, FillerAt
    <3>4. CASE \E k \in Kinds : PacketAt(st, pm, a, i, k)
      <4>1. PICK k \in Kinds : PacketAt(st, pm, a, i, k)
        BY <3>4
      <4>2. PacketAt(st2, pm2, a, i, k)'
        BY <1>2, <4>1, KeepPacketAt
      <4> QED
        BY <4>2 DEF PacketMark
    <3> QED
      BY <3>1, <3>2, <3>3, <3>4 DEF PacketMark
  <2> QED
    BY <1>3, <2>1, <2>2
<1> QED
  BY <1>2, <1>3 DEF PacketMarks

LEMMA ConcatExtends ==
  ASSUME NEW S, NEW p \in Seq(S), NEW q \in Seq(S)
  PROVE  Extends(p \o q, p)
BY ConcatAt DEF Extends

LEMMA AppendExtends ==
  ASSUME NEW S, NEW p \in Seq(S), NEW e \in S
  PROVE  Extends(Append(p, e), p)
BY AppendProperties, LenProperties DEF Extends

LEMMA ExtendsItself ==
  ASSUME NEW S, NEW p \in Seq(S)
  PROVE  Extends(p, p)
BY LenProperties DEF Extends

LEMMA TimestampNat ==
  ASSUME NEW k \in Kinds
  PROVE  Timestamp(k.ts) \in Nat
<1>1. k.ts \in Seq(Byte) /\ Len(k.ts) <= 8 /\ Len(k.ts) \in 0 .. Len(k.ts)
  <2>1. k.ts \in Seq(Byte) /\ Len(k.ts) <= 8
    BY KindsAssumption
  <2>2. Len(k.ts) \in Nat
    BY <2>1, LenProperties
  <2> QED
    BY <2>1, <2>2
<1> QED
  BY <1>1, TimestampSteps DEF Timestamp

\* A timestamp is relative to that of the packet before.
LEMMA LastTimestampIsTimeOf ==
  ASSUME sent \in Seq(UsbPacket)
  PROVE  LastTimestamp = TimeOf(Len(sent)) /\ LastTimestamp \in Nat
<1>1. CASE sent = << >>
  BY <1>1 DEF LastTimestamp, TimeOf
<1>2. CASE sent # << >>
  <2>1. Len(sent) \in Nat /\ Len(sent) # 0 /\ Len(sent) \in 1 .. Len(sent)
    BY <1>2, EmptySeq, LenProperties
  <2>2. sent[Len(sent)] \in UsbPacket
    BY <2>1, ElementOfSeq
  <2> QED
    BY <1>2, <2>1, <2>2 DEF LastTimestamp, TimeOf, UsbPacket
<1> QED
  BY <1>1, <1>2

Sent(k) == [magic |-> 160, flags |-> k.flags, size |-> k.size,
            timestamp |-> Later(LastTimestamp, Timestamp(k.ts)), data |-> k.data]

\* What SendPacket(k) sends is a packet.
LEMMA SentType ==
  ASSUME sent \in Seq(UsbPacket), NEW k \in Kinds
  PROVE  Sent(k) \in UsbPacket
<1>1. Later(LastTimestamp, Timestamp(k.ts)) \in Nat
  BY TimestampNat, LastTimestampIsTimeOf, LaterFacts
<1> QED
  BY <1>1, KindsAssumption DEF Sent, UsbPacket

\* A frame stays where it is on the wire.
LEMMA KeepSdramAt ==
  ASSUME NEW st, NEW st2, Extends(st2, st), NEW wm, NEW wm2, wm \subseteq wm2,
         wire \in Seq(Byte), wire' \in Seq(Byte), Extends(wire', wire),
         NEW f \in Nat, NEW b \in Nat, NEW s \in Nat, SdramAt(st, wm, f, b, s)
  PROVE  SdramAt(st2, wm2, f, b, s)'
<1>1. /\ Len(wire) \in Nat /\ Len(wire') \in Nat /\ Len(wire) <= Len(wire')
      /\ Len(st) \in Nat /\ Len(st2) \in Nat /\ Len(st) <= Len(st2)
  BY Zenon DEF Extends
<1>2. /\ \A j \in 1 .. Len(wire) : wire'[j] = wire[j]
      /\ \A j \in 1 .. Len(st) : st2[j] = st[j]
  BY Zenon DEF Extends
<1>3. f + 2 <= Len(wire) /\ wire[f + 1] = 208
  BY Zenon DEF SdramAt
<1>4. f + 1 \in 1 .. Len(wire) /\ f + 2 \in 1 .. Len(wire)
  BY <1>1, <1>3
<1>5. wire'[f + 1] = wire[f + 1] /\ wire'[f + 2] = wire[f + 2]
  BY <1>2, <1>4, Zenon
<1> DEFINE n == FrameLength(f)
<1>6. FrameLength(f)' = n
  BY <1>5, Zenon DEF FrameLength
<1>7. n \in Nat
  <2>1. wire[f + 2] \in Byte
    BY <1>4, ElementOfSeq
  <2>2. wire[f + 2] \in Nat
    BY <2>1, ByteBound, Zenon
  <2>3. \A m \in Nat : (m + 1) * 2 \in Nat
    OBVIOUS
  <2> QED
    BY <2>2, <2>3, Zenon DEF FrameLength
<1>8. f + 2 + n <= Len(wire) /\ s + n <= Len(st)
  BY Zenon DEF SdramAt
<1>9. \A j \in 1 .. n : wire[f + 2 + j] = st[s + j]
  BY Zenon DEF SdramAt
<1>10. <<f + 2 + n, b, s + n>> \in wm
  BY Zenon DEF SdramAt
<1> HIDE DEF n
<1>11. f + 2 <= Len(wire') /\ f + 2 + n <= Len(wire') /\ s + n <= Len(st2)
  BY SMTT(30), <1>1, <1>3, <1>7, <1>8
<1>12. wire'[f + 1] = 208 /\ <<f + 2 + n, b, s + n>> \in wm2
  <2>1. <<f + 2 + n, b, s + n>> \in wm2
    BY <1>10
  <2> QED
    BY <1>3, <1>5, <2>1, Zenon
<1>13. \A j \in 1 .. n : wire'[f + 2 + j] = st2[s + j]
  <2> TAKE j \in 1 .. n
  <2>1. f + 2 + j \in 1 .. Len(wire) /\ s + j \in 1 .. Len(st)
    BY <1>1, <1>7, <1>8
  <2>2. wire[f + 2 + j] = st[s + j]
    BY <1>9, Zenon
  <2> QED
    BY <1>2, <2>1, <2>2, Zenon
<1> QED
  BY <1>6, <1>11, <1>12, <1>13, Zenon DEF SdramAt

LEMMA KeepBusAt ==
  ASSUME NEW wm, NEW wm2, wm \subseteq wm2,
         Extends(wire', wire), Extends(sent_bus', sent_bus),
         NEW f \in Nat, NEW b \in Nat, NEW s \in Nat, BusAt(wm, f, b, s)
  PROVE  BusAt(wm2, f, b, s)'
<1>1. /\ Len(wire) \in Nat /\ Len(wire') \in Nat /\ Len(wire) <= Len(wire')
      /\ \A j \in 1 .. Len(wire) : wire'[j] = wire[j]
  BY Zenon DEF Extends
<1>2. /\ Len(sent_bus) \in Nat /\ Len(sent_bus') \in Nat /\ Len(sent_bus) <= Len(sent_bus')
      /\ \A j \in 1 .. Len(sent_bus) : sent_bus'[j] = sent_bus[j]
  BY Zenon DEF Extends
<1>3. /\ f + 5 <= Len(wire) /\ b < Len(sent_bus) /\ <<f + 5, b + 1, s>> \in wm
  BY Zenon DEF BusAt
<1>4. /\ f + 1 \in 1 .. Len(wire) /\ f + 2 \in 1 .. Len(wire) /\ f + 3 \in 1 .. Len(wire)
      /\ f + 4 \in 1 .. Len(wire) /\ b + 1 \in 1 .. Len(sent_bus)
  BY <1>1, <1>2, <1>3
<1>5. /\ wire'[f + 1] = wire[f + 1] /\ wire'[f + 2] = wire[f + 2]
      /\ wire'[f + 3] = wire[f + 3] /\ wire'[f + 4] = wire[f + 4]
      /\ sent_bus'[b + 1] = sent_bus[b + 1]
  BY <1>1, <1>2, <1>4, Zenon
<1>6. f + 5 <= Len(wire') /\ b < Len(sent_bus')
  BY <1>1, <1>2, <1>3
<1>7. <<f + 5, b + 1, s>> \in wm2
  BY <1>3
<1> QED
  BY <1>5, <1>6, <1>7, Zenon DEF BusAt

\* The same for the marks on the wire
LEMMA KeepFrameMarks ==
  ASSUME NEW st, NEW st2, Extends(st2, st), NEW wm, NEW wm2, FrameMarks(st, wm),
         wire \in Seq(Byte), wire' \in Seq(Byte),
         Extends(wire', wire), Extends(sent_bus', sent_bus),
         Len(st2) - Len(fifo') \in Nat,
         wm2 = wm \cup {<<Len(wire'), Len(sent_bus'), Len(st2) - Len(fifo')>>},
         NEW t, NEW u, NEW v,
         t = Len(wire) /\ u = Len(sent_bus) /\ v = Len(st) - Len(fifo),
         FrameMark(st2, wm2, t, u, v)'
  PROVE  FrameMarks(st2, wm2)'
<1>1. Len(wire') \in Nat /\ Len(sent_bus') \in Nat
  BY DEF Extends
<1>2. /\ wm2 \subseteq Nat \X Nat \X Nat /\ <<0, 0, 0>> \in wm2 /\ wm \subseteq wm2
      /\ <<Len(wire'), Len(sent_bus'), Len(st2) - Len(fifo')>> \in wm2
  <2>1. wm \subseteq Nat \X Nat \X Nat /\ <<0, 0, 0>> \in wm
    BY Zenon DEF FrameMarks
  <2>2. PICK m : m = <<Len(wire'), Len(sent_bus'), Len(st2) - Len(fifo')>>
    OBVIOUS
  <2>3. m \in Nat \X Nat \X Nat
    BY <1>1, <2>2
  <2>4. wm2 = wm \cup {m}
    BY <2>2
  <2>5. wm2 \subseteq Nat \X Nat \X Nat /\ <<0, 0, 0>> \in wm2 /\ wm \subseteq wm2 /\ m \in wm2
    BY <2>1, <2>3, <2>4
  <2> QED
    BY <2>2, <2>5
<1>3. ASSUME NEW f \in Nat, NEW b \in Nat, NEW s \in Nat, <<f, b, s>> \in wm2
      PROVE  FrameMark(st2, wm2, f, b, s)'
  <2>1. CASE f = Len(wire') /\ b = Len(sent_bus') /\ s = Len(st2) - Len(fifo')
    BY <2>1 DEF FrameMark
  <2>2. CASE <<f, b, s>> \in wm
    <3>1. FrameMark(st, wm, f, b, s)
      BY <2>2 DEF FrameMarks
    <3>2. CASE f = Len(wire) /\ b = Len(sent_bus) /\ s = Len(st) - Len(fifo)
      <4>1. f = t /\ b = u /\ s = v
        BY <3>2
      <4> QED
        BY <4>1
    <3>3. CASE BusAt(wm, f, b, s)
      <4>1. BusAt(wm2, f, b, s)'
        BY <1>2, <3>3, KeepBusAt
      <4> QED
        BY <4>1 DEF FrameMark
    <3>4. CASE SdramAt(st, wm, f, b, s)
      <4>1. SdramAt(st2, wm2, f, b, s)'
        BY <1>2, <3>4, KeepSdramAt
      <4> QED
        BY <4>1 DEF FrameMark
    <3> QED
      BY <3>1, <3>2, <3>3, <3>4 DEF FrameMark
  <2> QED
    BY <1>3, <2>1, <2>2
<1> QED
  BY <1>2, <1>3 DEF FrameMarks

\* The device has sent a packet: the stream is the longer by its bytes.
LEMMA SendPacketDevice ==
  ASSUME StreamTypeOK, NEW k \in Kinds, SendPacket(k),
         NEW st, NEW pm, NEW wm, DeviceInv(st, pm, wm)
  PROVE  /\ StreamTypeOK'
         /\ \E st2, pm2 : DeviceInv(st2, pm2, wm)'
<1>1. /\ fifo' = fifo \o Encode(k) /\ sent' = Append(sent, Sent(k))
      /\ UNCHANGED <<wire, sent_bus, fed, lossy>>
  BY DEF SendPacket, Sent, host_vars
<1>2. /\ st \in Seq(Byte) /\ fifo \in Seq(Byte) /\ Encode(k) \in Seq(Byte)
      /\ sent \in Seq(UsbPacket) /\ Sent(k) \in UsbPacket
  BY EncodeAt, SentType DEF StreamTypeOK, DeviceInv
<1> DEFINE n == Len(sent)
           e == Encode(k)
<1>3. PICK st2 \in Seq(Byte) : st2 = st \o e
  BY <1>2, ConcatProperties
<1>4. PICK m \in Nat : m = n
  BY <1>2, LenProperties
<1>5. PICK pm2 : pm2 = pm \cup {<<Len(st2), m + 1>>}
  OBVIOUS
<1>6. /\ sent' \in Seq(UsbPacket) /\ Len(sent') = m + 1 /\ sent'[m + 1] = Sent(k)
      /\ Extends(sent', sent)
  BY <1>1, <1>2, <1>4, AppendProperties, AppendExtends
<1>7. /\ fifo' \in Seq(Byte) /\ Len(fifo') = Len(fifo) + Len(e)
      /\ \A j \in 1 .. Len(fifo) : fifo'[j] = fifo[j]
      /\ \A j \in 1 .. Len(e) : fifo'[Len(fifo) + j] = e[j]
      /\ Len(fifo) \in Nat /\ Len(e) \in Nat
  BY <1>1, <1>2, ConcatAt
<1>8. /\ Len(st2) = Len(st) + Len(e) /\ Extends(st2, st)
      /\ \A j \in 1 .. Len(e) : st2[Len(st) + j] = e[j]
      /\ \A j \in 1 .. Len(st) : st2[j] = st[j]
      /\ Len(st) \in Nat
  BY <1>2, <1>3, ConcatAt, ConcatExtends
<1>9. StreamTypeOK'
  BY <1>1, <1>6, <1>7 DEF StreamTypeOK
<1>10. PacketMark(st2, pm2, Len(st), m)'
  <2>1. TimeOf(m)' = LastTimestamp
    <3>1. m \in 1 .. Len(sent) \/ m = 0
      BY <1>4
    <3>2. LastTimestamp = TimeOf(m)
      BY <1>2, <1>4, LastTimestampIsTimeOf
    <3> QED
      BY <1>6, <3>1, <3>2 DEF TimeOf, Extends
  <2>2. PacketAt(st2, pm2, Len(st), m, k)'
    BY <1>5, <1>6, <1>7, <1>8, <2>1 DEF PacketAt, Sent
  <2> QED
    BY <2>2 DEF PacketMark
<1>11. PacketMarks(st2, pm2)'
  <2>1. pm2 = pm \cup {<<Len(st2), Len(sent')>>} /\ m = Len(sent) /\ PacketMarks(st, pm)
    BY <1>4, <1>5, <1>6 DEF DeviceInv
  <2> QED
    BY <1>6, <1>8, <1>10, <2>1, KeepPacketMarks
<1>12. FrameMarks(st2, wm)'
  <2>1. Extends(wire', wire) /\ Extends(sent_bus', sent_bus) /\ wire' \in Seq(Byte)
    BY <1>1, ExtendsItself DEF StreamTypeOK
  <2>2. /\ FrameMarks(st, wm) /\ Len(fifo) <= Len(st)
        /\ Len(st2) - Len(fifo') = Len(st) - Len(fifo) /\ Len(st) - Len(fifo) \in Nat
    BY <1>7, <1>8 DEF DeviceInv, FifoEnds
  <2>3. PICK t, u, v : t = Len(wire) /\ u = Len(sent_bus) /\ v = Len(st) - Len(fifo)
    OBVIOUS
  <2>4. wm = wm \cup {<<Len(wire'), Len(sent_bus'), Len(st2) - Len(fifo')>>}
    BY <1>1, <2>2 DEF FrameMarks
  <2>5. FrameMark(st2, wm, t, u, v)'
    BY <1>1, <2>2, <2>3 DEF FrameMark
  <2> QED
    BY <1>8, <2>1, <2>2, <2>3, <2>4, <2>5, KeepFrameMarks DEF StreamTypeOK
<1>13. FifoEnds(st2)'
  <2>1. /\ Len(fifo) <= Len(st)
        /\ \A j \in 1 .. Len(fifo) : fifo[j] = st[(Len(st) - Len(fifo)) + j]
    BY DEF DeviceInv, FifoEnds
  <2>2. ASSUME NEW j \in 1 .. Len(fifo')
        PROVE  fifo'[j] = st2[(Len(st2) - Len(fifo')) + j]
    <3>1. CASE j \in 1 .. Len(fifo)
      <4>1. (Len(st) - Len(fifo)) + j \in 1 .. Len(st)
            /\ (Len(st2) - Len(fifo')) + j = (Len(st) - Len(fifo)) + j
        BY <1>7, <1>8, <2>1, <3>1
      <4> QED
        BY <1>7, <1>8, <2>1, <3>1, <4>1
    <3>2. CASE j \notin 1 .. Len(fifo)
      <4>1. PICK i \in 1 .. Len(e) : j = Len(fifo) + i
        <5>1. j - Len(fifo) \in 1 .. Len(e) /\ j = Len(fifo) + (j - Len(fifo))
          BY <1>7, <3>2
        <5> QED
          BY <5>1
      <4>2. (Len(st2) - Len(fifo')) + j = Len(st) + i
        BY <1>7, <1>8, <4>1
      <4> QED
        BY <1>7, <1>8, <4>1, <4>2
    <3> QED
      BY <3>1, <3>2
  <2> QED
    BY <1>7, <1>8, <2>1, <2>2 DEF FifoEnds
<1>14. DeviceInv(st2, pm2, wm)'
  BY <1>3, <1>11, <1>12, <1>13 DEF DeviceInv
<1> QED
  BY <1>9, <1>14

\* The marks in the stream are about what was sent, those on the wire about it.
LEMMA PacketMarksSame ==
  ASSUME NEW st, NEW pm, PacketMarks(st, pm), UNCHANGED sent
  PROVE  PacketMarks(st, pm)'
<1>1. \A a, i : \A k \in Kinds : PacketAt(st, pm, a, i, k) => PacketAt(st, pm, a, i, k)'
  BY DEF PacketAt, TimeOf
<1>2. \A a, i : PacketMark(st, pm, a, i) => PacketMark(st, pm, a, i)'
  BY <1>1 DEF PacketMark, FillerAt
<1> QED
  BY <1>2 DEF PacketMarks

LEMMA FrameMarksSame ==
  ASSUME NEW st, NEW wm, FrameMarks(st, wm), UNCHANGED <<wire, fifo, sent_bus>>
  PROVE  FrameMarks(st, wm)'
<1>1. \A f, b, s : /\ BusAt(wm, f, b, s) => BusAt(wm, f, b, s)'
                   /\ SdramAt(st, wm, f, b, s) => SdramAt(st, wm, f, b, s)'
  BY DEF BusAt, SdramAt, FrameLength
<1>2. \A f, b, s : FrameMark(st, wm, f, b, s) => FrameMark(st, wm, f, b, s)'
  BY <1>1 DEF FrameMark
<1> QED
  BY <1>2 DEF FrameMarks

LEMMA DeviceSame ==
  ASSUME NEW st, NEW pm, NEW wm, DeviceInv(st, pm, wm),
         UNCHANGED <<fifo, wire, sent, sent_bus>>
  PROVE  DeviceInv(st, pm, wm)'
<1>1. PacketMarks(st, pm)' /\ FrameMarks(st, wm)'
  BY PacketMarksSame, FrameMarksSame DEF DeviceInv
<1>2. FifoEnds(st)'
  BY DEF DeviceInv, FifoEnds
<1> QED
  BY <1>1, <1>2 DEF DeviceInv

\* The device has sent a bus frame: the wire is the longer by its five bytes.
LEMMA SendBusFrameDevice ==
  ASSUME StreamTypeOK, NEW b \in BusFrames, SendBusFrame(b),
         NEW st, NEW pm, NEW wm, DeviceInv(st, pm, wm)
  PROVE  /\ StreamTypeOK'
         /\ \E wm2 : DeviceInv(st, pm, wm2)'
<1> DEFINE hi == b.addr \div 256
           lo == b.addr % 256
           sum == (85 + (b.addr \div 256) + (b.addr % 256) + b.value) % 256
           e == <<85, hi, lo, b.value, sum>>
<1>1. /\ b \in BusFrame /\ b.addr \in Address /\ b.value \in Byte
      /\ b = [addr |-> b.addr, value |-> b.value]
  BY BusFramesAssumption DEF BusFrame
<1>2. hi \in Byte /\ lo \in Byte /\ hi * 256 + lo = b.addr
  <2> HIDE DEF sum, e
  <2> SUFFICES ASSUME NEW m \in Address
               PROVE  /\ m \div 256 \in Byte /\ m % 256 \in Byte
                      /\ (m \div 256) * 256 + (m % 256) = m
    BY <1>1, Zenon
  <2>1. m \in Nat /\ m <= MaxAddress
    BY AddressRange, Zenon
  <2>2. m \div 256 \in Nat /\ m \div 256 < 256
    BY <2>1, SMT DEF MaxAddress
  <2>3. (m \div 256) * 256 + (m % 256) = m /\ m % 256 \in Byte
    BY <2>1 DEF Byte
  <2> QED
    BY <2>2, <2>3, SMTT(30) DEF Byte
<1> HIDE DEF hi, lo
<1>3. sum \in Byte /\ 85 \in Byte
  <2>1. hi \in Nat /\ lo \in Nat /\ b.value \in Nat
    BY <1>1, <1>2, ByteBound
  <2>2. \A i, j, k \in Nat : (85 + i + j + k) % 256 \in Byte
    BY DEF Byte
  <2>3. sum = (85 + hi + lo + b.value) % 256
    BY DEF hi, lo
  <2>4. (85 + hi + lo + b.value) % 256 \in Byte
    BY <2>1, <2>2
  <2>5. 85 \in Byte
    BY DEF Byte
  <2> QED
    BY <2>3, <2>4, <2>5
<1> HIDE DEF sum
<1>4. e \in Seq(Byte) /\ Len(e) = 5
  BY <1>1, <1>2, <1>3
<1>5. e[1] = 85 /\ e[2] = hi /\ e[3] = lo /\ e[4] = b.value
  OBVIOUS
<1>6. /\ wire' = wire \o e /\ sent_bus' = Append(sent_bus, b)
      /\ UNCHANGED <<fifo, sent, fed, lossy>>
  BY DEF SendBusFrame, host_vars, hi, lo, sum
<1> HIDE DEF e
<1>7. /\ wire \in Seq(Byte) /\ e \in Seq(Byte) /\ sent_bus \in Seq(BusFrame)
      /\ b \in BusFrame
  BY <1>1, <1>4 DEF StreamTypeOK
<1>8. /\ wire' \in Seq(Byte) /\ Len(wire') = Len(wire) + 5 /\ Len(wire) \in Nat
      /\ \A j \in 1 .. 5 : wire'[Len(wire) + j] = e[j]
  <2>1. /\ wire' \in Seq(Byte) /\ Len(wire') = Len(wire) + Len(e) /\ Len(wire) \in Nat
        /\ \A j \in 1 .. Len(e) : wire'[Len(wire) + j] = e[j]
    BY <1>6, <1>7, ConcatAt
  <2> QED
    BY <1>4, <2>1
<1>9. Extends(wire', wire)
  BY <1>6, <1>7, ConcatExtends
<1>10. /\ sent_bus' \in Seq(BusFrame) /\ Len(sent_bus') = Len(sent_bus) + 1
       /\ sent_bus'[Len(sent_bus) + 1] = b /\ Len(sent_bus) \in Nat
       /\ Extends(sent_bus', sent_bus)
  BY <1>6, <1>7, AppendProperties, AppendExtends, LenProperties
<1>11. StreamTypeOK'
  BY <1>6, <1>8, <1>10 DEF StreamTypeOK
<1>12. PICK t \in Nat, u \in Nat, v \in Nat :
         t = Len(wire) /\ u = Len(sent_bus) /\ v = Len(st) - Len(fifo)
  <2>1. st \in Seq(Byte) /\ Len(fifo) <= Len(st) /\ fifo \in Seq(Byte)
    BY DEF DeviceInv, FifoEnds, StreamTypeOK
  <2>2. Len(st) - Len(fifo) \in Nat
    BY <2>1, LenProperties
  <2> QED
    BY <1>8, <1>10, <2>2
<1>13. PICK wm2 : wm2 = wm \cup {<<t + 5, u + 1, v>>}
  OBVIOUS
<1>14. FrameMark(st, wm2, t, u, v)'
  <2>1. /\ wire'[t + 1] = 85 /\ wire'[t + 2] = hi /\ wire'[t + 3] = lo
        /\ wire'[t + 4] = b.value
    BY <1>5, <1>8, <1>12, SMTT(30)
  <2>2. sent_bus'[u + 1] = [addr |-> wire'[t + 2] * 256 + wire'[t + 3],
                            value |-> wire'[t + 4]]
    BY <1>1, <1>2, <1>10, <1>12, <2>1
  <2>3. t + 5 <= Len(wire') /\ u < Len(sent_bus') /\ <<t + 5, u + 1, v>> \in wm2
    BY <1>8, <1>10, <1>12, <1>13
  <2>4. BusAt(wm2, t, u, v)'
    BY <2>1, <2>2, <2>3 DEF BusAt
  <2> QED
    BY <2>4 DEF FrameMark
<1>15. FrameMarks(st, wm2)'
  <2>1. FrameMarks(st, wm) /\ Extends(st, st)
    BY ExtendsItself DEF DeviceInv
  <2>2. Len(st) - Len(fifo') \in Nat
        /\ wm2 = wm \cup {<<Len(wire'), Len(sent_bus'), Len(st) - Len(fifo')>>}
    BY <1>6, <1>8, <1>10, <1>12, <1>13
  <2> QED
    BY <1>7, <1>8, <1>9, <1>10, <1>12, <1>14, <2>1, <2>2, KeepFrameMarks
<1>16. PacketMarks(st, pm)' /\ FifoEnds(st)'
  BY <1>6, PacketMarksSame DEF DeviceInv, FifoEnds
<1>17. DeviceInv(st, pm, wm2)'
  BY <1>15, <1>16 DEF DeviceInv
<1> QED
  BY <1>11, <1>17

\* The device has sent an SDRAM frame, filled up if the fifo had less for it.
LEMMA SendFrameDevice ==
  ASSUME StreamTypeOK, NEW words \in FrameSizes, SendFrame(words),
         NEW st, NEW pm, NEW wm, DeviceInv(st, pm, wm)
  PROVE  /\ StreamTypeOK'
         /\ \E st2, pm2, wm2 : DeviceInv(st2, pm2, wm2)'
<1> DEFINE n == MinOf(2 * words, Len(fifo))
           filler == [i \in 1 .. 2 * words - n |-> 161]
           h == <<208, words - 1>>
           taken == SubSeq(fifo, 1, n)
<1>1. /\ words \in Nat /\ 1 <= words /\ words <= 256
  BY SizesAssumption
<1>2. /\ fifo \in Seq(Byte) /\ wire \in Seq(Byte) /\ st \in Seq(Byte)
      /\ Len(fifo) \in Nat /\ Len(wire) \in Nat /\ Len(st) \in Nat
      /\ sent \in Seq(UsbPacket) /\ Len(sent) \in Nat
      /\ sent_bus \in Seq(BusFrame) /\ Len(sent_bus) \in Nat
  BY LenProperties DEF StreamTypeOK, DeviceInv
<1>3. n \in Nat /\ n <= 2 * words /\ n <= Len(fifo)
      /\ (n = 2 * words \/ n = Len(fifo))
  BY <1>1, <1>2 DEF MinOf
<1>4. /\ Len(filler) <= 1 /\ wire' = ((wire \o h) \o taken) \o filler
      /\ fifo' = SubSeq(fifo, n + 1, Len(fifo))
      /\ UNCHANGED <<sent, sent_bus, fed, lossy>>
  BY DEF SendFrame, host_vars
<1> HIDE DEF n
<1>5. /\ filler \in Seq(Byte) /\ Len(filler) = 2 * words - n
      /\ \A i \in 1 .. Len(filler) : filler[i] = 161
  <2>1. 161 \in Byte /\ 2 * words - n \in Nat
    BY <1>1, <1>3 DEF Byte
  <2> QED
    BY <2>1
<1>6. h \in Seq(Byte) /\ Len(h) = 2 /\ h[1] = 208 /\ h[2] = words - 1
  <2>1. 208 \in Byte /\ words - 1 \in Byte
    BY <1>1 DEF Byte
  <2> QED
    BY <2>1
<1> HIDE DEF filler, h
<1>7. /\ taken \in Seq(Byte) /\ Len(taken) = n
      /\ \A i \in 1 .. n : taken[i] = fifo[i]
  <2>1. fifo \in Seq(Byte) /\ n \in Nat /\ n <= Len(fifo)
    BY <1>2, <1>3
  <2> QED
    BY <2>1, BeginningOf
<1>8. /\ fifo' \in Seq(Byte) /\ Len(fifo') = Len(fifo) - n
      /\ \A i \in 1 .. Len(fifo) - n : fifo'[i] = fifo[n + i]
  <2> DEFINE rest == SubSeq(fifo, n + 1, Len(fifo))
  <2>1. fifo \in Seq(Byte) /\ n \in Nat /\ n <= Len(fifo)
    BY <1>2, <1>3
  <2>2. /\ rest \in Seq(Byte) /\ Len(rest) = Len(fifo) - n
        /\ \A i \in 1 .. Len(fifo) - n : rest[i] = fifo[n + i]
    BY <2>1, RestOf
  <2>3. fifo' = rest
    BY <1>4
  <2> HIDE DEF rest
  <2> QED
    BY <2>2, <2>3
<1> HIDE DEF taken
<1>9. PICK body \in Seq(Byte) :
        /\ Len(body) = 2 * words /\ wire' = (wire \o h) \o body
        /\ \A i \in 1 .. n : body[i] = fifo[i]
        /\ \A i \in 1 .. Len(filler) : body[n + i] = 161
  <2> DEFINE body == taken \o filler
  <2>1. taken \in Seq(Byte) /\ filler \in Seq(Byte) /\ h \in Seq(Byte) /\ wire \in Seq(Byte)
    BY <1>2, <1>5, <1>6, <1>7
  <2>2. /\ body \in Seq(Byte) /\ Len(body) = Len(taken) + Len(filler)
        /\ \A i \in 1 .. Len(taken) : body[i] = taken[i]
        /\ \A i \in 1 .. Len(filler) : body[Len(taken) + i] = filler[i]
    BY <2>1, ConcatAt
  <2>3. wire \o h \in Seq(Byte)
    BY <2>1, ConcatProperties
  <2>4. wire' = (wire \o h) \o body
    <3> DEFINE front == wire \o h
    <3>1. front \in Seq(Byte) /\ wire' = (front \o taken) \o filler
      BY <1>4, <2>3
    <3> HIDE DEF front
    <3>2. (front \o taken) \o filler = front \o body
      BY <2>1, <3>1, ConcatAssociative, SMTT(30)
    <3>3. wire' = front \o body
      BY <3>1, <3>2
    <3> QED
      BY <3>3 DEF front
  <2> HIDE DEF body
  <2>5. Len(body) = 2 * words
    BY <1>1, <1>3, <1>5, <1>7, <2>2
  <2>6. \A i \in 1 .. n : body[i] = fifo[i]
    BY <1>7, <2>2
  <2>7. \A i \in 1 .. Len(filler) : body[n + i] = 161
    BY <1>5, <1>7, <2>2
  <2> QED
    BY <2>2, <2>4, <2>5, <2>6, <2>7, ZenonT(40)
<1>10. /\ wire' \in Seq(Byte) /\ Len(wire') = Len(wire) + 2 + 2 * words
       /\ Extends(wire', wire)
       /\ wire'[Len(wire) + 1] = 208 /\ wire'[Len(wire) + 2] = words - 1
       /\ \A i \in 1 .. 2 * words : wire'[Len(wire) + 2 + i] = body[i]
  <2> DEFINE front == wire \o h
  <2>1. /\ front \in Seq(Byte) /\ Len(front) = Len(wire) + 2
        /\ \A i \in 1 .. Len(wire) : front[i] = wire[i]
        /\ \A i \in 1 .. 2 : front[Len(wire) + i] = h[i]
    <3>1. /\ front \in Seq(Byte) /\ Len(front) = Len(wire) + Len(h)
          /\ \A i \in 1 .. Len(wire) : front[i] = wire[i]
          /\ \A i \in 1 .. Len(h) : front[Len(wire) + i] = h[i]
      <4>1. wire \in Seq(Byte) /\ h \in Seq(Byte)
        BY <1>2, <1>6
      <4> QED
        BY <4>1, ConcatAt
    <3> QED
      BY <1>6, <3>1
  <2>2. wire' = front \o body
    BY <1>9
  <2> HIDE DEF front
  <2>3. /\ wire' \in Seq(Byte) /\ Len(wire') = Len(front) + Len(body)
        /\ \A i \in 1 .. Len(front) : wire'[i] = front[i]
        /\ \A i \in 1 .. Len(body) : wire'[Len(front) + i] = body[i]
    <3>1. front \in Seq(Byte) /\ body \in Seq(Byte)
      BY <2>1
    <3> QED
      BY <2>2, <3>1, ConcatAt
  <2>4. \A i \in 1 .. Len(wire) : i \in 1 .. Len(front)
    BY <1>2, <2>1
  <2>5. Len(wire) + 1 \in 1 .. Len(front) /\ Len(wire) + 2 \in 1 .. Len(front)
    BY <1>2, <2>1
  <2>6. Len(wire') = Len(wire) + 2 + 2 * words /\ Len(wire') \in Nat
    BY <1>1, <1>2, <1>9, <2>1, <2>3
  <2>7. Extends(wire', wire)
    BY <1>1, <1>2, <2>1, <2>3, <2>4, <2>6, SMTT(30) DEF Extends
  <2>8. wire'[Len(wire) + 1] = 208 /\ wire'[Len(wire) + 2] = words - 1
    BY <1>6, <2>1, <2>3, <2>5
  <2>9. \A i \in 1 .. 2 * words : wire'[Len(wire) + 2 + i] = body[i]
    BY <1>9, <2>1, <2>3
  <2> QED
    BY <2>3, <2>6, <2>7, <2>8, <2>9, ZenonT(40)
<1>11. StreamTypeOK'
  <2>1. fed' \in 0 .. Len(wire')
    <3>1. fed \in 0 .. Len(wire)
      BY Zenon DEF StreamTypeOK
    <3>2. Len(wire') = Len(wire) + (2 + 2 * words)
      BY <1>1, <1>2, <1>10
    <3>3. \A l \in Nat : fed \in 0 .. l => fed \in 0 .. l + (2 + 2 * words)
      BY <1>1
    <3> QED
      BY <1>2, <1>4, <3>1, <3>2, <3>3, Zenon
  <2>2. fifo' \in Seq(Byte) /\ sent' \in Seq(UsbPacket) /\ sent_bus' \in Seq(BusFrame)
        /\ lossy' \in BOOLEAN
    BY <1>2, <1>4, <1>8, SMTT(30) DEF StreamTypeOK
  <2> QED
    BY <1>10, <2>1, <2>2 DEF StreamTypeOK
<1>12. PICK t \in Nat, u \in Nat, v \in Nat, m \in Nat :
         /\ t = Len(wire) /\ u = Len(sent_bus) /\ v = Len(st) - Len(fifo)
         /\ m = Len(sent) /\ v + Len(fifo) = Len(st)
  <2>1. Len(fifo) <= Len(st)
    BY DEF DeviceInv, FifoEnds
  <2>2. Len(st) - Len(fifo) \in Nat /\ (Len(st) - Len(fifo)) + Len(fifo) = Len(st)
    BY <1>2, <2>1
  <2> QED
    BY <1>2, <2>2
<1>13. PICK st2 \in Seq(Byte) :
         /\ Extends(st2, st) /\ Len(st2) = Len(st) + Len(filler)
         /\ \A i \in 1 .. Len(filler) : st2[Len(st) + i] = 161
  <2> DEFINE longer == st \o filler
  <2>1. st \in Seq(Byte) /\ filler \in Seq(Byte)
    BY <1>2, <1>5
  <2>2. /\ longer \in Seq(Byte) /\ Len(longer) = Len(st) + Len(filler)
        /\ \A i \in 1 .. Len(filler) : longer[Len(st) + i] = filler[i]
    BY <2>1, ConcatAt
  <2>3. Extends(longer, st)
    BY <2>1, ConcatExtends
  <2> HIDE DEF longer
  <2>4. \A i \in 1 .. Len(filler) : longer[Len(st) + i] = 161
    BY <1>5, <2>2
  <2> QED
    BY <2>2, <2>3, <2>4
<1>14. PICK pm2 : pm2 = pm \cup {<<Len(st2), m>>}
  OBVIOUS
<1>15. PICK wm2 : wm2 = wm \cup {<<t + 2 + 2 * words, u, v + 2 * words>>}
  OBVIOUS
<1>16. \A i \in 1 .. 2 * words : body[i] = st2[v + i]
  <2> TAKE i \in 1 .. 2 * words
  <2>1. CASE i \in 1 .. n
    <3>1. i \in 1 .. Len(fifo) /\ v + i \in 1 .. Len(st)
      BY <1>2, <1>3, <1>12, <2>1
    <3>2. fifo[i] = st[v + i]
      BY <1>12, <3>1 DEF DeviceInv, FifoEnds
    <3>3. st2[v + i] = st[v + i]
      BY <1>13, <3>1 DEF Extends
    <3> QED
      BY <1>9, <2>1, <3>2, <3>3
  <2>2. CASE i \notin 1 .. n
    <3>1. PICK j \in 1 .. Len(filler) : i = n + j
      <4>1. i - n \in 1 .. Len(filler) /\ i = n + (i - n)
        BY <1>1, <1>3, <1>5, <2>2
      <4> QED
        BY <4>1
    <3>2. n = Len(fifo)
      BY <1>1, <1>3, <2>2
    <3>3. v + i = Len(st) + j
      BY <1>2, <1>12, <3>1, <3>2
    <3> QED
      BY <1>9, <1>13, <3>1, <3>3, SMTT(30)
  <2> QED
    BY <2>1, <2>2
<1>17. Len(st2) - Len(fifo') = v + 2 * words /\ v + 2 * words <= Len(st2)
       /\ Len(fifo') \in Nat /\ Len(st2) \in Nat
  BY <1>1, <1>2, <1>3, <1>5, <1>8, <1>12, <1>13
<1>18. FrameMarks(st2, wm2)'
  <2>1. FrameLength(t)' = 2 * words
    BY <1>1, <1>10, <1>12, SMTT(30) DEF FrameLength
  <2>2. SdramAt(st2, wm2, t, u, v)'
    <3>1. t + 2 <= Len(wire') /\ wire'[t + 1] = 208
          /\ t + 2 + 2 * words <= Len(wire')
      BY <1>1, <1>2, <1>10, <1>12
    <3>2. \A j \in 1 .. 2 * words : wire'[t + 2 + j] = st2[v + j]
      BY <1>10, <1>12, <1>16
    <3>3. <<t + 2 + 2 * words, u, v + 2 * words>> \in wm2
      BY <1>15
    <3> QED
      BY <1>17, <2>1, <3>1, <3>2, <3>3 DEF SdramAt
  <2>3. FrameMark(st2, wm2, t, u, v)'
    BY <2>2 DEF FrameMark
  <2>4. FrameMarks(st, wm) /\ Extends(sent_bus', sent_bus)
    BY <1>2, <1>4, ExtendsItself DEF DeviceInv
  <2>5. /\ Len(st2) - Len(fifo') \in Nat
        /\ wm2 = wm \cup {<<Len(wire'), Len(sent_bus'), Len(st2) - Len(fifo')>>}
    <3>1. Len(st2) - Len(fifo') = v + 2 * words /\ v + 2 * words \in Nat
      BY <1>1, <1>12, <1>17
    <3>2. Len(wire') = t + 2 + 2 * words /\ Len(sent_bus') = u
      BY <1>4, <1>10, <1>12
    <3> QED
      BY <1>15, <3>1, <3>2
  <2> QED
    BY <1>2, <1>10, <1>12, <1>13, <2>3, <2>4, <2>5, KeepFrameMarks, ZenonT(40)
<1>19. PacketMarks(st2, pm2)'
  <2>1. PacketMark(st2, pm2, Len(st), m)'
    <3>1. CASE Len(filler) = 0
      BY <1>2, <1>4, <1>12, <1>13, <3>1 DEF PacketMark
    <3>2. CASE Len(filler) = 1
      <4>1. FillerAt(st2, pm2, Len(st), m)
        BY <1>2, <1>13, <1>14, <3>2 DEF FillerAt
      <4> QED
        BY <4>1 DEF PacketMark, FillerAt
    <3> QED
      BY <1>1, <1>3, <1>4, <1>5, <3>1, <3>2
  <2>2. PacketMarks(st, pm) /\ Extends(sent', sent)
        /\ pm2 = pm \cup {<<Len(st2), Len(sent')>>}
    BY <1>2, <1>4, <1>12, <1>14, ExtendsItself DEF DeviceInv
  <2> QED
    BY <1>12, <1>13, <2>1, <2>2, KeepPacketMarks
<1>20. FifoEnds(st2)'
  <2>1. ASSUME NEW j \in 1 .. Len(fifo')
        PROVE  fifo'[j] = st2[(Len(st2) - Len(fifo')) + j]
    <3>1. n = 2 * words /\ Len(filler) = 0
      BY <1>1, <1>2, <1>3, <1>5, <1>8, <2>1, SMTT(30)
    <3>2. n + j \in 1 .. Len(fifo) /\ v + (n + j) \in 1 .. Len(st)
      BY <1>2, <1>3, <1>8, <1>12, <2>1
    <3>3. fifo[n + j] = st[v + (n + j)]
      BY <1>12, <3>2 DEF DeviceInv, FifoEnds
    <3>4. (Len(st2) - Len(fifo')) + j = v + (n + j)
      BY <1>1, <1>17, <3>1
    <3>5. fifo'[j] = fifo[n + j]
      BY <1>8, <2>1
    <3> QED
      BY <1>13, <3>2, <3>3, <3>4, <3>5, SMTT(30) DEF Extends
  <2> QED
    BY <1>1, <1>12, <1>17, <2>1 DEF FifoEnds
<1>21. DeviceInv(st2, pm2, wm2)'
  BY <1>18, <1>19, <1>20 DEF DeviceInv
<1> QED
  BY <1>11, <1>21

-----------------------------------------------------------------------------
(***************************************************************************)
(* The frame decoder follows the marks on the wire                         *)
(***************************************************************************)
\* The byte at hand is the next one on the wire.
LEMMA NextByte ==
  ASSUME TypeOK, StreamTypeOK, BufferInv, pos < Len(buf)
  PROVE  /\ Place \in Nat /\ Place < Len(wire) /\ Here = wire[Place + 1]
         /\ Here \in Byte
         /\ \A j \in 1 .. Len(buf) - pos : buf[pos + j] = wire[Place + j]
<1>1. /\ buf \in Seq(Byte) /\ pos \in Nat /\ Len(buf) \in Nat
      /\ fed \in Nat /\ Len(wire) \in Nat /\ wire \in Seq(Byte)
  BY LenProperties DEF TypeOK, StreamTypeOK
<1>2. fed - Len(buf) \in Nat /\ fed <= Len(wire)
  BY <1>1 DEF BufferInv
<1>3. Place \in Nat /\ Place < Len(wire)
  BY <1>1, <1>2 DEF Place
<1>4. \A j \in 1 .. Len(buf) - pos : buf[pos + j] = wire[Place + j]
  <2> TAKE j \in 1 .. Len(buf) - pos
  <2>1. pos + j \in 1 .. Len(buf) /\ (fed - Len(buf)) + (pos + j) = Place + j
    BY <1>1, <1>2 DEF Place
  <2> QED
    BY <2>1 DEF BufferInv
<1>5. 1 \in 1 .. Len(buf) - pos
  BY <1>1
<1>6. Here = wire[Place + 1]
  BY <1>4, <1>5 DEF Here
<1>7. Here \in Byte
  <2>1. Place + 1 \in 1 .. Len(wire)
    BY <1>1, <1>3
  <2> QED
    BY <1>1, <1>6, <2>1, ElementOfSeq
<1> QED
  BY <1>3, <1>4, <1>6, <1>7

\* A byte further in the same buffer
LEMMA PlaceMoves ==
  ASSUME TypeOK, StreamTypeOK, BufferInv, UNCHANGED <<buf, fed, wire>>,
         NEW n \in Nat, pos' = pos + n
  PROVE  BufferInv' /\ Place' = Place + n
<1>1. pos \in Nat /\ Len(buf) \in Nat /\ fed \in Nat
  <2>1. buf \in Seq(Byte) /\ fed \in 0 .. Len(wire) /\ wire \in Seq(Byte)
    BY DEF TypeOK, StreamTypeOK
  <2> QED
    BY <2>1, LenProperties DEF TypeOK
<1>2. Place' = Place + n
  BY <1>1 DEF Place
<1>3. BufferInv'
  BY DEF BufferInv
<1> QED
  BY <1>2, <1>3

\* What comes next is the next element.
LEMMA AppendNext ==
  ASSUME NEW S, NEW seq \in Seq(S), NEW n \in Nat, n < Len(seq)
  PROVE  Append(SubSeq(seq, 1, n), seq[n + 1]) = SubSeq(seq, 1, n + 1)
<1> DEFINE p == SubSeq(seq, 1, n)
           q == SubSeq(seq, 1, n + 1)
<1>1. Len(seq) \in Nat /\ \A i \in 1 .. n + 1 : i \in 1 .. Len(seq)
  <2>1. Len(seq) \in Nat
    BY LenProperties
  <2> QED
    BY <2>1
<1>2. \A i \in 1 .. n + 1 : seq[i] \in S
  BY <1>1, ElementOfSeq
<1>3. p \in Seq(S) /\ Len(p) = n /\ \A i \in 1 .. n : p[i] = seq[i]
  <2>1. \A i \in 1 .. n : seq[i] \in S
    BY <1>2
  <2> QED
    BY <2>1, SubSeqProperties
<1>4. q \in Seq(S) /\ Len(q) = n + 1 /\ \A i \in 1 .. n + 1 : q[i] = seq[i]
  BY <1>2, SubSeqProperties
<1>5. n + 1 \in 1 .. n + 1 /\ seq[n + 1] \in S
  BY <1>2
<1> HIDE DEF p, q
<1> DEFINE r == Append(p, seq[n + 1])
<1>6. /\ r \in Seq(S) /\ Len(r) = n + 1
      /\ (\A i \in 1 .. n : r[i] = p[i]) /\ r[n + 1] = seq[n + 1]
  BY <1>3, <1>5, AppendProperties
<1> HIDE DEF r
<1>7. \A i \in 1 .. n + 1 : r[i] = q[i]
  <2> TAKE i \in 1 .. n + 1
  <2>1. CASE i \in 1 .. n
    BY <1>3, <1>4, <1>6, <2>1
  <2>2. CASE i = n + 1
    BY <1>4, <1>6, <2>2
  <2> QED
    BY <2>1, <2>2
<1>8. r = q
  BY <1>4, <1>6, <1>7, SeqEqual
<1> QED
  BY <1>8 DEF p, q, r

\* What a turn of the frame decoder's loop that consumes a byte has in common
HostFrame(st, wm, f, b, s, c) ==
  /\ TypeOK /\ StreamTypeOK /\ BufferInv /\ FrameMarks(st, wm)
  /\ f \in Nat /\ b \in Nat /\ s \in Nat /\ <<f, b, s>> \in wm
  /\ AtFrame(st, wm, f, b, s, c)

LEMMA FrameTurn ==
  ASSUME NEW st, NEW wm, NEW f, NEW b, NEW s, NEW c, HostFrame(st, wm, f, b, s, c),
         NEW here, NEW next, FrameByte(here, next), UNCHANGED <<wire, sent_bus, fed>>
  PROVE  /\ frame_state = here /\ frame_state' = next /\ proc = "frame" /\ proc' = "frame"
         /\ Place \in Nat /\ Place < Len(wire) /\ Here = wire[Place + 1] /\ Here \in Byte
         /\ Place' = Place + 1 /\ BufferInv' /\ wire' = wire /\ sent_bus' = sent_bus
         /\ Len(wire) \in Nat
<1>1. /\ frame_state = here /\ frame_state' = next /\ proc = "frame" /\ proc' = "frame"
      /\ pos < Len(buf) /\ pos' = pos + 1 /\ UNCHANGED <<buf, fed, wire, sent_bus>>
  BY DEF FrameByte, InFrame
<1>2. TypeOK /\ StreamTypeOK /\ BufferInv
  BY DEF HostFrame
<1>3. /\ Place \in Nat /\ Place < Len(wire) /\ Here = wire[Place + 1] /\ Here \in Byte
  BY <1>1, <1>2, NextByte
<1>4. Place' = Place + 1 /\ BufferInv'
  BY <1>1, <1>2, PlaceMoves
<1>5. Len(wire) \in Nat
  BY <1>2, LenProperties DEF StreamTypeOK
<1> QED
  BY <1>1, <1>3, <1>4, <1>5

\* The magic says which frame begins.
LEMMA FrameMagicHost ==
  ASSUME NEW st, NEW wm, NEW f, NEW b, NEW s, NEW c, HostFrame(st, wm, f, b, s, c),
         FrameMagic, UNCHANGED <<wire, sent_bus, fed>>
  PROVE  BufferInv' /\ SomeFrame(st, wm, c)'
<1>1. PICK next \in {"BUS_ADDR_HI", "SDRAM_LENGTH"} :
        /\ FrameByte("MAGIC", next)
        /\ Here = IF next = "BUS_ADDR_HI" THEN 85 ELSE 208
  BY DEF FrameMagic
<1>2. /\ frame_state = "MAGIC" /\ frame_state' = next /\ proc = "frame" /\ proc' = "frame"
      /\ Place \in Nat /\ Place < Len(wire) /\ Here = wire[Place + 1]
      /\ Place' = Place + 1 /\ BufferInv' /\ UNCHANGED <<wire, sent_bus>>
  BY <1>1, FrameTurn
<1>3. /\ Place = f /\ c = s /\ bus_frames' = SubSeq(sent_bus, 1, b) /\ b <= Len(sent_bus)
  BY <1>2 DEF HostFrame, AtFrame, InBusFrame, InSdramFrame, FrameMagic
<1>4. FrameMark(st, wm, f, b, s)
  BY DEF HostFrame, FrameMarks
<1>5. CASE BusAt(wm, f, b, s)
  <2>1. next = "BUS_ADDR_HI"
    BY <1>1, <1>2, <1>3, <1>5 DEF BusAt
  <2>2. BusAt(wm, f, b, s)' /\ InBusFrame(f)'
    BY <1>2, <1>3, <1>5, <2>1 DEF BusAt, InBusFrame
  <2>3. AtFrame(st, wm, f, b, s, c)'
    BY <1>2, <1>3, <2>2 DEF AtFrame
  <2> QED
    BY <1>2, <2>3 DEF SomeFrame, HostFrame
<1>6. CASE SdramAt(st, wm, f, b, s)
  <2>1. next = "SDRAM_LENGTH"
    BY <1>1, <1>2, <1>3, <1>6 DEF SdramAt
  <2>2. SdramAt(st, wm, f, b, s)' /\ InSdramFrame(f, s, c)'
    BY <1>2, <1>3, <1>6, <2>1 DEF SdramAt, InSdramFrame, FrameLength
  <2>3. AtFrame(st, wm, f, b, s, c)'
    BY <1>2, <1>3, <2>2 DEF AtFrame
  <2> QED
    BY <1>2, <2>3 DEF SomeFrame, HostFrame
<1> QED
  BY <1>2, <1>3, <1>4, <1>5, <1>6 DEF FrameMark

\* What was sent is never rejected.
LEMMA NoWrongFrameMagic ==
  ASSUME NEW st, NEW wm, NEW f, NEW b, NEW s, NEW c, HostFrame(st, wm, f, b, s, c),
         WrongFrameMagic
  PROVE  FALSE
<1>1. frame_state = "MAGIC" /\ proc = "frame" /\ pos < Len(buf) /\ Here \notin {85, 208}
  BY DEF WrongFrameMagic, InFrame
<1>2. /\ Place \in Nat /\ Place < Len(wire) /\ Here = wire[Place + 1]
  BY <1>1, NextByte DEF HostFrame
<1>3. Place = f
  BY <1>1 DEF HostFrame, AtFrame, InBusFrame, InSdramFrame
<1>4. FrameMark(st, wm, f, b, s)
  BY DEF HostFrame, FrameMarks
<1> QED
  BY <1>1, <1>2, <1>3, <1>4 DEF FrameMark, BusAt, SdramAt

\* The bytes of a bus frame, as they were sent
LEMMA BusByteHost ==
  ASSUME NEW st, NEW wm, NEW f, NEW b, NEW s, NEW c, HostFrame(st, wm, f, b, s, c),
         BusAddrHi \/ BusAddrLo \/ BusValue, UNCHANGED <<wire, sent_bus, fed>>
  PROVE  BufferInv' /\ SomeFrame(st, wm, c)'
<1>1. /\ bus_frames = SubSeq(sent_bus, 1, b) /\ b <= Len(sent_bus) /\ f \in Nat
      /\ UNCHANGED bus_frames
  BY DEF HostFrame, AtFrame, BusAddrHi, BusAddrLo, BusValue
<1>2. PICK here, next :
        FrameByte(here, next) /\ here \in {"BUS_ADDR_HI", "BUS_ADDR_LO", "BUS_VALUE"}
  BY DEF BusAddrHi, BusAddrLo, BusValue
<1>3. /\ frame_state = here /\ proc = "frame" /\ proc' = "frame"
      /\ Place \in Nat /\ Here = wire[Place + 1] /\ Here \in Byte
      /\ Place' = Place + 1 /\ BufferInv' /\ wire' = wire /\ sent_bus' = sent_bus
  BY <1>2, FrameTurn
<1>4. BusAt(wm, f, b, s) /\ InBusFrame(f) /\ c = s
  BY <1>2, <1>3 DEF HostFrame, AtFrame, InSdramFrame
<1>5. InBusFrame(f)'
  <2>1. CASE BusAddrHi
    <3>1. frame_state = "BUS_ADDR_HI" /\ frame_state' = "BUS_ADDR_LO" /\ addr' = Here * 256
      BY <2>1 DEF BusAddrHi, FrameByte, InFrame
    <3>2. Place = f + 1
      BY <1>4, <3>1 DEF InBusFrame
    <3>3. Place' = f + 2 /\ Place + 1 = f + 2
      BY <1>1, <1>3, <3>2
    <3> QED
      BY <1>3, <3>1, <3>3 DEF InBusFrame
  <2>2. CASE BusAddrLo
    <3>1. frame_state = "BUS_ADDR_LO" /\ frame_state' = "BUS_VALUE" /\ addr' = addr + Here
      BY <2>2 DEF BusAddrLo, FrameByte, InFrame
    <3>2. Place = f + 2 /\ addr = wire[f + 2] * 256
      BY <1>4, <3>1 DEF InBusFrame
    <3>3. Place' = f + 3 /\ Place + 1 = f + 3
      BY <1>1, <1>3, <3>2
    <3> QED
      BY <1>3, <3>1, <3>2, <3>3 DEF InBusFrame
  <2>3. CASE BusValue
    <3>1. /\ frame_state = "BUS_VALUE" /\ frame_state' = "BUS_CHECKSUM"
          /\ value' = Here /\ addr' = addr
      BY <2>3 DEF BusValue, FrameByte, InFrame
    <3>2. Place = f + 3 /\ addr = wire[f + 2] * 256 + wire[f + 3]
      BY <1>4, <3>1 DEF InBusFrame
    <3>3. Place' = f + 4 /\ Place + 1 = f + 4
      BY <1>1, <1>3, <3>2
    <3> QED
      BY <1>3, <3>1, <3>2, <3>3 DEF InBusFrame
  <2> QED
    BY <2>1, <2>2, <2>3
<1>6. BusAt(wm, f, b, s)'
  BY <1>3, <1>4 DEF BusAt
<1>7. AtFrame(st, wm, f, b, s, c)'
  BY <1>1, <1>3, <1>4, <1>5, <1>6 DEF AtFrame
<1> QED
  BY <1>3, <1>7 DEF SomeFrame, HostFrame

\* A bus frame is passed on, with what it had.
LEMMA BusChecksumHost ==
  ASSUME NEW st, NEW wm, NEW f, NEW b, NEW s, NEW c, HostFrame(st, wm, f, b, s, c),
         BusChecksum, UNCHANGED <<wire, sent_bus, fed>>
  PROVE  BufferInv' /\ SomeFrame(st, wm, c)'
<1>1. FrameByte("BUS_CHECKSUM", "MAGIC")
      /\ bus_frames' = Append(bus_frames, [addr |-> addr, value |-> value])
  BY DEF BusChecksum
<1>2. /\ frame_state = "BUS_CHECKSUM" /\ frame_state' = "MAGIC" /\ proc = "frame"
      /\ proc' = "frame" /\ Place \in Nat
      /\ Place' = Place + 1 /\ BufferInv' /\ UNCHANGED <<wire, sent_bus>>
  BY <1>1, FrameTurn
<1>3. /\ bus_frames = SubSeq(sent_bus, 1, b) /\ b \in Nat /\ f \in Nat
      /\ BusAt(wm, f, b, s) /\ InBusFrame(f) /\ c = s
  BY <1>2 DEF HostFrame, AtFrame, InSdramFrame
<1>4. /\ Place' = f + 5 /\ <<f + 5, b + 1, s>> \in wm /\ b < Len(sent_bus)
      /\ sent_bus[b + 1] = [addr |-> addr, value |-> value]
  BY <1>2, <1>3, SMTT(30) DEF InBusFrame, BusAt
<1>5. bus_frames' = SubSeq(sent_bus, 1, b + 1) /\ b + 1 <= Len(sent_bus)
  <2>1. sent_bus \in Seq(BusFrame)
    BY DEF HostFrame, StreamTypeOK
  <2>2. Append(SubSeq(sent_bus, 1, b), sent_bus[b + 1]) = SubSeq(sent_bus, 1, b + 1)
    BY <1>3, <1>4, <2>1, AppendNext
  <2>3. Len(sent_bus) \in Nat
    BY <2>1, LenProperties
  <2>4. b + 1 <= Len(sent_bus)
    BY <1>3, <1>4, <2>3
  <2>5. bus_frames' = Append(SubSeq(sent_bus, 1, b), sent_bus[b + 1])
    BY <1>1, <1>3, <1>4
  <2> QED BY <2>2, <2>4, <2>5
<1>6. AtFrame(st, wm, f + 5, b + 1, s, c)'
  BY <1>2, <1>3, <1>4, <1>5 DEF AtFrame
<1>7. f + 5 \in Nat /\ b + 1 \in Nat /\ s \in Nat
  BY <1>3 DEF HostFrame
<1> QED
  BY <1>2, <1>4, <1>6, <1>7 DEF SomeFrame

\* The length of an SDRAM frame is that which was sent.
LEMMA SdramLengthHost ==
  ASSUME NEW st, NEW wm, NEW f, NEW b, NEW s, NEW c, HostFrame(st, wm, f, b, s, c),
         SdramLength, UNCHANGED <<wire, sent_bus, fed>>
  PROVE  BufferInv' /\ SomeFrame(st, wm, c)'
<1>1. FrameByte("SDRAM_LENGTH", "SDRAM_DATA") /\ frame_left' = (Here + 1) * 2 /\ ~frame_failed'
      /\ UNCHANGED bus_frames
  BY DEF SdramLength
<1>2. /\ frame_state = "SDRAM_LENGTH" /\ frame_state' = "SDRAM_DATA" /\ proc = "frame"
      /\ proc' = "frame" /\ Place \in Nat /\ Here = wire[Place + 1] /\ Here \in Byte
      /\ Place' = Place + 1 /\ BufferInv' /\ UNCHANGED <<wire, sent_bus>>
  BY <1>1, FrameTurn
<1>3. /\ bus_frames = SubSeq(sent_bus, 1, b) /\ b <= Len(sent_bus) /\ f \in Nat
      /\ SdramAt(st, wm, f, b, s) /\ Place = f + 1 /\ c = s /\ s \in Nat
  BY <1>2 DEF HostFrame, AtFrame, InBusFrame, InSdramFrame
<1>4. /\ frame_left' = FrameLength(f) /\ FrameLength(f) \in Nat
      /\ FrameLength(f)' = FrameLength(f) /\ Place' = f + 2
  <2>1. Place + 1 = f + 2
    BY <1>3
  <2> QED
    BY <1>1, <1>2, <2>1, ByteBound DEF FrameLength
<1>5. InSdramFrame(f, s, c)'
  BY <1>1, <1>2, <1>3, <1>4 DEF InSdramFrame
<1>6. SdramAt(st, wm, f, b, s)'
  BY <1>2, <1>3 DEF SdramAt, FrameLength
<1>7. AtFrame(st, wm, f, b, s, c)'
  BY <1>1, <1>2, <1>3, <1>5, <1>6 DEF AtFrame
<1> QED
  BY <1>2, <1>7 DEF SomeFrame, HostFrame

\* The packet decoder is called for what the buffer has of an SDRAM frame, ...
LEMMA SdramDataHost ==
  ASSUME NEW st, NEW wm, NEW f, NEW b, NEW s, NEW c, HostFrame(st, wm, f, b, s, c),
         SdramData, UNCHANGED <<wire, sent_bus, fed>>
  PROVE  BufferInv' /\ SomeFrame(st, wm, c)'
<1>1. /\ frame_state = "SDRAM_DATA" /\ proc' = "packet"
      /\ UNCHANGED <<buf, pos, frame_vars, bus_frames, wire, sent_bus, fed>>
  BY DEF SdramData, InFrame
<1>2. /\ bus_frames = SubSeq(sent_bus, 1, b) /\ b <= Len(sent_bus)
      /\ SdramAt(st, wm, f, b, s) /\ InSdramFrame(f, s, c)
  BY <1>1 DEF HostFrame, AtFrame, InBusFrame
<1>3. BufferInv' /\ Place' = Place /\ FrameLength(f)' = FrameLength(f)
  BY <1>1 DEF HostFrame, BufferInv, Place, FrameLength
<1>4. InSdramFrame(f, s, c)'
  BY <1>1, <1>2, <1>3 DEF InSdramFrame
<1>5. SdramAt(st, wm, f, b, s)'
  BY <1>1, <1>2, <1>3 DEF SdramAt
<1>6. AtFrame(st, wm, f, b, s, c)'
  BY <1>1, <1>2, <1>4, <1>5 DEF AtFrame
<1> QED
  BY <1>3, <1>6 DEF SomeFrame, HostFrame

\* ... consumes of it, ...
LEMMA ConsumeHost ==
  ASSUME NEW st, NEW wm, NEW f, NEW b, NEW s, NEW c, HostFrame(st, wm, f, b, s, c),
         FrameInv, proc = "packet", NEW n \in Nat, Consume(n),
         proc' \in {"packet", "return"}, c \in Nat, UNCHANGED <<wire, sent_bus, fed>>
  PROVE  BufferInv' /\ SomeFrame(st, wm, c + n)'
<1>1. /\ frame_state = "SDRAM_DATA" /\ pos' = pos + n
      /\ frame_left' = frame_left - n /\ frame_left \in Int
      /\ UNCHANGED <<buf, frame_state, frame_failed, bus_frames, wire, sent_bus, fed>>
  BY DEF FrameInv, Consume, HostFrame, TypeOK
<1>2. /\ bus_frames = SubSeq(sent_bus, 1, b) /\ b <= Len(sent_bus)
      /\ SdramAt(st, wm, f, b, s) /\ InSdramFrame(f, s, c)
  BY <1>1 DEF HostFrame, AtFrame, InBusFrame
<1>3. BufferInv' /\ Place' = Place + n /\ FrameLength(f)' = FrameLength(f)
  <2>1. BufferInv' /\ Place' = Place + n
    BY <1>1, PlaceMoves DEF HostFrame
  <2> QED
    BY <1>1, <2>1 DEF FrameLength
<1>4. Place \in Int /\ FrameLength(f) \in Nat /\ f \in Nat /\ s \in Nat
  <2>1. fed \in Nat /\ Len(buf) \in Nat /\ pos \in Nat /\ Len(wire) \in Nat
    <3>1. buf \in Seq(Byte) /\ wire \in Seq(Byte) /\ fed \in 0 .. Len(wire)
      BY DEF HostFrame, TypeOK, StreamTypeOK
    <3> QED
      BY <3>1, LenProperties DEF HostFrame, TypeOK
  <2>2. FrameLength(f) \in Nat /\ f \in Nat /\ s \in Nat
    <3>1. f \in Nat /\ s \in Nat /\ wire \in Seq(Byte) /\ f + 2 <= Len(wire)
      BY <1>2 DEF HostFrame, StreamTypeOK, SdramAt
    <3>2. wire[f + 2] \in Byte
      BY <2>1, <3>1, ElementOfSeq
    <3> QED
      BY <3>1, <3>2, ByteBound, SMTT(30) DEF FrameLength
  <2> QED
    BY <2>1, <2>2 DEF Place
<1>5. InSdramFrame(f, s, c + n)'
  <2>1. /\ frame_left <= FrameLength(f)
        /\ Place + frame_left = f + 2 + FrameLength(f)
        /\ c + frame_left = s + FrameLength(f)
    BY <1>1, <1>2 DEF InSdramFrame
  <2>3. ~frame_failed
    BY <1>1, <1>2 DEF InSdramFrame
  <2>2. /\ frame_left' <= FrameLength(f)
        /\ (Place + n) + frame_left' = f + 2 + FrameLength(f)
        /\ (c + n) + frame_left' = s + FrameLength(f)
    BY <1>1, <1>4, <2>1
  <2> QED
    BY <1>1, <1>3, <2>2, <2>3 DEF InSdramFrame
<1>6. SdramAt(st, wm, f, b, s)'
  BY <1>1, <1>2, <1>3 DEF SdramAt
<1>7. AtFrame(st, wm, f, b, s, c + n)'
  BY <1>1, <1>2, <1>5, <1>6 DEF AtFrame
<1> QED
  BY <1>3, <1>7 DEF SomeFrame, HostFrame

\* ... and returns.
LEMMA PacketReturnHost ==
  ASSUME NEW st, NEW wm, NEW f, NEW b, NEW s, NEW c, HostFrame(st, wm, f, b, s, c),
         FrameInv, CallInv, PacketReturn, c \in Nat, UNCHANGED <<wire, sent_bus, fed>>
  PROVE  BufferInv' /\ SomeFrame(st, wm, c)'
<1>6. /\ frame_state = "SDRAM_DATA" /\ proc' = "frame"
      /\ frame_state' = IF required_length' = 0 THEN "MAGIC" ELSE frame_state
      /\ required_length' = required_length - (pos - data_start)
      /\ UNCHANGED <<buf, pos, frame_left, frame_failed, bus_frames, wire, sent_bus, fed>>
  BY DEF FrameInv, PacketReturn
<1>7. ~frame_failed => required_length' = frame_left
  BY <1>6 DEF CallInv, PacketReturn, HostFrame, TypeOK
<1>8. ~frame_failed
  BY <1>6 DEF HostFrame, AtFrame, InBusFrame, InSdramFrame
<1>1. /\ frame_state = "SDRAM_DATA" /\ proc' = "frame"
      /\ frame_state' = IF frame_left = 0 THEN "MAGIC" ELSE frame_state
      /\ UNCHANGED <<buf, pos, frame_left, frame_failed, bus_frames, wire, sent_bus, fed>>
  BY <1>6, <1>7, <1>8
<1>2. /\ bus_frames = SubSeq(sent_bus, 1, b) /\ b <= Len(sent_bus)
      /\ SdramAt(st, wm, f, b, s) /\ InSdramFrame(f, s, c)
  BY <1>1 DEF HostFrame, AtFrame, InBusFrame
<1>3. BufferInv' /\ Place' = Place /\ FrameLength(f)' = FrameLength(f)
  BY <1>1 DEF HostFrame, BufferInv, Place, FrameLength
<1>4. CASE frame_left # 0
  <2>1. InSdramFrame(f, s, c)'
    BY <1>1, <1>2, <1>3, <1>4 DEF InSdramFrame
  <2>2. SdramAt(st, wm, f, b, s)'
    BY <1>1, <1>2, <1>3 DEF SdramAt
  <2>3. AtFrame(st, wm, f, b, s, c)'
    BY <1>1, <1>2, <2>1, <2>2 DEF AtFrame
  <2> QED
    BY <1>3, <2>3 DEF SomeFrame, HostFrame
<1>5. CASE frame_left = 0
  <2> DEFINE n == FrameLength(f)
  <2>1. n \in Nat /\ f \in Nat /\ b \in Nat /\ s \in Nat
    <3>1. f \in Nat /\ b \in Nat /\ s \in Nat /\ wire \in Seq(Byte) /\ f + 2 <= Len(wire)
      BY <1>2 DEF HostFrame, StreamTypeOK, SdramAt
    <3>2. wire[f + 2] \in Byte
      BY <3>1, ElementOfSeq, LenProperties
    <3> QED
      BY <3>1, <3>2, ByteBound, SMTT(30) DEF FrameLength
  <2>2. Place + 0 = f + 2 + n /\ c + 0 = s + n /\ <<f + 2 + n, b, s + n>> \in wm
    BY <1>1, <1>2, <1>5 DEF InSdramFrame, SdramAt
  <2>3. Place \in Int
    <3>1. buf \in Seq(Byte) /\ wire \in Seq(Byte) /\ fed \in 0 .. Len(wire) /\ pos \in Nat
      BY DEF HostFrame, TypeOK, StreamTypeOK
    <3> QED
      BY <3>1, LenProperties DEF Place
  <2> HIDE DEF n
  <2>4. Place = f + 2 + n /\ c = s + n
    BY <2>1, <2>2, <2>3
  <2>5. PICK f2 \in Nat, s2 \in Nat : f2 = f + 2 + n /\ s2 = s + n
    BY <2>1
  <2>6. AtFrame(st, wm, f2, b, s2, c)'
    BY <1>1, <1>2, <1>3, <1>5, <2>4, <2>5 DEF AtFrame
  <2> QED
    BY <1>3, <2>1, <2>2, <2>5, <2>6 DEF SomeFrame
<1> QED
  BY <1>4, <1>5

-----------------------------------------------------------------------------
(***************************************************************************)
(* The packet decoder follows the marks in the stream                      *)
(***************************************************************************)
\* What the packet decoder's loop has of the stream
PacketInput(st, c) ==
  \A j \in 1 .. data_end - pos : c + j <= Len(st) /\ buf[pos + j] = st[c + j]

\* The packet decoder's buffer is the next piece of the stream.
LEMMA InputOfPacket ==
  ASSUME NEW st, NEW wm, NEW f, NEW b, NEW s, NEW c, HostFrame(st, wm, f, b, s, c),
         FrameInv, ReadsWithinFrame, proc = "packet", c \in Nat, st \in Seq(Byte)
  PROVE  PacketInput(st, c)
<1>10. frame_state = "SDRAM_DATA"
  BY DEF FrameInv
<1>2. SdramAt(st, wm, f, b, s) /\ InSdramFrame(f, s, c)
  BY <1>10 DEF HostFrame, AtFrame, InBusFrame
<1>1. /\ frame_state = "SDRAM_DATA" /\ ~frame_failed
      /\ pos \in Nat /\ data_end \in Nat /\ frame_left \in Nat
      /\ pos <= data_end /\ data_end <= Len(buf) /\ data_end - pos <= frame_left
  BY <1>2, <1>10 DEF ReadsWithinFrame, HostFrame, TypeOK, InSdramFrame
<1> DEFINE n == FrameLength(f)
<1>3. n \in Nat /\ f \in Nat /\ s \in Nat /\ Len(buf) \in Nat /\ Len(st) \in Nat
  <2>1. /\ f \in Nat /\ s \in Nat /\ wire \in Seq(Byte) /\ f + 2 <= Len(wire)
        /\ buf \in Seq(Byte)
    <3>1. f \in Nat /\ s \in Nat /\ StreamTypeOK /\ TypeOK
      BY Zenon DEF HostFrame
    <3>2. f + 2 <= Len(wire)
      BY <1>2, Zenon DEF SdramAt
    <3>3. wire \in Seq(Byte)
      BY <3>1, Zenon DEF StreamTypeOK
    <3>4. buf \in Seq(Byte)
      BY <3>1 DEF TypeOK
    <3> QED
      BY <3>1, <3>2, <3>3, <3>4, Zenon
  <2>2. Len(wire) \in Nat /\ Len(buf) \in Nat /\ Len(st) \in Nat
    BY <2>1, LenProperties, Zenon
  <2>3. f + 2 \in 1 .. Len(wire)
    BY <2>1, <2>2, SMTT(30)
  <2>4. wire[f + 2] \in Nat
    BY <2>1, <2>3, ElementOfSeq, ByteBound, Zenon
  <2>5. \A m \in Nat : (m + 1) * 2 \in Nat
    OBVIOUS
  <2> QED
    BY <2>1, <2>2, <2>4, <2>5, Zenon DEF FrameLength
<1>4. /\ frame_left <= n /\ Place + frame_left = f + 2 + n
      /\ c + frame_left = s + n /\ s + n <= Len(st)
      /\ \A i \in 1 .. n : wire[f + 2 + i] = st[s + i]
  BY <1>1, <1>2 DEF InSdramFrame, SdramAt
<1> HIDE DEF n
<1> SUFFICES ASSUME NEW j \in 1 .. data_end - pos
             PROVE  c + j <= Len(st) /\ buf[pos + j] = st[c + j]
  BY DEF PacketInput
<1>5. j \in 1 .. Len(buf) - pos /\ pos < Len(buf)
  BY <1>1, <1>3
<1>6. Place \in Nat /\ buf[pos + j] = wire[Place + j]
  BY <1>5, NextByte DEF HostFrame
<1>7. PICK i \in 1 .. n : i = (n - frame_left) + j
  <2>1. (n - frame_left) + j \in 1 .. n
    BY <1>1, <1>3, <1>4
  <2> QED
    BY <2>1
<1>8. Place + j = f + 2 + i /\ c + j = s + i
  <2>1. Place \in Nat /\ c \in Nat /\ j \in Nat /\ frame_left \in Nat
    BY <1>1, <1>6
  <2>2. /\ i + frame_left = n + j /\ i \in Nat
        /\ Place + frame_left = f + 2 + n /\ c + frame_left = s + n
    BY <1>3, <1>4, <1>7, <2>1
  <2> QED
    BY <1>3, <2>1, <2>2
<1>9. c + j <= Len(st)
  BY <1>3, <1>4, <1>7, <1>8, SMTT(30)
<1> QED
  BY <1>4, <1>6, <1>7, <1>8, <1>9

\* A turn of the packet decoder's loop, at a place in the stream
HostPacket(st, pm, a, i, c) ==
  /\ ControlInv /\ StreamTypeOK /\ PacketMarks(st, pm) /\ st \in Seq(Byte)
  /\ a \in Nat /\ i \in Nat /\ c \in Nat /\ <<a, i>> \in pm
  /\ AtPacket(st, pm, a, i, c) /\ PacketInput(st, c)

\* So is the byte at hand.
LEMMA HereInStream ==
  ASSUME NEW st, NEW pm, NEW a, NEW i, NEW c, HostPacket(st, pm, a, i, c),
         NEW state, InPacket(state)
  PROVE  /\ Here = st[c + 1] /\ Here \in Byte /\ c < Len(st) /\ Len(st) \in Nat
         /\ packet_state = state /\ proc = "packet" /\ pos < data_end
<1>1. /\ 1 \in 1 .. data_end - pos
      /\ packet_state = state /\ proc = "packet" /\ pos < data_end
  BY DEF HostPacket, ControlInv, TypeOK, InPacket
<1>2. Here = st[c + 1] /\ c + 1 <= Len(st)
  BY <1>1 DEF HostPacket, PacketInput, Here
<1>3. Len(st) \in Nat /\ c \in Nat
  BY LenProperties DEF HostPacket
<1>4. c + 1 \in 1 .. Len(st)
  BY <1>2, <1>3
<1>5. Here \in Byte
  BY <1>2, <1>4, ElementOfSeq DEF HostPacket
<1> QED
  BY <1>1, <1>2, <1>3, <1>5

\* The bytes of a packet of kind k, which begins behind byte a
KindBytes(st, pm, a, i, k) ==
  /\ st[a + 1] = 160 /\ st[a + 2] = k.flags /\ st[a + 3] = k.size % 256
  /\ st[a + 4] = (k.size \div 256) + 32 * (Len(k.ts) - 1)
  /\ \A j \in 1 .. Len(k.ts) : st[a + (4 + j)] = k.ts[j]
  /\ \A j \in 1 .. Len(k.data) : st[a + (4 + Len(k.ts) + j)] = k.data[j]
  /\ a + (4 + Len(k.ts) + Len(k.data)) <= Len(st)
  /\ <<a + (4 + Len(k.ts) + Len(k.data)), i + 1>> \in pm
  /\ Len(k.ts) \in Nat /\ 1 <= Len(k.ts) /\ Len(k.ts) <= 8 /\ Len(k.data) \in Nat

\* They are those Encode(k) has.
LEMMA BytesOfKind ==
  ASSUME NEW st, NEW pm, NEW a \in Nat, NEW i \in Nat, NEW k \in Kinds,
         PacketAt(st, pm, a, i, k)
  PROVE  KindBytes(st, pm, a, i, k)
<1> DEFINE e == Encode(k)
<1>1. Len(e) = 4 + Len(k.ts) + Len(k.data)
  BY EncodeAt, ZenonT(40)
<1>2. e[1] = 160 /\ e[2] = k.flags /\ e[3] = k.size % 256
  BY EncodeAt, ZenonT(40)
<1>3. e[4] = (k.size \div 256) + 32 * (Len(k.ts) - 1)
  BY EncodeAt, ZenonT(40)
<1>4. \A j \in 1 .. Len(k.ts) : e[4 + j] = k.ts[j]
  BY EncodeAt, ZenonT(40)
<1>5. \A j \in 1 .. Len(k.data) : e[4 + Len(k.ts) + j] = k.data[j]
  BY EncodeAt, ZenonT(40)
<1>6. /\ a + Len(e) <= Len(st) /\ <<a + Len(e), i + 1>> \in pm
      /\ \A j \in 1 .. Len(e) : st[a + j] = e[j]
  BY Zenon DEF PacketAt
<1> HIDE DEF e
<1>7. Len(k.ts) \in Nat /\ 1 <= Len(k.ts) /\ Len(k.ts) <= 8 /\ Len(k.data) \in Nat
  <2>1. k.ts \in Seq(Byte) /\ k.data \in Seq(Byte)
    BY KindsAssumption
  <2> QED
    BY <2>1, KindsAssumption, LenProperties
<1>8. /\ 1 \in 1 .. Len(e) /\ 2 \in 1 .. Len(e) /\ 3 \in 1 .. Len(e) /\ 4 \in 1 .. Len(e)
      /\ \A j \in 1 .. Len(k.ts) : 4 + j \in 1 .. Len(e)
      /\ \A j \in 1 .. Len(k.data) : 4 + Len(k.ts) + j \in 1 .. Len(e)
  <2> SUFFICES ASSUME NEW m \in Nat, NEW n \in Nat, NEW l, l = 4 + m + n
               PROVE  /\ 1 \in 1 .. l /\ 2 \in 1 .. l /\ 3 \in 1 .. l /\ 4 \in 1 .. l
                      /\ \A j \in 1 .. m : 4 + j \in 1 .. l
                      /\ \A j \in 1 .. n : 4 + m + j \in 1 .. l
    BY <1>1, <1>7
  <2> QED
    OBVIOUS
<1>9. /\ st[a + 1] = e[1] /\ st[a + 2] = e[2] /\ st[a + 3] = e[3] /\ st[a + 4] = e[4]
  BY <1>6, <1>8
<1>10. /\ \A j \in 1 .. Len(k.ts) : st[a + (4 + j)] = e[4 + j]
       /\ \A j \in 1 .. Len(k.data) : st[a + (4 + Len(k.ts) + j)] = e[4 + Len(k.ts) + j]
  BY <1>6, <1>8
<1>11. st[a + 1] = 160 /\ st[a + 2] = k.flags /\ st[a + 3] = k.size % 256
  BY <1>9, <1>2, Zenon
<1>12. st[a + 4] = (k.size \div 256) + 32 * (Len(k.ts) - 1)
  BY <1>9, <1>3, Zenon
<1>13. \A j \in 1 .. Len(k.ts) : st[a + (4 + j)] = k.ts[j]
  BY <1>10, <1>4, Zenon
<1>14. \A j \in 1 .. Len(k.data) : st[a + (4 + Len(k.ts) + j)] = k.data[j]
  BY <1>10, <1>5, Zenon
<1>15. /\ a + (4 + Len(k.ts) + Len(k.data)) <= Len(st)
       /\ <<a + (4 + Len(k.ts) + Len(k.data)), i + 1>> \in pm
  BY <1>1, <1>6, Zenon
<1> QED
  BY <1>7, <1>11, <1>12, <1>13, <1>14, <1>15, Zenon DEF KindBytes

LEMMA PacketAtSame ==
  ASSUME NEW st, NEW pm, NEW a, NEW i, NEW k, PacketAt(st, pm, a, i, k), UNCHANGED sent
  PROVE  PacketAt(st, pm, a, i, k)' /\ TimeOf(i)' = TimeOf(i)
BY DEF PacketAt, TimeOf

\* What a step within a packet must show
LEMMA StillInKind ==
  ASSUME NEW st, NEW pm, NEW a, NEW i, NEW c, HostPacket(st, pm, a, i, c),
         NEW k \in Kinds, PacketAt(st, pm, a, i, k), UNCHANGED <<packets, sent>>,
         magic' = 160, NEW o \in Nat,
         \/ InHeader(k, o)' /\ cumulative_ts' = TimeOf(i)
         \/ /\ InData(k, o)' /\ timestamp' = cumulative_ts'
            /\ cumulative_ts' = Later(TimeOf(i), Timestamp(k.ts))
  PROVE  SomePacket(st, pm, a + o)'
<1>1. PacketAt(st, pm, a, i, k)' /\ TimeOf(i)' = TimeOf(i)
  BY PacketAtSame
<1>2. InKind(st, pm, a, i, a + o, k)'
  BY <1>1 DEF InKind
<1>3. packets = SubSeq(sent, 1, i) /\ i <= Len(sent)
  BY DEF HostPacket, AtPacket
<1>4. AtPacket(st, pm, a, i, a + o)'
  BY <1>2, <1>3 DEF AtPacket
<1> QED
  BY <1>4 DEF SomePacket, HostPacket

\* A filler is passed over, and a packet begins where one was sent.
LEMMA PacketMagicHost ==
  ASSUME NEW st, NEW pm, NEW a, NEW i, NEW c, HostPacket(st, pm, a, i, c),
         PacketMagic, UNCHANGED sent
  PROVE  SomePacket(st, pm, c + 1)'
<1>1. InPacket("MAGIC") /\ UNCHANGED <<packets, cumulative_ts>>
  BY DEF PacketMagic, PacketByte
<1>2. Here = st[c + 1] /\ c < Len(st) /\ packet_state = "MAGIC"
  BY <1>1, HereInStream
<1>3. c = a /\ cumulative_ts = TimeOf(i) /\ packets = SubSeq(sent, 1, i) /\ i <= Len(sent)
      /\ a \in Nat /\ i \in Nat
  BY <1>2 DEF HostPacket, AtPacket, InKind, InHeader, InData
<1>4. PacketMark(st, pm, a, i)
  BY DEF HostPacket, PacketMarks
<1>5. CASE FillerAt(st, pm, a, i)
  <2>1. packet_state' = "MAGIC" /\ <<a + 1, i>> \in pm
    BY <1>2, <1>3, <1>5 DEF FillerAt, PacketMagic, PacketByte
  <2>2. PICK a2 \in Nat : a2 = a + 1
    BY <1>3
  <2>3. TimeOf(i)' = TimeOf(i)
    BY DEF TimeOf
  <2>4. AtPacket(st, pm, a2, i, a2)'
    BY <1>1, <1>3, <2>1, <2>3 DEF AtPacket
  <2> QED
    BY <1>3, <2>1, <2>2, <2>4 DEF SomePacket
<1>6. CASE \E k \in Kinds : PacketAt(st, pm, a, i, k)
  <2>1. PICK k \in Kinds : PacketAt(st, pm, a, i, k)
    BY <1>6
  <2>2. Here = 160
    <3>1. a \in Nat /\ i \in Nat
      BY <1>3
    <3>2. KindBytes(st, pm, a, i, k)
      BY <2>1, <3>1, BytesOfKind
    <3>3. st[a + 1] = 160
      BY <3>2 DEF KindBytes
    <3> QED
      BY <1>2, <1>3, <3>3
  <2>3. packet_state' = "FLAGS" /\ magic' = 160
    BY <2>2 DEF PacketMagic, PacketByte
  <2>4. InHeader(k, 1)' /\ cumulative_ts' = TimeOf(i)
    BY <1>1, <1>3, <2>3 DEF InHeader
  <2>5. SomePacket(st, pm, a + 1)'
    BY <1>1, <2>1, <2>3, <2>4, StillInKind
  <2> QED
    BY <1>3, <2>5
<1> QED
  BY <1>2, <1>3, <1>4, <1>5, <1>6 DEF PacketMark

\* Nothing else is ever found there.
LEMMA NoWrongPacketMagic ==
  ASSUME NEW st, NEW pm, NEW a, NEW i, NEW c, HostPacket(st, pm, a, i, c), WrongPacketMagic
  PROVE  FALSE
<1>1. InPacket("MAGIC") /\ Here \notin {160, 161, 162}
  BY DEF WrongPacketMagic
<1>2. Here = st[c + 1] /\ c < Len(st) /\ packet_state = "MAGIC"
  BY <1>1, HereInStream
<1>3. c = a /\ a \in Nat /\ i \in Nat
  BY <1>2 DEF HostPacket, AtPacket, InKind, InHeader, InData
<1>4. PacketMark(st, pm, a, i)
  BY DEF HostPacket, PacketMarks
<1>5. ~FillerAt(st, pm, a, i)
  BY <1>1, <1>2, <1>3 DEF FillerAt
<1>6. ~\E k \in Kinds : PacketAt(st, pm, a, i, k)
  <2> SUFFICES ASSUME NEW k \in Kinds, PacketAt(st, pm, a, i, k) PROVE FALSE
    OBVIOUS
  <2>1. a \in Nat /\ i \in Nat
    BY <1>3
  <2>2. KindBytes(st, pm, a, i, k)
    BY <2>1, BytesOfKind
  <2>3. st[a + 1] = 160
    BY <2>2 DEF KindBytes
  <2> QED
    BY <1>1, <1>2, <1>3, <2>3
<1> QED
  BY <1>2, <1>3, <1>4, <1>5, <1>6 DEF PacketMark

\* Within a header it is a packet of some kind, and so within its data.
HeaderOf(st, pm, a, i, c, k, o) ==
  /\ k \in Kinds /\ o \in Nat /\ c = a + o /\ a \in Nat /\ i \in Nat
  /\ PacketAt(st, pm, a, i, k) /\ KindBytes(st, pm, a, i, k) /\ magic = 160
  /\ InHeader(k, o) /\ cumulative_ts = TimeOf(i)

DataOf(st, pm, a, i, c, k, o) ==
  /\ k \in Kinds /\ o \in Nat /\ c = a + o /\ a \in Nat /\ i \in Nat
  /\ PacketAt(st, pm, a, i, k) /\ KindBytes(st, pm, a, i, k) /\ magic = 160
  /\ InData(k, o) /\ timestamp = cumulative_ts
  /\ cumulative_ts = Later(TimeOf(i), Timestamp(k.ts))

\* Behind its magic a packet is of a kind.
LEMMA KindAtHand ==
  ASSUME NEW st, NEW pm, NEW a, NEW i, NEW c, HostPacket(st, pm, a, i, c),
         packet_state # "MAGIC"
  PROVE  \E k, o : HeaderOf(st, pm, a, i, c, k, o) \/ DataOf(st, pm, a, i, c, k, o)
<1>1. PICK k \in Kinds : InKind(st, pm, a, i, c, k)
  BY DEF HostPacket, AtPacket
<1>2. a \in Nat /\ i \in Nat
  BY DEF HostPacket
<1>3. KindBytes(st, pm, a, i, k)
  <2>1. PacketAt(st, pm, a, i, k)
    BY <1>1 DEF InKind
  <2> QED
    BY <1>2, <2>1, BytesOfKind
<1> QED
  BY <1>1, <1>2, <1>3 DEF InKind, HeaderOf, DataOf

LEMMA HeaderAtHand ==
  ASSUME NEW st, NEW pm, NEW a, NEW i, NEW c, HostPacket(st, pm, a, i, c),
         packet_state \notin {"MAGIC", "DATA"}
  PROVE  \E k, o : HeaderOf(st, pm, a, i, c, k, o)
<1>1. PICK k, o : HeaderOf(st, pm, a, i, c, k, o) \/ DataOf(st, pm, a, i, c, k, o)
  BY KindAtHand
<1> QED
  BY <1>1 DEF DataOf, InData

LEMMA DataAtHand ==
  ASSUME NEW st, NEW pm, NEW a, NEW i, NEW c, HostPacket(st, pm, a, i, c),
         packet_state = "DATA"
  PROVE  \E k, o : DataOf(st, pm, a, i, c, k, o)
<1>1. PICK k, o : HeaderOf(st, pm, a, i, c, k, o) \/ DataOf(st, pm, a, i, c, k, o)
  BY KindAtHand
<1> QED
  BY <1>1 DEF HeaderOf, InHeader

\* Each field of the header is read as it was sent: the flags, ...
LEMMA PacketFlagsHost ==
  ASSUME NEW st, NEW pm, NEW a, NEW i, NEW c, HostPacket(st, pm, a, i, c),
         PacketFlags, UNCHANGED sent
  PROVE  SomePacket(st, pm, c + 1)'
<1>1. InPacket("FLAGS") /\ UNCHANGED <<packets, cumulative_ts, magic>>
      /\ flags' = Here /\ packet_state' = "LENGTH_LO"
  BY DEF PacketFlags, PacketByte
<1>2. Here = st[c + 1] /\ packet_state = "FLAGS"
  BY <1>1, HereInStream
<1>3. PICK k, o : HeaderOf(st, pm, a, i, c, k, o)
  BY <1>2, HeaderAtHand
<1>4. c = a + 1 /\ a \in Nat /\ k \in Kinds /\ PacketAt(st, pm, a, i, k) /\ magic = 160
      /\ cumulative_ts = TimeOf(i)
  BY <1>2, <1>3 DEF HeaderOf, InHeader
<1>5. c + 1 = a + 2 /\ Here = k.flags
  BY <1>2, <1>3, <1>4 DEF HeaderOf, KindBytes
<1>6. InHeader(k, 2)'
  BY <1>1, <1>5 DEF InHeader
<1>7. SomePacket(st, pm, a + 2)'
  BY <1>1, <1>4, <1>6, StillInKind
<1> QED
  BY <1>5, <1>7

\* ... the low byte of the size, ...
LEMMA PacketLengthLoHost ==
  ASSUME NEW st, NEW pm, NEW a, NEW i, NEW c, HostPacket(st, pm, a, i, c),
         PacketLengthLo, UNCHANGED sent
  PROVE  SomePacket(st, pm, c + 1)'
<1>1. InPacket("LENGTH_LO") /\ UNCHANGED <<packets, cumulative_ts, magic, flags>>
      /\ size' = Here /\ packet_state' = "LENGTH_HI"
  BY DEF PacketLengthLo, PacketByte
<1>2. Here = st[c + 1] /\ packet_state = "LENGTH_LO"
  BY <1>1, HereInStream
<1>3. PICK k, o : HeaderOf(st, pm, a, i, c, k, o)
  BY <1>2, HeaderAtHand
<1>4. c = a + 2 /\ a \in Nat /\ k \in Kinds /\ PacketAt(st, pm, a, i, k) /\ magic = 160
      /\ cumulative_ts = TimeOf(i) /\ flags = k.flags
  BY <1>2, <1>3 DEF HeaderOf, InHeader
<1>5. c + 1 = a + 3 /\ Here = k.size % 256
  BY <1>2, <1>3, <1>4 DEF HeaderOf, KindBytes
<1>6. InHeader(k, 3)'
  BY <1>1, <1>4, <1>5 DEF InHeader
<1>7. SomePacket(st, pm, a + 3)'
  BY <1>1, <1>4, <1>6, StillInKind
<1> QED
  BY <1>5, <1>7

\* ... its high bits, in a byte with the length of the timestamp, ...
LEMMA PacketLengthHiHost ==
  ASSUME NEW st, NEW pm, NEW a, NEW i, NEW c, HostPacket(st, pm, a, i, c),
         PacketLengthHi, UNCHANGED sent
  PROVE  SomePacket(st, pm, c + 1)'
<1>1. InPacket("LENGTH_HI") /\ UNCHANGED <<packets, cumulative_ts, magic, flags>>
      /\ size' = (Here % 32) * 256 + size /\ packet_state' = "TIMESTAMP"
      /\ ts_length' = (Here \div 32) + 1 /\ ts_byte' = 0 /\ timestamp' = 0
  BY DEF PacketLengthHi, PacketByte
<1>2. Here = st[c + 1] /\ packet_state = "LENGTH_HI"
  BY <1>1, HereInStream
<1>3. PICK k, o : HeaderOf(st, pm, a, i, c, k, o)
  BY <1>2, HeaderAtHand
<1>4. c = a + 3 /\ a \in Nat /\ k \in Kinds /\ PacketAt(st, pm, a, i, k) /\ magic = 160
      /\ cumulative_ts = TimeOf(i) /\ flags = k.flags /\ size = k.size % 256
  BY <1>2, <1>3 DEF HeaderOf, InHeader
<1> DEFINE q == k.size \div 256
           r == k.size % 256
           n == Len(k.ts)
<1>5. c + 1 = a + 4 /\ Here = q + 32 * (n - 1)
  BY <1>2, <1>3, <1>4 DEF HeaderOf, KindBytes
<1>6. k.size \in Nat /\ k.size < 8192
  BY <1>4, KindsAssumption
<1>7. /\ q \in Nat /\ q < 32 /\ r \in Nat /\ q * 256 + r = k.size
  BY <1>6
<1>8. n \in Nat /\ 1 <= n /\ n <= 8
  BY <1>3 DEF HeaderOf, KindBytes
<1> HIDE DEF q, r, n
<1>9. Here % 32 = q /\ Here \div 32 = n - 1
  <2>1. (q + 32 * (n - 1)) % 32 = q
    BY <1>7, <1>8
  <2>2. (q + 32 * (n - 1)) \div 32 = n - 1
    BY <1>7, <1>8
  <2> QED
    BY <1>5, <2>1, <2>2
<1>10. size' = k.size /\ ts_length' = n
  <2>1. size = r
    BY <1>4 DEF r
  <2>2. size' = q * 256 + r
    BY <1>1, <1>9, <2>1
  <2>3. ts_length' = (n - 1) + 1
    BY <1>1, <1>9
  <2> QED
    BY <1>7, <1>8, <2>2, <2>3
<1>11. TimestampUpTo(k.ts, 0) = 0
  <2>1. k.ts \in Seq(Byte) /\ Len(k.ts) <= 8
    BY <1>4, KindsAssumption
  <2>2. 0 \in 0 .. Len(k.ts)
    BY <1>8 DEF n
  <2> QED
    BY <2>1, <2>2, TimestampSteps
<1>12. InHeader(k, 4)'
  <2>1. 4 + ts_byte' = 4
    BY <1>1
  <2> QED
    BY <1>1, <1>4, <1>10, <1>11, <2>1 DEF InHeader, n
<1>13. SomePacket(st, pm, a + 4)'
  BY <1>1, <1>4, <1>12, StillInKind
<1> QED
  BY <1>5, <1>13

\* The byte at hand is the next one of the timestamp.
LEMMA TimestampByte ==
  ASSUME NEW st, NEW pm, NEW a, NEW i, NEW c, HostPacket(st, pm, a, i, c),
         InPacket("TIMESTAMP")
  PROVE  \E k : /\ HeaderOf(st, pm, a, i, c, k, 4 + ts_byte)
                /\ ts_byte \in Nat /\ ts_length = Len(k.ts) /\ ts_byte < Len(k.ts)
                /\ ShiftedTimestamp = TimestampUpTo(k.ts, ts_byte + 1)
                /\ c + 1 = a + (4 + (ts_byte + 1))
<1>1. Here = st[c + 1] /\ packet_state = "TIMESTAMP"
  BY HereInStream
<1>2. PICK k, o : HeaderOf(st, pm, a, i, c, k, o)
  BY <1>1, HeaderAtHand
<1>3. /\ o = 4 + ts_byte /\ ts_length = Len(k.ts) /\ timestamp = TimestampUpTo(k.ts, ts_byte)
      /\ k \in Kinds /\ a \in Nat /\ c = a + o
  BY <1>1, <1>2 DEF HeaderOf, InHeader
<1>4. ts_byte \in Nat /\ ts_byte < ts_length
  BY <1>1 DEF HostPacket, ControlInv, TypeOK, TimestampFits
<1>5. Len(k.ts) \in Nat /\ Len(k.ts) <= 8
  BY <1>2, SMTT(30) DEF HeaderOf, KindBytes
<1>6. c + 1 = a + (4 + (ts_byte + 1)) /\ ts_byte + 1 \in 1 .. Len(k.ts)
      /\ ts_byte \in 0 .. Len(k.ts)
  BY <1>3, <1>4, <1>5
<1>7. Here = k.ts[ts_byte + 1]
  <2>1. \A j \in 1 .. Len(k.ts) : st[a + (4 + j)] = k.ts[j]
    <3>1. KindBytes(st, pm, a, i, k)
      BY <1>2, Zenon DEF HeaderOf
    <3> QED
      BY <3>1, ZenonT(40) DEF KindBytes
  <2>2. Here = st[a + (4 + (ts_byte + 1))]
    BY <1>1, <1>6, Zenon
  <2> QED
    BY <1>6, <2>1, <2>2, Zenon
<1>8. TimestampUpTo(k.ts, ts_byte + 1)
        = TimestampUpTo(k.ts, ts_byte) + Shifted(k.ts[ts_byte + 1], ts_byte)
  <2>1. k.ts \in Seq(Byte)
    BY <1>3, KindsAssumption
  <2> QED
    BY <1>3, <1>4, <1>5, <1>6, <2>1, TimestampSteps
<1>9. HeaderOf(st, pm, a, i, c, k, 4 + ts_byte)
  BY <1>2, <1>3, Zenon
<1>10. ts_byte \in Nat /\ ts_length = Len(k.ts) /\ ts_byte < Len(k.ts)
  BY <1>3, <1>4, Zenon
<1>11. ShiftedTimestamp = TimestampUpTo(k.ts, ts_byte + 1)
  BY <1>3, <1>7, <1>8, Zenon DEF ShiftedTimestamp
<1>12. c + 1 = a + (4 + (ts_byte + 1))
  BY <1>6, Zenon
<1> QED
  BY <1>9, <1>10, <1>11, <1>12, Zenon

\* ... the timestamp, byte by byte, ...
LEMMA PacketTimestampHost ==
  ASSUME NEW st, NEW pm, NEW a, NEW i, NEW c, HostPacket(st, pm, a, i, c),
         PacketTimestamp, UNCHANGED sent
  PROVE  SomePacket(st, pm, c + 1)'
<1>1. /\ InPacket("TIMESTAMP")
      /\ UNCHANGED <<packets, cumulative_ts, magic, flags, size, ts_length>>
      /\ packet_state' = "TIMESTAMP"
      /\ timestamp' = ShiftedTimestamp /\ ts_byte' = ts_byte + 1
  BY DEF PacketTimestamp, PacketByte
<1>2. PICK k : /\ HeaderOf(st, pm, a, i, c, k, 4 + ts_byte)
               /\ ts_byte \in Nat /\ ts_length = Len(k.ts) /\ ts_byte < Len(k.ts)
               /\ ShiftedTimestamp = TimestampUpTo(k.ts, ts_byte + 1)
               /\ c + 1 = a + (4 + (ts_byte + 1))
  BY <1>1, TimestampByte
<1>3. /\ k \in Kinds /\ a \in Nat /\ PacketAt(st, pm, a, i, k) /\ magic = 160
      /\ cumulative_ts = TimeOf(i) /\ flags = k.flags /\ size = k.size
  BY <1>1, <1>2 DEF HeaderOf, InHeader, InPacket
<1>4. PICK o2 \in Nat : o2 = 4 + (ts_byte + 1)
  BY <1>2
<1>5. InHeader(k, o2)'
  BY <1>1, <1>2, <1>3, <1>4 DEF InHeader
<1>6. SomePacket(st, pm, a + o2)'
  BY <1>1, <1>3, <1>4, <1>5, StillInKind
<1>7. a + o2 = c + 1
  BY <1>2, <1>4
<1> QED
  BY <1>6, <1>7

\* ... which then is the time of the packet.
LEMMA PacketTimestampEndHost ==
  ASSUME NEW st, NEW pm, NEW a, NEW i, NEW c, HostPacket(st, pm, a, i, c),
         PacketTimestampEnd, UNCHANGED sent
  PROVE  SomePacket(st, pm, c + 1)'
<1>1. InPacket("TIMESTAMP") /\ UNCHANGED <<packets, magic, flags, size, buf_actual_length>>
      /\ packet_state' = "DATA" /\ cumulative_ts' = Later(cumulative_ts, ShiftedTimestamp)
      /\ timestamp' = cumulative_ts' /\ ~(ts_byte + 1 < ts_length)
  BY DEF PacketTimestampEnd, PacketByte, MoreTimestamp, ClockForward
<1>2. PICK k : /\ HeaderOf(st, pm, a, i, c, k, 4 + ts_byte)
               /\ ts_byte \in Nat /\ ts_length = Len(k.ts) /\ ts_byte < Len(k.ts)
               /\ ShiftedTimestamp = TimestampUpTo(k.ts, ts_byte + 1)
               /\ c + 1 = a + (4 + (ts_byte + 1))
  BY <1>1, TimestampByte
<1>3. /\ k \in Kinds /\ a \in Nat /\ PacketAt(st, pm, a, i, k) /\ magic = 160
      /\ cumulative_ts = TimeOf(i) /\ flags = k.flags /\ size = k.size
      /\ Len(k.ts) \in Nat /\ Len(k.data) \in Nat
  BY <1>1, <1>2 DEF HeaderOf, InHeader, InPacket, KindBytes
<1>4. ts_byte + 1 = Len(k.ts)
  BY <1>1, <1>2, <1>3
<1>5. cumulative_ts' = Later(TimeOf(i), Timestamp(k.ts))
  BY <1>1, <1>2, <1>3, <1>4 DEF Timestamp
<1>6. buf_actual_length = 0
  BY <1>1 DEF HostPacket, ControlInv, OffsetInv, InPacket
<1>7. PICK o2 \in Nat : o2 = 4 + Len(k.ts)
  BY <1>3
<1>8. InData(k, o2)'
  <2>1. o2 = 4 + Len(k.ts) + 0
    BY <1>3, <1>7
  <2>2. 0 < Len(k.data) \/ Len(k.data) = 0
    BY <1>3
  <2> QED
    BY <1>1, <1>3, <1>6, <2>1, <2>2 DEF InData
<1>9. SomePacket(st, pm, a + o2)'
  BY <1>1, <1>3, <1>5, <1>7, <1>8, StillInKind
<1>10. a + o2 = c + 1
  BY <1>2, <1>4, <1>7
<1> QED
  BY <1>9, <1>10

\* Of the data, what has been copied is the packet's.
LEMMA CopiedBytes ==
  ASSUME NEW st, NEW pm, NEW a, NEW i, NEW c, HostPacket(st, pm, a, i, c),
         NEW k, NEW o, DataOf(st, pm, a, i, c, k, o), InPacket("DATA")
  PROVE  /\ \A j \in 1 .. buf_actual_length + DataToCopy : CopiedData[j] = k.data[j]
         /\ CopiedData \in Seq(Byte) /\ Len(CopiedData) = buf_actual_length + DataToCopy
         /\ DataMissing + buf_actual_length = Len(k.data)
         /\ DataToCopy \in Nat /\ DataToCopy <= DataMissing /\ DataMissing \in Nat
         /\ buf_actual_length \in Nat /\ a \in Nat /\ Len(k.ts) \in Nat /\ k \in Kinds
         /\ c + DataToCopy = a + (4 + Len(k.ts) + (buf_actual_length + DataToCopy))
<1> DEFINE m == buf_actual_length
           n == DataToCopy
           t == Len(k.ts)
<1>1. /\ DataMissing \in Nat /\ n \in Nat /\ n <= DataMissing /\ n <= data_end - pos
      /\ DataMissing + m = CapturedSize(flags, size) /\ pos + n <= Len(buf)
      /\ CopiedData \in Seq(Byte) /\ Len(CopiedData) = m + n
  BY CopyBounds, CopiedDataType DEF HostPacket
<1>2. /\ c = a + o /\ a \in Nat /\ o = 4 + t + m /\ flags = k.flags /\ size = k.size
      /\ \A j \in 1 .. m : data[j] = k.data[j]
      /\ \A j \in 1 .. Len(k.data) : st[a + (4 + t + j)] = k.data[j]
      /\ t \in Nat /\ Len(k.data) \in Nat /\ k \in Kinds
  BY DEF DataOf, InData, KindBytes
<1>3. CapturedSize(flags, size) = Len(k.data)
  BY <1>2, KindsAssumption
<1>4. /\ buf \in Seq(Byte) /\ data \in Seq(Byte) /\ m \in Nat /\ m <= Len(data)
      /\ pos \in Nat /\ data_end \in Nat
  BY DEF HostPacket, ControlInv, TypeOK, OffsetInv
<1> DEFINE old == SubSeq(data, 1, m)
           new == SubSeq(buf, pos + 1, pos + n)
<1>5. CopiedData = old \o new
  BY DEF CopiedData
<1> HIDE DEF m, n, t
<1>6. old \in Seq(Byte) /\ Len(old) = m /\ \A j \in 1 .. m : old[j] = data[j]
  <2>1. \A j \in 1 .. m : data[j] \in Byte
    BY <1>4, ElementOfSeq, LenProperties
  <2> QED
    BY <1>4, <2>1, SubSeqProperties
<1>7. new \in Seq(Byte) /\ Len(new) = n /\ \A j \in 1 .. n : new[j] = buf[pos + j]
  <2>1. \A j \in pos + 1 .. pos + n : buf[j] \in Byte
    BY <1>1, <1>4, ElementOfSeq, LenProperties
  <2>2. /\ new \in Seq(Byte)
        /\ Len(new) = IF pos + 1 <= pos + n THEN pos + n - (pos + 1) + 1 ELSE 0
        /\ \A j \in 1 .. pos + n - (pos + 1) + 1 : new[j] = buf[pos + 1 + j - 1]
    BY <1>1, <1>4, <2>1, SubSeqProperties
  <2>3. pos + n - (pos + 1) + 1 = n /\ \A j \in Nat : pos + 1 + j - 1 = pos + j
    BY <1>1, <1>4
  <2>4. Len(new) = n
    <3>1. CASE pos + 1 <= pos + n
      BY <2>2, <2>3, <3>1
    <3>2. CASE ~(pos + 1 <= pos + n)
      <4>1. n = 0
        BY <1>1, <1>4, <3>2
      <4> QED
        BY <2>2, <3>2, <4>1
    <3> QED
      BY <3>1, <3>2
  <2>5. ASSUME NEW j \in 1 .. n PROVE new[j] = buf[pos + j]
    <3>1. j \in Nat /\ j \in 1 .. pos + n - (pos + 1) + 1
      BY <1>1, <2>3
    <3> QED
      BY <2>2, <2>3, <3>1
  <2> QED
    BY <2>2, <2>4, <2>5
<1> HIDE DEF old, new
<1>8. /\ \A j \in 1 .. Len(old) : (old \o new)[j] = old[j]
      /\ \A j \in 1 .. Len(new) : (old \o new)[Len(old) + j] = new[j]
  <2>1. old \in Seq(Byte) /\ new \in Seq(Byte)
    BY <1>6, <1>7
  <2> QED
    BY <2>1, ConcatAt
<1>9. ASSUME NEW j \in 1 .. m + n PROVE CopiedData[j] = k.data[j]
  <2>1. CASE j \in 1 .. m
    BY <1>2, <1>5, <1>6, <1>8, <2>1 DEF m
  <2>2. CASE j \notin 1 .. m
    <3>1. PICK l \in 1 .. n : j = m + l
      <4>1. j - m \in 1 .. n /\ j = m + (j - m)
        BY <1>1, <1>4, <2>2
      <4> QED
        BY <4>1
    <3>2. CopiedData[j] = buf[pos + l]
      BY <1>5, <1>6, <1>7, <1>8, <3>1
    <3>3. l \in 1 .. data_end - pos
      BY <1>1, <1>4, <3>1
    <3>4. buf[pos + l] = st[c + l]
      BY <3>3 DEF HostPacket, PacketInput
    <3>5. c + l = a + (4 + t + j) /\ j \in 1 .. Len(k.data)
      BY <1>1, <1>2, <1>3, <1>4, <3>1
    <3> QED
      BY <1>2, <3>2, <3>4, <3>5
  <2> QED
    BY <2>1, <2>2
<1>10. c + n = a + (4 + t + (m + n))
  <2>1. c = a + (4 + t + m) /\ a \in Nat /\ t \in Nat
    BY <1>2
  <2>2. m \in Nat /\ n \in Nat
    BY <1>1, <1>4
  <2> QED
    BY <2>1, <2>2
<1> QED
  BY <1>1, <1>2, <1>3, <1>4, <1>9, <1>10 DEF m, n, t

\* A piece of the data
LEMMA PacketDataHost ==
  ASSUME NEW st, NEW pm, NEW a, NEW i, NEW c, HostPacket(st, pm, a, i, c),
         PacketData, UNCHANGED sent
  PROVE  \E d \in Nat : d = c + DataToCopy /\ SomePacket(st, pm, d)'
<1>1. /\ InPacket("DATA") /\ DataMissing # DataToCopy /\ data' = CopiedData
      /\ buf_actual_length' = buf_actual_length + DataToCopy
      /\ UNCHANGED <<packets, magic, flags, size, packet_state, timestamp, cumulative_ts>>
  BY DEF PacketData, DataComplete
<1>2. PICK k, o : DataOf(st, pm, a, i, c, k, o)
  BY <1>1, DataAtHand DEF InPacket
<1>3. /\ \A j \in 1 .. buf_actual_length + DataToCopy : CopiedData[j] = k.data[j]
      /\ DataMissing + buf_actual_length = Len(k.data)
      /\ DataToCopy \in Nat /\ DataToCopy <= DataMissing /\ DataMissing \in Nat
      /\ buf_actual_length \in Nat /\ a \in Nat /\ Len(k.ts) \in Nat /\ k \in Kinds
      /\ c + DataToCopy = a + (4 + Len(k.ts) + (buf_actual_length + DataToCopy))
  BY <1>1, <1>2, CopiedBytes
<1>4. PICK o2 \in Nat : o2 = 4 + Len(k.ts) + (buf_actual_length + DataToCopy)
  <2>1. Len(k.ts) \in Nat /\ buf_actual_length \in Nat /\ DataToCopy \in Nat
    BY <1>3
  <2>2. \A x, y, z \in Nat : 4 + x + (y + z) \in Nat
    OBVIOUS
  <2>3. 4 + Len(k.ts) + (buf_actual_length + DataToCopy) \in Nat
    BY <2>1, <2>2, Zenon
  <2> QED
    BY <2>3
<1>5. /\ PacketAt(st, pm, a, i, k) /\ magic = 160 /\ timestamp = cumulative_ts
      /\ cumulative_ts = Later(TimeOf(i), Timestamp(k.ts))
      /\ packet_state = "DATA" /\ flags = k.flags /\ size = k.size
  BY <1>2 DEF DataOf, InData
<1>6. InData(k, o2)'
  <2>1. buf_actual_length' < Len(k.data)
    BY <1>1, <1>3
  <2> QED
    BY <1>1, <1>3, <1>4, <1>5, <2>1 DEF InData
<1>7. SomePacket(st, pm, a + o2)'
  BY <1>1, <1>3, <1>4, <1>5, <1>6, StillInKind
<1>8. c + DataToCopy = a + o2 /\ a + o2 \in Nat
  <2>1. a \in Nat /\ c + DataToCopy = a + (4 + Len(k.ts) + (buf_actual_length + DataToCopy))
    BY <1>3
  <2> QED
    BY <1>4, <2>1
<1> QED
  BY <1>7, <1>8

\* A packet is passed on, with what it had.
LEMMA PacketDataEndHost ==
  ASSUME NEW st, NEW pm, NEW a, NEW i, NEW c, HostPacket(st, pm, a, i, c),
         PacketDataEnd, UNCHANGED sent
  PROVE  \E d \in Nat : d = c + DataToCopy /\ SomePacket(st, pm, d)'
<1>1. /\ InPacket("DATA") /\ DataMissing = DataToCopy
      /\ packets' = Append(packets, [magic |-> magic, flags |-> flags, size |-> size,
                                     timestamp |-> timestamp, data |-> CopiedData])
      /\ packet_state' = "MAGIC" /\ UNCHANGED cumulative_ts
  BY DEF PacketDataEnd, DataComplete
<1>2. PICK k, o : DataOf(st, pm, a, i, c, k, o)
  BY <1>1, DataAtHand DEF InPacket
<1>3. /\ \A j \in 1 .. buf_actual_length + DataToCopy : CopiedData[j] = k.data[j]
      /\ CopiedData \in Seq(Byte) /\ Len(CopiedData) = buf_actual_length + DataToCopy
      /\ DataMissing + buf_actual_length = Len(k.data)
      /\ DataToCopy \in Nat /\ buf_actual_length \in Nat
      /\ a \in Nat /\ Len(k.ts) \in Nat /\ k \in Kinds
      /\ c + DataToCopy = a + (4 + Len(k.ts) + (buf_actual_length + DataToCopy))
  BY <1>1, <1>2, CopiedBytes
<1>4. buf_actual_length + DataToCopy = Len(k.data)
  BY <1>1, <1>3
<1>5. CopiedData = k.data
  <2>1. k.data \in Seq(Byte)
    BY <1>3, KindsAssumption
  <2> QED
    BY <1>3, <1>4, <2>1, SeqEqual
<1>6. /\ PacketAt(st, pm, a, i, k) /\ magic = 160 /\ timestamp = cumulative_ts
      /\ cumulative_ts = Later(TimeOf(i), Timestamp(k.ts))
      /\ flags = k.flags /\ size = k.size
      /\ <<a + (4 + Len(k.ts) + Len(k.data)), i + 1>> \in pm
  BY <1>2 DEF DataOf, InData, KindBytes
<1>7. /\ i < Len(sent) /\ sent \in Seq(UsbPacket) /\ i \in Nat /\ pm \subseteq Nat \X Nat
      /\ packets = SubSeq(sent, 1, i)
      /\ sent[i + 1] = [magic |-> 160, flags |-> k.flags, size |-> k.size,
                        timestamp |-> Later(TimeOf(i), Timestamp(k.ts)), data |-> k.data]
  BY <1>6 DEF PacketAt, HostPacket, StreamTypeOK, AtPacket, PacketMarks
<1>8. sent[i + 1] = [magic |-> magic, flags |-> flags, size |-> size,
                     timestamp |-> timestamp, data |-> CopiedData]
  BY <1>5, <1>6, <1>7
<1>9. packets' = SubSeq(sent, 1, i + 1) /\ i + 1 <= Len(sent)
  <2>1. Append(SubSeq(sent, 1, i), sent[i + 1]) = SubSeq(sent, 1, i + 1)
    BY <1>7, AppendNext
  <2>2. Len(sent) \in Nat
    BY <1>7, LenProperties
  <2> QED
    BY <1>1, <1>7, <1>8, <2>1, <2>2
<1>10. PICK a2 \in Nat, i2 \in Nat :
         /\ a2 = a + (4 + Len(k.ts) + Len(k.data)) /\ i2 = i + 1 /\ <<a2, i2>> \in pm
  BY <1>6, <1>7
<1>11. c + DataToCopy = a2
  BY <1>3, <1>4, <1>10
<1>12. TimeOf(i2)' = cumulative_ts'
  <2>1. sent[i2].timestamp = timestamp /\ i2 # 0
    BY <1>7, <1>8, <1>10
  <2> QED
    BY <1>1, <1>6, <2>1 DEF TimeOf
<1>13. AtPacket(st, pm, a2, i2, a2)'
  BY <1>1, <1>9, <1>10, <1>12 DEF AtPacket
<1>14. SomePacket(st, pm, a2)'
  BY <1>10, <1>13 DEF SomePacket
<1> QED
  BY <1>11, <1>14

\* Outside the packet decoder
LEMMA OutsidePacket ==
  ASSUME NEW st, NEW pm, NEW c, SomePacket(st, pm, c),
         UNCHANGED <<packet_vars, packets, sent>>
  PROVE  SomePacket(st, pm, c)'
<1>1. PICK a \in Nat, i \in Nat : <<a, i>> \in pm /\ AtPacket(st, pm, a, i, c)
  BY DEF SomePacket
<1>2. \A k : /\ PacketAt(st, pm, a, i, k) => PacketAt(st, pm, a, i, k)'
             /\ TimeOf(i)' = TimeOf(i)
  BY PacketAtSame DEF TimeOf
<1>3. \A k, o : InHeader(k, o)' <=> InHeader(k, o)
  BY DEF InHeader
<1>4. \A k, o : InData(k, o)' <=> InData(k, o)
  BY DEF InData
<1>5. UNCHANGED <<packet_state, magic, timestamp, cumulative_ts, packets, sent>>
  OBVIOUS
<1>6. \A k : InKind(st, pm, a, i, c, k) => InKind(st, pm, a, i, c, k)'
  BY <1>2, <1>3, <1>4, <1>5 DEF InKind
<1>7. AtPacket(st, pm, a, i, c)'
  BY <1>1, <1>2, <1>5, <1>6 DEF AtPacket
<1> QED
  BY <1>1, <1>7 DEF SomePacket

-----------------------------------------------------------------------------
(***************************************************************************)
(* Both together, and the steps of the stream                              *)
(***************************************************************************)
\* A turn of either loop: the decoder comes as far on the wire as in the stream.
LEMMA FrameStepHost ==
  ASSUME NEW st, NEW wm, NEW f, NEW b, NEW s, NEW c \in Nat, HostFrame(st, wm, f, b, s, c),
         FrameInv, CallInv, FrameStep \/ PacketReturn, UNCHANGED <<wire, sent_bus, fed>>
  PROVE  BufferInv' /\ SomeFrame(st, wm, c)'
BY FrameMagicHost, NoWrongFrameMagic, SdramLengthHost, SdramDataHost, BusByteHost,
   BusChecksumHost, PacketReturnHost DEF FrameStep

ByteStep == \/ PacketMagic \/ PacketFlags \/ PacketLengthLo \/ PacketLengthHi
            \/ PacketTimestamp \/ PacketTimestampEnd

LEMMA ByteStepHost ==
  ASSUME NEW st, NEW pm, NEW a, NEW i, NEW c, HostPacket(st, pm, a, i, c),
         ByteStep, UNCHANGED sent
  PROVE  SomePacket(st, pm, c + 1)'
BY PacketMagicHost, PacketFlagsHost, PacketLengthLoHost, PacketLengthHiHost,
   PacketTimestampHost, PacketTimestampEndHost DEF ByteStep

\* The two levels stay at one place.
LEMMA StepHost ==
  ASSUME IInv, StreamTypeOK, NEW st, NEW pm, NEW wm,
         DeviceInv(st, pm, wm), HostInv(st, pm, wm), DecoderStep
  PROVE  HostInv(st, pm, wm)'
<1>1. Step /\ UNCHANGED <<fifo, wire, sent, sent_bus, fed, losses, lossy>>
  BY DEF DecoderStep, device_vars
<1>2. PICK c \in Nat : SomeFrame(st, wm, c) /\ SomePacket(st, pm, c)
  BY DEF HostInv
<1>3. /\ ControlInv /\ TypeOK /\ FrameInv /\ CallInv /\ ReadsWithinFrame
      /\ BufferInv /\ FrameMarks(st, wm) /\ PacketMarks(st, pm) /\ st \in Seq(Byte)
  BY DEF IInv, ControlInv, HostInv, DeviceInv
<1>4. PICK f \in Nat, b \in Nat, s \in Nat : HostFrame(st, wm, f, b, s, c)
  BY <1>2, <1>3 DEF SomeFrame, HostFrame
<1>5. PICK a \in Nat, i \in Nat : <<a, i>> \in pm /\ AtPacket(st, pm, a, i, c)
  BY <1>2 DEF SomePacket
<1>6. CASE FrameStep \/ PacketReturn
  <2>1. BufferInv' /\ SomeFrame(st, wm, c)'
    BY <1>1, <1>3, <1>4, <1>6, FrameStepHost
  <2>2. UNCHANGED <<packet_vars, packets>>
    BY <1>6 DEF FrameStep, FrameMagic, WrongFrameMagic, SdramLength, SdramData,
       BusAddrHi, BusAddrLo, BusValue, BusChecksum, FrameByte, PacketReturn
  <2>3. SomePacket(st, pm, c)'
    BY <1>1, <1>2, <2>2, OutsidePacket
  <2> QED
    BY <2>1, <2>3 DEF HostInv
<1>7. ASSUME proc = "packet"
      PROVE  HostPacket(st, pm, a, i, c)
  <2>1. PacketInput(st, c)
    BY <1>3, <1>4, <1>7, InputOfPacket
  <2> QED
    BY <1>3, <1>5, <2>1 DEF HostPacket
<1>8. CASE WrongPacketMagic
  <2>1. HostPacket(st, pm, a, i, c)
    BY <1>7, <1>8 DEF WrongPacketMagic, InPacket
  <2> QED
    BY <1>8, <2>1, NoWrongPacketMagic
<1>9. CASE ByteStep
  <2>1. proc = "packet" /\ pos < data_end /\ Consume(1) /\ proc' = proc
    BY <1>9 DEF ByteStep, PacketMagic, PacketFlags, PacketLengthLo, PacketLengthHi,
       PacketTimestamp, PacketTimestampEnd, PacketByte, InPacket
  <2>3. BufferInv' /\ SomeFrame(st, wm, c + 1)'
    BY <1>1, <1>3, <1>4, <2>1, ConsumeHost
  <2>4. SomePacket(st, pm, c + 1)'
    BY <1>1, <1>7, <1>9, <2>1, ByteStepHost
  <2>5. c + 1 \in Nat
    OBVIOUS
  <2> QED
    BY <2>3, <2>4, <2>5 DEF HostInv
<1>10. CASE PacketData \/ PacketDataEnd
  <2>1. /\ InPacket("DATA") /\ proc = "packet"
        /\ Consume(DataToCopy) /\ proc' \in {"packet", "return"}
    BY <1>10 DEF PacketData, PacketDataEnd, InPacket
  <2>2. PICK n \in Nat : n = DataToCopy
    BY <1>3, <2>1, CopyBounds
  <2>3. Consume(n)
    BY <2>1, <2>2 DEF Consume
  <2>4. BufferInv' /\ SomeFrame(st, wm, c + n)'
    BY <1>1, <1>3, <1>4, <2>1, <2>2, <2>3, ConsumeHost
  <2>5. \E d \in Nat : d = c + DataToCopy /\ SomePacket(st, pm, d)'
    BY <1>1, <1>7, <1>10, <2>1, PacketDataHost, PacketDataEndHost
  <2>6. PICK d \in Nat : d = c + n /\ SomePacket(st, pm, d)'
    BY <2>2, <2>5
  <2> QED
    BY <2>4, <2>6 DEF HostInv
<1> QED
  BY <1>1, <1>6, <1>8, <1>9, <1>10 DEF Step, PacketStep, ByteStep

\* At the same place on the wire
LEMMA SameFrame ==
  ASSUME NEW st, NEW wm, NEW c, SomeFrame(st, wm, c), Place' = Place,
         UNCHANGED <<frame_vars, proc, bus_frames, wire, sent_bus>>
  PROVE  SomeFrame(st, wm, c)'
<1>1. PICK f \in Nat, b \in Nat, s \in Nat : <<f, b, s>> \in wm /\ AtFrame(st, wm, f, b, s, c)
  BY DEF SomeFrame
<1>2. /\ BusAt(wm, f, b, s)' = BusAt(wm, f, b, s)
      /\ SdramAt(st, wm, f, b, s)' = SdramAt(st, wm, f, b, s)
  BY DEF BusAt, SdramAt, FrameLength
<1>3. InBusFrame(f)' = InBusFrame(f) /\ InSdramFrame(f, s, c)' = InSdramFrame(f, s, c)
  BY DEF InBusFrame, InSdramFrame, FrameLength
<1>4. AtFrame(st, wm, f, b, s, c)'
  BY <1>1, <1>2, <1>3 DEF AtFrame
<1> QED
  BY <1>1, <1>4 DEF SomeFrame

\* What the host reads
LEMMA ReadFromWire ==
  ASSUME StreamTypeOK, NEW n \in Nat, n <= Len(wire) - fed
  PROVE  /\ SubSeq(wire, fed + 1, fed + n) \in Seq(Byte)
         /\ Len(SubSeq(wire, fed + 1, fed + n)) = n
         /\ \A j \in 1 .. n : SubSeq(wire, fed + 1, fed + n)[j] = wire[fed + j]
<1> DEFINE chunk == SubSeq(wire, fed + 1, fed + n)
<1>1. /\ wire \in Seq(Byte) /\ fed \in Nat /\ Len(wire) \in Nat
  <2>1. wire \in Seq(Byte) /\ fed \in 0 .. Len(wire)
    BY DEF StreamTypeOK
  <2> QED
    BY <2>1, LenProperties
<1>2. \A j \in fed + 1 .. fed + n : wire[j] \in Byte
  BY <1>1, ElementOfSeq
<1>3. /\ chunk \in Seq(Byte)
      /\ Len(chunk) = IF fed + 1 <= fed + n THEN fed + n - (fed + 1) + 1 ELSE 0
      /\ \A j \in 1 .. fed + n - (fed + 1) + 1 : chunk[j] = wire[fed + 1 + j - 1]
  BY <1>1, <1>2, SubSeqProperties, SMTT(30)
<1>4. fed + n - (fed + 1) + 1 = n /\ \A j \in Nat : fed + 1 + j - 1 = fed + j
  BY <1>1
<1>5. Len(chunk) = n
  <2>1. CASE fed + 1 <= fed + n
    BY <1>3, <1>4, <2>1
  <2>2. CASE ~(fed + 1 <= fed + n)
    <3>1. n = 0
      BY <1>1, <2>2
    <3> QED
      BY <1>3, <2>2, <3>1
  <2> QED
    BY <2>1, <2>2
<1>6. ASSUME NEW j \in 1 .. n PROVE chunk[j] = wire[fed + j]
  <2>1. j \in Nat /\ j \in 1 .. fed + n - (fed + 1) + 1
    BY <1>4
  <2> QED
    BY <1>3, <1>4, <2>1
<1> QED
  BY <1>3, <1>5, <1>6

\* What the host reads goes on where the wire was left off.
LEMMA ReceiveHost ==
  ASSUME IInv, StreamTypeOK, NEW st, NEW pm, NEW wm,
         DeviceInv(st, pm, wm), HostInv(st, pm, wm), NEW n \in Nat, Receive(n)
  PROVE  HostInv(st, pm, wm)'
<1> DEFINE chunk == SubSeq(wire, fed + 1, fed + n)
<1>9. PICK x \in Nat : SomeFrame(st, wm, x)
  BY DEF HostInv
<1>10. proc # "error"
  BY <1>9 DEF SomeFrame, AtFrame, InSdramFrame
<1>1. /\ n <= Len(wire) - fed /\ fed' = fed + n /\ pos = Len(buf) /\ proc = "frame"
      /\ buf' = chunk /\ pos' = 0
      /\ UNCHANGED <<frame_vars, packet_vars, packets, bus_frames, data_end, proc>>
      /\ UNCHANGED <<fifo, wire, sent, sent_bus>>
  BY <1>10 DEF Receive, Feed, AtRest, device_vars
<1>2. /\ wire \in Seq(Byte) /\ fed \in Nat /\ Len(wire) \in Nat /\ fed <= Len(wire)
      /\ Len(buf) \in Nat
  <2>1. wire \in Seq(Byte) /\ fed \in 0 .. Len(wire) /\ buf \in Seq(Byte)
    BY DEF StreamTypeOK, IInv, ControlInv, TypeOK
  <2> QED
    BY <2>1, LenProperties
<1>3. chunk \in Seq(Byte) /\ Len(chunk) = n /\ \A j \in 1 .. n : chunk[j] = wire[fed + j]
  BY <1>1, ReadFromWire
<1> HIDE DEF chunk
<1>4. BufferInv'
  <2>1. fed' - Len(buf') = fed /\ Len(buf') = n /\ fed' <= Len(wire') /\ Len(buf') <= fed'
    BY <1>1, <1>2, <1>3
  <2>2. \A j \in 1 .. n : buf'[j] = wire'[fed + j]
    BY <1>1, <1>3
  <2> QED
    BY <2>1, <2>2 DEF BufferInv
<1>5. Place' = Place
  BY <1>1, <1>2, <1>3 DEF Place
<1>6. PICK c \in Nat : SomeFrame(st, wm, c) /\ SomePacket(st, pm, c)
  BY DEF HostInv
<1>7. SomePacket(st, pm, c)'
  BY <1>1, <1>6, OutsidePacket
<1>8. SomeFrame(st, wm, c)'
  BY <1>1, <1>5, <1>6, SameFrame
<1> QED
  BY <1>4, <1>6, <1>7, <1>8 DEF HostInv

\* Until something is read both places are the beginning.
LEMMA UntouchedHost ==
  ASSUME Untouched, StreamTypeOK, fed = 0, NEW st, NEW pm, NEW wm, DeviceInv(st, pm, wm)
  PROVE  HostInv(st, pm, wm)
<1>1. /\ Len(wire) \in Nat /\ Len(sent) \in Nat /\ Len(sent_bus) \in Nat
      /\ sent \in Seq(UsbPacket) /\ sent_bus \in Seq(BusFrame)
  BY LenProperties DEF StreamTypeOK
<1>2. Len(buf) = 0 /\ pos = 0
  BY DEF Untouched
<1>3. BufferInv /\ Place = 0
  BY <1>1, <1>2 DEF BufferInv, Place
<1>4. SubSeq(sent, 1, 0) = << >> /\ SubSeq(sent_bus, 1, 0) = << >>
  BY <1>1, SubSeqProperties, EmptySeq
<1>5. SomeFrame(st, wm, 0)
  <2>1. <<0, 0, 0>> \in wm
    BY DEF DeviceInv, FrameMarks
  <2>2. AtFrame(st, wm, 0, 0, 0, 0)
    BY <1>1, <1>3, <1>4 DEF AtFrame, Untouched
  <2> QED
    BY <2>1, <2>2 DEF SomeFrame
<1>6. SomePacket(st, pm, 0)
  <2>1. <<0, 0>> \in pm
    BY DEF DeviceInv, PacketMarks
  <2>2. AtPacket(st, pm, 0, 0, 0)
    BY <1>1, <1>4 DEF AtPacket, Untouched, TimeOf
  <2> QED
    BY <2>1, <2>2 DEF SomePacket
<1> QED
  BY <1>3, <1>5, <1>6 DEF HostInv

\* Whatever has been read, there are marks that the decoder is at.
LEMMA HostAtHand ==
  ASSUME StreamIInv, ~lossy
  PROVE  \E st, pm, wm : DeviceInv(st, pm, wm) /\ HostInv(st, pm, wm)
<1>1. PICK st, pm, wm : Witnessed(st, pm, wm)
  BY DEF StreamIInv
<1>2. CASE fed = 0
  <2>1. HostInv(st, pm, wm)
    BY <1>1, <1>2, UntouchedHost DEF StreamIInv, Witnessed
  <2> QED
    BY <1>1, <2>1 DEF Witnessed
<1>3. CASE fed # 0
  BY <1>1, <1>3 DEF Witnessed
<1> QED
  BY <1>2, <1>3

\* The empty stream has the marks 0.
LEMMA StreamStart == StreamInit => StreamIInv
<1> SUFFICES ASSUME StreamInit PROVE StreamIInv
  OBVIOUS
<1>1. /\ fifo = << >> /\ wire = << >> /\ fed = 0 /\ lossy \in BOOLEAN
      /\ sent = << >> /\ sent_bus = << >> /\ Init
  BY DEF StreamInit
<1>2. IInv /\ Untouched
  BY <1>1, InitControl, InitCall, InitHistory DEF IInv, Init, InitPacketDecoder, Untouched
<1>3. StreamTypeOK
  BY <1>1, EmptySeq DEF StreamTypeOK
<1>4. Witnessed(<< >>, {<<0, 0>>}, {<<0, 0, 0>>})
  <2>1. PacketMarks(<< >>, {<<0, 0>>})
    BY <1>1 DEF PacketMarks, PacketMark
  <2>2. FrameMarks(<< >>, {<<0, 0, 0>>})
    BY <1>1 DEF FrameMarks, FrameMark
  <2>3. FifoEnds(<< >>)
    BY <1>1 DEF FifoEnds
  <2>4. << >> \in Seq(Byte)
    BY EmptySeq
  <2> QED
    BY <1>1, <2>1, <2>2, <2>3, <2>4 DEF Witnessed, DeviceInv
<1> QED
  BY <1>2, <1>3, <1>4 DEF StreamIInv

\* While the device sends, the decoder does nothing.
LEMMA DeviceStep ==
  ASSUME StreamIInv,
         \/ \E k \in Kinds : SendPacket(k)
         \/ \E words \in FrameSizes : SendFrame(words)
         \/ \E b \in BusFrames : SendBusFrame(b)
  PROVE  StreamIInv'
<1>1. fed = 0 /\ fed' = 0 /\ UNCHANGED decoder_vars
  BY DEF SendPacket, SendFrame, SendBusFrame, host_vars
<1>2. IInv'
  BY <1>1, NextControl, NextCall, NextHistory DEF StreamIInv, IInv
<1>3. Untouched'
  BY <1>1 DEF StreamIInv, Untouched, decoder_vars
<1>4. PICK st, pm, wm : DeviceInv(st, pm, wm)
  BY DEF StreamIInv, Witnessed
<1>5. StreamTypeOK' /\ \E st2, pm2, wm2 : DeviceInv(st2, pm2, wm2)'
  BY <1>4, SendPacketDevice, SendFrameDevice, SendBusFrameDevice DEF StreamIInv
<1>6. PICK st2, pm2, wm2 : DeviceInv(st2, pm2, wm2)'
  BY <1>5
<1>7. Witnessed(st2, pm2, wm2)'
  BY <1>1, <1>6 DEF Witnessed
<1> QED
  BY <1>2, <1>3, <1>5, <1>7 DEF StreamIInv

\* A step that leaves the device as it is, and reads nothing it could lose
LEMMA HostStep ==
  ASSUME StreamIInv, UNCHANGED <<fifo, wire, sent, sent_bus, lossy>>, IInv',
         fed' \in 0 .. Len(wire), fed' = 0 => Untouched',
         ~lossy => \A st, pm, wm :
           DeviceInv(st, pm, wm) /\ HostInv(st, pm, wm) => HostInv(st, pm, wm)'
  PROVE  StreamIInv'
<1>1. StreamTypeOK'
  BY DEF StreamIInv, StreamTypeOK
<1>2. CASE lossy
  <2>1. PICK st, pm, wm : DeviceInv(st, pm, wm)
    BY DEF StreamIInv, Witnessed
  <2>2. DeviceInv(st, pm, wm)'
    BY <2>1, DeviceSame
  <2>3. Witnessed(st, pm, wm)'
    BY <1>2, <2>2 DEF Witnessed
  <2> QED
    BY <1>1, <2>3 DEF StreamIInv
<1>3. CASE ~lossy
  <2>1. PICK st, pm, wm : DeviceInv(st, pm, wm) /\ HostInv(st, pm, wm)
    BY <1>3, HostAtHand
  <2>2. DeviceInv(st, pm, wm)'
    BY <2>1, DeviceSame
  <2>3. HostInv(st, pm, wm)'
    BY <1>3, <2>1
  <2>4. Witnessed(st, pm, wm)'
    BY <2>2, <2>3 DEF Witnessed
  <2> QED
    BY <1>1, <2>4 DEF StreamIInv
<1> QED
  BY <1>2, <1>3

\* A buffer read keeps the invariant, a lost one does as nothing is said of it, ...
LEMMA ReceiveStep ==
  ASSUME StreamIInv, NEW n \in Nat, Receive(n)
  PROVE  StreamIInv'
<1>1. /\ n <= Len(wire) - fed /\ fed' = fed + n
      /\ UNCHANGED <<fifo, wire, sent, sent_bus, lossy>>
      /\ Feed(SubSeq(wire, fed + 1, fed + n))
  BY DEF Receive, device_vars
<1>2. StreamTypeOK /\ IInv /\ fed \in Nat /\ Len(wire) \in Nat /\ wire \in Seq(Byte)
  <2>1. StreamTypeOK /\ IInv /\ wire \in Seq(Byte) /\ fed \in 0 .. Len(wire)
    BY DEF StreamIInv, StreamTypeOK
  <2> QED
    BY <2>1, LenProperties
<1>3. PICK chunk \in Seq(Byte) : chunk = SubSeq(wire, fed + 1, fed + n) /\ Len(chunk) = n
  BY <1>1, <1>2, ReadFromWire
<1>4. IInv'
  <2>1. Feed(chunk)
    BY <1>1, <1>3
  <2>2. ControlInv'
    BY <1>2, <2>1, FeedControl DEF IInv
  <2>3. UNCHANGED <<packet_vars, packets>>
    BY <2>1 DEF Feed
  <2>4. HistoryInv'
    BY <1>2, <2>3, OutsideHistory DEF IInv
  <2>5. CallInv'
    BY <1>2, <2>1 DEF IInv, CallInv, Feed, AtRest, frame_vars, sdram
  <2> QED
    BY <2>2, <2>4, <2>5 DEF IInv
<1>5. fed' \in 0 .. Len(wire)
  BY <1>1, <1>2
<1>6. fed' = 0 => Untouched'
  <2> SUFFICES ASSUME fed' = 0 PROVE Untouched'
    OBVIOUS
  <2>1. n = 0 /\ fed = 0
    BY <1>1, <1>2
  <2>2. chunk = << >>
    BY <1>3, <2>1, EmptySeq
  <2> QED
    BY <1>1, <1>3, <2>1, <2>2 DEF StreamIInv, Untouched, Feed
<1>7. \A st, pm, wm : DeviceInv(st, pm, wm) /\ HostInv(st, pm, wm) => HostInv(st, pm, wm)'
  BY <1>2, ReceiveHost
<1> QED
  BY <1>1, <1>4, <1>5, <1>6, <1>7, HostStep

LEMMA LoseStep ==
  ASSUME StreamIInv, NEW n \in Nat, Lose(n)
  PROVE  StreamIInv'
<1>1. /\ lossy /\ n <= Len(wire) - fed /\ fed' = fed + n
      /\ UNCHANGED <<decoder_vars, fifo, wire, sent, sent_bus, lossy>>
  BY DEF Lose, device_vars
<1>2. fed \in Nat /\ Len(wire) \in Nat
  <2>1. wire \in Seq(Byte) /\ fed \in 0 .. Len(wire)
    BY DEF StreamIInv, StreamTypeOK
  <2> QED
    BY <2>1, LenProperties
<1>3. IInv'
  BY <1>1, NextControl, NextCall, NextHistory DEF StreamIInv, IInv
<1>4. fed' \in 0 .. Len(wire)
  BY <1>1, <1>2
<1>5. fed' = 0 => Untouched'
  <2> SUFFICES ASSUME fed' = 0 PROVE Untouched'
    OBVIOUS
  <2>1. fed = 0
    BY <1>1, <1>2
  <2> QED
    BY <1>1, <2>1 DEF StreamIInv, Untouched, decoder_vars
<1> QED
  BY <1>1, <1>3, <1>4, <1>5, HostStep

\* ... and a turn of the decoder does.
LEMMA DecoderStepStep ==
  ASSUME StreamIInv, DecoderStep
  PROVE  StreamIInv'
<1>1. Step /\ UNCHANGED <<fifo, wire, sent, sent_bus, fed, lossy>>
  BY DEF DecoderStep, device_vars
<1>2. IInv'
  BY <1>1, NextControl, NextCall, NextHistory DEF StreamIInv, IInv, Next
<1>3. fed # 0
  <2> SUFFICES ASSUME fed = 0 PROVE FALSE
    OBVIOUS
  <2>1. proc = "frame" /\ pos = 0 /\ Len(buf) = 0
    BY DEF StreamIInv, Untouched
  <2> QED
    BY <1>1, <2>1 DEF Step, FrameStep, PacketStep, FrameMagic, WrongFrameMagic,
       SdramLength, SdramData, BusAddrHi, BusAddrLo, BusValue, BusChecksum,
       FrameByte, InFrame, PacketMagic, WrongPacketMagic, PacketFlags,
       PacketLengthLo, PacketLengthHi, PacketTimestamp, PacketTimestampEnd,
       PacketData, PacketDataEnd, PacketByte, InPacket, PacketReturn
<1>4. fed' \in 0 .. Len(wire) /\ (fed' = 0 => Untouched')
  BY <1>1, <1>3 DEF StreamIInv, StreamTypeOK
<1>5. \A st, pm, wm : DeviceInv(st, pm, wm) /\ HostInv(st, pm, wm) => HostInv(st, pm, wm)'
  BY StepHost DEF StreamIInv
<1> QED
  BY <1>1, <1>2, <1>4, <1>5, HostStep

LEMMA HostSame ==
  ASSUME NEW st, NEW pm, NEW wm, HostInv(st, pm, wm),
         UNCHANGED <<decoder_vars, wire, sent, sent_bus, fed>>
  PROVE  HostInv(st, pm, wm)'
<1>1. UNCHANGED <<buf, pos, proc, frame_vars, packet_vars, packets, bus_frames>>
  BY DEF decoder_vars
<1>2. PICK c \in Nat : SomeFrame(st, wm, c) /\ SomePacket(st, pm, c)
  BY DEF HostInv
<1>3. BufferInv' /\ Place' = Place
  BY <1>1 DEF HostInv, BufferInv, Place
<1>4. SomeFrame(st, wm, c)' /\ SomePacket(st, pm, c)'
  BY <1>1, <1>2, <1>3, SameFrame, OutsidePacket
<1> QED
  BY <1>2, <1>3, <1>4 DEF HostInv

\* So every step does.
LEMMA StreamStep == StreamIInv /\ [StreamNext]_vars => StreamIInv'
<1> SUFFICES ASSUME StreamIInv, [StreamNext]_vars PROVE StreamIInv'
  OBVIOUS
<1>1. CASE \/ \E k \in Kinds : SendPacket(k)
           \/ \E words \in FrameSizes : SendFrame(words)
           \/ \E b \in BusFrames : SendBusFrame(b)
  BY <1>1, DeviceStep
<1>2. CASE \E n \in ChunkSizes : Receive(n) \/ Lose(n)
  BY <1>2, SizesAssumption, ReceiveStep, LoseStep
<1>3. CASE DecoderStep
  BY <1>3, DecoderStepStep
<1>4. CASE UNCHANGED vars
  <2>1. UNCHANGED <<decoder_vars, fifo, wire, sent, sent_bus, fed, lossy>>
    BY <1>4 DEF vars, device_vars, host_vars
  <2>2. IInv'
    BY <2>1, NextControl, NextCall, NextHistory DEF StreamIInv, IInv
  <2>3. fed' \in 0 .. Len(wire)
    BY <2>1 DEF StreamIInv, StreamTypeOK
  <2>4. fed' = 0 => Untouched'
    BY <2>1 DEF StreamIInv, Untouched, decoder_vars
  <2>5. \A st, pm, wm : DeviceInv(st, pm, wm) /\ HostInv(st, pm, wm) => HostInv(st, pm, wm)'
    BY <2>1, HostSame
  <2> QED
    BY <2>1, <2>2, <2>3, <2>4, <2>5, HostStep
<1> QED
  BY <1>1, <1>2, <1>3, <1>4 DEF StreamNext

\* However the stream is cut, where the decoder is on the wire and where it is in
\* the stream agree (src/src/decoder.c:26-165).
THEOREM StreamInvariance == StreamSpec => []StreamIInv
<1>1. StreamInit => StreamIInv
  BY StreamStart
<1>2. StreamIInv /\ [StreamNext]_vars => StreamIInv'
  BY StreamStep
<1> QED
  BY <1>1, <1>2, PTL DEF StreamSpec

-----------------------------------------------------------------------------
(***************************************************************************)
(* At the end of the wire                                                  *)
(***************************************************************************)
\* Behind the end of the stream there are no packets left.
LEMMA EndOfStream ==
  ASSUME NEW st \in Seq(Byte), NEW pm, PacketMarks(st, pm),
         NEW a \in Nat, NEW i \in Nat, <<a, i>> \in pm, a >= Len(st)
  PROVE  i = Len(sent)
<1>1. PacketMark(st, pm, a, i) /\ Len(st) \in Nat
  BY LenProperties DEF PacketMarks
<1>2. ~FillerAt(st, pm, a, i)
  BY <1>1 DEF FillerAt
<1>3. ~\E k \in Kinds : PacketAt(st, pm, a, i, k)
  <2> SUFFICES ASSUME NEW k \in Kinds, PacketAt(st, pm, a, i, k) PROVE FALSE
    OBVIOUS
  <2>1. KindBytes(st, pm, a, i, k)
    BY BytesOfKind
  <2> DEFINE t == Len(k.ts)
             d == Len(k.data)
  <2>2. a + (4 + t + d) <= Len(st) /\ t \in Nat /\ d \in Nat
    BY <2>1 DEF KindBytes
  <2> HIDE DEF t, d
  <2> QED
    BY <1>1, <2>2
<1> QED
  BY <1>1, <1>2, <1>3 DEF PacketMark

LEMMA WholeOf ==
  ASSUME NEW S, NEW seq \in Seq(S)
  PROVE  SubSeq(seq, 1, Len(seq)) = seq
<1>1. Len(seq) \in Nat /\ \A i \in 1 .. Len(seq) : seq[i] \in S
  BY LenProperties, ElementOfSeq
<1> DEFINE whole == SubSeq(seq, 1, Len(seq))
<1>2. whole \in Seq(S) /\ Len(whole) = Len(seq) /\ \A i \in 1 .. Len(seq) : whole[i] = seq[i]
  BY <1>1, SubSeqProperties
<1> HIDE DEF whole
<1>3. whole = seq
  BY <1>2, SeqEqual
<1> QED
  BY <1>3 DEF whole

\* When the wire is decoded to its end, the stream is.
LEMMA EndOfWire ==
  ASSUME StreamIInv, NEW st, NEW pm, NEW wm, DeviceInv(st, pm, wm), BufferInv,
         NEW c \in Nat, SomeFrame(st, wm, c), AtRest, fed = Len(wire), fifo = << >>
  PROVE  bus_frames = sent_bus /\ c = Len(st)
<1>1. /\ TypeOK /\ ReadsWithinFrame /\ wire \in Seq(Byte) /\ Len(wire) \in Nat
      /\ sent_bus \in Seq(BusFrame) /\ st \in Seq(Byte) /\ Len(st) \in Nat
      /\ buf \in Seq(Byte) /\ Len(buf) \in Nat /\ frame_left \in Int /\ CallInv
  BY LenProperties DEF StreamIInv, IInv, ControlInv, StreamTypeOK, DeviceInv, TypeOK
<1>2. proc = "frame" /\ Place = Len(wire)
  <2>1. proc # "error"
    BY DEF SomeFrame, AtFrame, InSdramFrame
  <2> QED
    BY <1>1, <2>1 DEF AtRest, Place
<1>3. PICK f \in Nat, b \in Nat, s \in Nat : <<f, b, s>> \in wm /\ AtFrame(st, wm, f, b, s, c)
  BY DEF SomeFrame
<1>4. ~(BusAt(wm, f, b, s) /\ InBusFrame(f))
  BY <1>1, <1>2, SMTT(30) DEF BusAt, InBusFrame
<1>5. ASSUME SdramAt(st, wm, f, b, s) PROVE FrameLength(f) \in Nat
  <2>1. f + 2 \in 1 .. Len(wire)
    BY <1>1, <1>5 DEF SdramAt
  <2>2. wire[f + 2] \in Byte
    BY <1>1, <2>1, ElementOfSeq
  <2> QED
    BY <2>2, ByteBound DEF FrameLength
<1>6. ~(SdramAt(st, wm, f, b, s) /\ InSdramFrame(f, s, c))
  <2> SUFFICES ASSUME SdramAt(st, wm, f, b, s), InSdramFrame(f, s, c) PROVE FALSE
    OBVIOUS
  <2> DEFINE n == FrameLength(f)
  <2>1. n \in Nat /\ f + 2 + n <= Len(wire)
    BY <1>5 DEF SdramAt
  <2>2. CASE frame_state = "SDRAM_LENGTH" /\ Place = f + 1
    BY <1>1, <1>2, <2>1, <2>2, SMTT(30)
  <2>3. CASE frame_state = "SDRAM_DATA" /\ ~frame_failed /\ Place + frame_left = f + 2 + n
    <3>1. frame_left > 0
      BY <1>1, <1>2, <2>3 DEF ReadsWithinFrame, CallInv
    <3> HIDE DEF n
    <3> QED
      BY <1>1, <1>2, <2>1, <2>3, <3>1
  <2> QED
    BY <2>2, <2>3 DEF InSdramFrame
<1>7. Place = f /\ c = s /\ bus_frames = SubSeq(sent_bus, 1, b)
  BY <1>3, <1>4, <1>6 DEF AtFrame
<1>8. FrameMark(st, wm, f, b, s)
  BY <1>3 DEF DeviceInv, FrameMarks
<1>9. ~BusAt(wm, f, b, s) /\ ~SdramAt(st, wm, f, b, s)
  BY <1>1, <1>2, <1>7 DEF BusAt, SdramAt
<1>10. b = Len(sent_bus) /\ s = Len(st)
  <2>1. b = Len(sent_bus) /\ s = Len(st) - Len(fifo) /\ Len(fifo) = 0
    BY <1>8, <1>9 DEF FrameMark
  <2> QED
    BY <1>1, <2>1
<1> QED
  BY <1>1, <1>7, <1>10, WholeOf

\* A packet the decoder is in at the end of the stream has no data, and is the last.
LEMMA EndOfPackets ==
  ASSUME StreamIInv, NEW st, NEW pm, NEW wm, DeviceInv(st, pm, wm),
         NEW c \in Nat, SomePacket(st, pm, c), c = Len(st)
  PROVE  \/ packets = sent
         \/ packets = SubSeq(sent, 1, Len(sent) - 1) /\ sent[Len(sent)].data = << >>
<1>1. /\ TypeOK /\ TimestampFits /\ st \in Seq(Byte) /\ PacketMarks(st, pm)
      /\ sent \in Seq(UsbPacket) /\ Len(sent) \in Nat /\ Len(st) \in Nat
  BY LenProperties DEF StreamIInv, IInv, ControlInv, StreamTypeOK, DeviceInv
<1>2. PICK a \in Nat, i \in Nat : <<a, i>> \in pm /\ AtPacket(st, pm, a, i, c)
  BY DEF SomePacket
<1>3. packets = SubSeq(sent, 1, i)
  BY <1>2 DEF AtPacket
<1>4. CASE packet_state = "MAGIC" /\ c = a
  <2>1. a >= Len(st)
    BY <1>1, <1>4
  <2>2. i = Len(sent)
    BY <1>1, <1>2, <2>1, EndOfStream
  <2> QED
    BY <1>1, <1>3, <2>2, WholeOf
<1>5. CASE \E k \in Kinds : InKind(st, pm, a, i, c, k)
  <2>1. PICK k \in Kinds : InKind(st, pm, a, i, c, k)
    BY <1>5
  <2>2. PICK o \in Nat : c = a + o /\ (InHeader(k, o) \/ InData(k, o))
    BY <2>1 DEF InKind
  <2> DEFINE t == Len(k.ts)
             d == Len(k.data)
  <2>3. KindBytes(st, pm, a, i, k)
    BY <2>1, BytesOfKind DEF InKind
  <2>4. /\ a + (4 + t + d) <= Len(st) /\ t \in Nat /\ d \in Nat
        /\ <<a + (4 + t + d), i + 1>> \in pm
    BY <2>3 DEF KindBytes
  <2>5. ~InHeader(k, o)
    <3> SUFFICES ASSUME InHeader(k, o) PROVE FALSE
      OBVIOUS
    <3>1. o < 4 \/ (o = 4 + ts_byte /\ ts_byte < t /\ ts_byte \in Nat)
      BY <1>1 DEF InHeader, TimestampFits, TypeOK
    <3> HIDE DEF t, d
    <3> QED
      BY <1>1, <2>2, <2>4, <3>1
  <2>6. d = 0
    <3>1. /\ o = 4 + t + buf_actual_length /\ buf_actual_length \in Nat
          /\ buf_actual_length < d \/ (buf_actual_length = 0 /\ d = 0)
      BY <1>1, <2>2, <2>5 DEF InData, TypeOK
    <3> HIDE DEF t, d
    <3> QED
      BY <1>1, <2>2, <2>4, <3>1
  <2>7. i + 1 = Len(sent)
    <3>1. PICK a2 \in Nat, i2 \in Nat :
            a2 = a + (4 + t + d) /\ i2 = i + 1 /\ <<a2, i2>> \in pm
      BY <1>1, <2>4 DEF PacketMarks
    <3>2. a2 >= Len(st)
      <4>1. InData(k, o)
        BY <2>2, <2>5
      <4>2. o = 4 + t + buf_actual_length /\ buf_actual_length = 0
        BY <1>1, <2>6, <4>1 DEF InData, TypeOK
      <4> HIDE DEF t, d
      <4> QED
        BY <1>1, <2>2, <2>4, <2>6, <3>1, <4>2
    <3> QED
      BY <1>1, <3>1, <3>2, EndOfStream
  <2>8. sent[Len(sent)].data = << >>
    <3>1. k.data = << >>
      <4>1. k.data \in Seq(Byte)
        BY KindsAssumption
      <4> QED
        BY <2>6, <4>1, EmptySeq
    <3>2. sent[i + 1].data = k.data
      BY <2>1 DEF InKind, PacketAt
    <3> QED
      BY <2>7, <3>1, <3>2
  <2>9. i = Len(sent) - 1
    BY <1>1, <2>7
  <2> QED
    BY <1>3, <2>8, <2>9
<1> QED
  BY <1>2, <1>4, <1>5 DEF AtPacket

\* A stream that loses nothing is never rejected, however it is cut into frames and
\* buffers, and when its end has been decoded everything was passed on, but for a
\* packet without data at the very end (src/src/decoder.c:26-165).
THEOREM NothingHeldBackCorrect == StreamSpec => []NothingHeldBack
<1>1. StreamIInv => NothingHeldBack
  <2> SUFFICES ASSUME StreamIInv, ~lossy
               PROVE  /\ proc # "error"
                      /\ AtRest /\ fed = Len(wire) /\ fifo = << >> =>
                           /\ bus_frames = sent_bus
                           /\ \/ packets = sent
                              \/ /\ packets = SubSeq(sent, 1, Len(sent) - 1)
                                 /\ sent[Len(sent)].data = << >>
    BY DEF NothingHeldBack
  <2>1. PICK st, pm, wm : DeviceInv(st, pm, wm) /\ HostInv(st, pm, wm)
    BY HostAtHand
  <2>2. PICK c \in Nat : SomeFrame(st, wm, c) /\ SomePacket(st, pm, c)
    BY <2>1 DEF HostInv
  <2>3. proc # "error"
    BY <2>2 DEF SomeFrame, AtFrame, InSdramFrame
  <2>4. ASSUME AtRest, fed = Len(wire), fifo = << >>
        PROVE  /\ bus_frames = sent_bus
               /\ \/ packets = sent
                  \/ /\ packets = SubSeq(sent, 1, Len(sent) - 1)
                     /\ sent[Len(sent)].data = << >>
    <3>1. bus_frames = sent_bus /\ c = Len(st)
      BY <2>1, <2>2, <2>4, EndOfWire DEF HostInv
    <3> QED
      BY <2>1, <2>2, <3>1, EndOfPackets
  <2> QED
    BY <2>3, <2>4
<1> QED
  BY <1>1, StreamInvariance, PTL

\* Nor does it leave its bounds when it is out of step after a loss or goes on after a
\* call that failed, and its clock does not go back before it passes its 64 bits
\* (src/src/decoder.c:31-92, 130-145).
THEOREM StreamBoundsCorrect == StreamSpec => [](WithinBounds /\ TimestampsOrdered)
<1>1. StreamIInv => WithinBounds /\ TimestampsOrdered
  BY IInvWritesWithinPacket DEF StreamIInv, IInv, ControlInv, HistoryInv, OffsetInv,
     WithinBounds, DecoderAssertion
<1> QED
  BY <1>1, StreamInvariance, PTL

-----------------------------------------------------------------------------
(***************************************************************************)
(* A stream that loses nothing implements OrderedDelivery                  *)
(***************************************************************************)
\* What was passed on is the beginning of what was sent.
Begins(some, all) ==
  \E n \in Nat : n <= Len(all) /\ some = SubSeq(all, 1, n) /\ Len(some) = n

\* Sending lengthens what is left to deliver, ...
LEMMA RestGrows ==
  ASSUME NEW S, NEW all \in Seq(S), NEW e \in S, NEW n \in Nat, n <= Len(all),
         NEW more, more = Append(all, e)
  PROVE  /\ Len(SubSeq(more, n + 1, Len(more))) = Len(SubSeq(all, n + 1, Len(all))) + 1
         /\ SubSeq(SubSeq(more, n + 1, Len(more)), 1, Len(SubSeq(all, n + 1, Len(all))))
              = SubSeq(all, n + 1, Len(all))
<1> DEFINE r == SubSeq(all, n + 1, Len(all))
           q == SubSeq(more, n + 1, Len(more))
<1>1. /\ more \in Seq(S) /\ Len(more) = Len(all) + 1 /\ Len(all) \in Nat
      /\ \A i \in 1 .. Len(all) : more[i] = all[i]
  BY AppendProperties, LenProperties
<1>2. r \in Seq(S) /\ Len(r) = Len(all) - n /\ \A j \in 1 .. Len(all) - n : r[j] = all[n + j]
  BY RestOf
<1>3. /\ q \in Seq(S) /\ Len(q) = Len(more) - n
      /\ \A j \in 1 .. Len(more) - n : q[j] = more[n + j]
  <2>1. n <= Len(more)
    BY <1>1
  <2> QED
    BY <1>1, <2>1, RestOf
<1> HIDE DEF r, q
<1>4. Len(r) \in Nat /\ Len(q) = Len(r) + 1
  BY <1>1, <1>2, <1>3
<1> DEFINE p == SubSeq(q, 1, Len(r))
<1>5. p \in Seq(S) /\ Len(p) = Len(r) /\ \A j \in 1 .. Len(r) : p[j] = q[j]
  <2>1. Len(r) <= Len(q)
    BY <1>4
  <2> QED
    BY <1>3, <1>4, <2>1, BeginningOf
<1> HIDE DEF p
<1>6. ASSUME NEW j \in 1 .. Len(r) PROVE p[j] = r[j]
  <2>1. /\ j \in 1 .. Len(all) - n /\ j \in 1 .. Len(more) - n /\ n + j \in 1 .. Len(all)
    BY <1>1, <1>2
  <2> QED
    BY <1>1, <1>2, <1>3, <1>5, <2>1
<1>7. p = r
  BY <1>2, <1>5, <1>6, SeqEqual
<1> QED
  BY <1>4, <1>7 DEF p, q, r

\* ... and delivering takes its first.
LEMMA RestShrinks ==
  ASSUME NEW S, NEW all \in Seq(S), NEW n \in Nat, n < Len(all)
  PROVE  /\ SubSeq(all, n + 1, Len(all)) # << >>
         /\ SubSeq(all, 1, n + 1)
              = Append(SubSeq(all, 1, n), Head(SubSeq(all, n + 1, Len(all))))
         /\ SubSeq(all, (n + 1) + 1, Len(all)) = Tail(SubSeq(all, n + 1, Len(all)))
<1> DEFINE r == SubSeq(all, n + 1, Len(all))
           q == SubSeq(all, (n + 1) + 1, Len(all))
<1>1. Len(all) \in Nat /\ n + 1 \in Nat /\ n + 1 <= Len(all)
  BY LenProperties
<1>2. r \in Seq(S) /\ Len(r) = Len(all) - n /\ \A j \in 1 .. Len(all) - n : r[j] = all[n + j]
  BY <1>1, RestOf
<1>3. /\ q \in Seq(S) /\ Len(q) = Len(all) - (n + 1)
      /\ \A j \in 1 .. Len(all) - (n + 1) : q[j] = all[(n + 1) + j]
  BY <1>1, RestOf
<1> HIDE DEF r, q
<1>4. r # << >> /\ Len(r) \in Nat /\ 1 \in 1 .. Len(all) - n
  <2>1. Len(r) # 0 /\ Len(r) \in Nat /\ 1 \in 1 .. Len(all) - n
    BY <1>1, <1>2
  <2> QED
    BY <2>1, EmptySeq
<1>5. Head(r) = all[n + 1]
  BY <1>2, <1>4
<1>6. /\ Tail(r) \in Seq(S) /\ Len(Tail(r)) = Len(r) - 1
      /\ \A j \in 1 .. Len(Tail(r)) : Tail(r)[j] = r[j + 1]
  BY <1>2, <1>4, HeadTailProperties
<1>7. Tail(r) = q
  <2>1. Len(Tail(r)) = Len(q)
    BY <1>1, <1>2, <1>3, <1>6
  <2>2. ASSUME NEW j \in 1 .. Len(q) PROVE Tail(r)[j] = q[j]
    <3>1. /\ j + 1 \in 1 .. Len(all) - n /\ j \in 1 .. Len(all) - (n + 1)
          /\ n + (j + 1) = (n + 1) + j /\ j \in 1 .. Len(Tail(r))
      BY <1>1, <1>3, <2>1
    <3> QED
      BY <1>2, <1>3, <1>6, <3>1
  <2> QED
    BY <1>3, <1>6, <2>1, <2>2, SeqEqual
<1>8. Append(SubSeq(all, 1, n), all[n + 1]) = SubSeq(all, 1, n + 1)
  BY AppendNext
<1> QED
  BY <1>4, <1>5, <1>7, <1>8 DEF r, q

\* The invariant says so, ...
LEMMA BeginsSent ==
  StreamIInv /\ ~lossy => Begins(packets, sent) /\ Begins(bus_frames, sent_bus)
<1> SUFFICES ASSUME StreamIInv, ~lossy
             PROVE  Begins(packets, sent) /\ Begins(bus_frames, sent_bus)
  OBVIOUS
<1>1. PICK st, pm, wm : HostInv(st, pm, wm)
  BY HostAtHand
<1>2. PICK c \in Nat : SomeFrame(st, wm, c) /\ SomePacket(st, pm, c)
  BY <1>1 DEF HostInv
<1>3. sent \in Seq(UsbPacket) /\ sent_bus \in Seq(BusFrame)
  BY DEF StreamIInv, StreamTypeOK
<1>4. PICK i \in Nat : packets = SubSeq(sent, 1, i) /\ i <= Len(sent)
  BY <1>2 DEF SomePacket, AtPacket
<1>5. PICK b \in Nat : bus_frames = SubSeq(sent_bus, 1, b) /\ b <= Len(sent_bus)
  BY <1>2 DEF SomeFrame, AtFrame
<1>6. Len(packets) = i /\ Len(bus_frames) = b
  BY <1>3, <1>4, <1>5, BeginningOf
<1> QED
  BY <1>4, <1>5, <1>6 DEF Begins

\* ... behind a step, too.
LEMMA BeginsSentNext ==
  StreamIInv' /\ ~lossy' => Begins(packets, sent)' /\ Begins(bus_frames, sent_bus)'
BY BeginsSent, PTL

\* One packet, or one bus frame, is passed on at a time.
LEMMA OnePacket ==
  ASSUME StreamIInv, PacketDataEnd
  PROVE  Len(packets') = Len(packets) + 1
<1>1. ControlInv /\ packets \in Seq(UsbPacket) /\ InPacket("DATA")
  BY DEF StreamIInv, IInv, HistoryInv, PacketsInv, PacketDataEnd
<1>2. CopiedData \in Seq(Byte)
  BY <1>1, CopiedDataType
<1>3. [magic |-> magic, flags |-> flags, size |-> size,
       timestamp |-> timestamp, data |-> CopiedData] \in UsbPacket
  BY <1>1, <1>2 DEF UsbPacket, ControlInv, TypeOK
<1>4. packets' = Append(packets, [magic |-> magic, flags |-> flags, size |-> size,
                                  timestamp |-> timestamp, data |-> CopiedData])
  BY DEF PacketDataEnd
<1> QED
  BY <1>1, <1>3, <1>4, AppendProperties

LEMMA OneBusFrame ==
  ASSUME StreamIInv, ~lossy, BusChecksum
  PROVE  Len(bus_frames') = Len(bus_frames) + 1
<1>1. sent_bus \in Seq(BusFrame) /\ Begins(bus_frames, sent_bus)
  BY BeginsSent DEF StreamIInv, StreamTypeOK
<1>2. bus_frames \in Seq(BusFrame)
  <2>1. PICK n \in Nat : n <= Len(sent_bus) /\ bus_frames = SubSeq(sent_bus, 1, n)
    BY <1>1, Zenon DEF Begins
  <2>2. SubSeq(sent_bus, 1, n) \in Seq(BusFrame)
    BY <1>1, <2>1, BeginningOf, ZenonT(40)
  <2> QED
    BY <2>1, <2>2, Zenon
<1>3. addr \in Address /\ value \in Byte
  <2>1. TypeOK
    BY Zenon DEF StreamIInv, IInv, ControlInv
  <2>2. addr \in Nat /\ value \in Byte
    BY <2>1, SMT DEF TypeOK
  <2>3. addr <= MaxAddress
    BY <2>1, SMT DEF TypeOK, MaxAddress
  <2> QED
    BY <2>2, <2>3, AddressRange, Zenon
<1>4. [addr |-> addr, value |-> value] \in BusFrame
  BY <1>3 DEF BusFrame
<1>5. bus_frames' = Append(bus_frames, [addr |-> addr, value |-> value])
  BY DEF BusChecksum
<1> QED
  BY <1>2, <1>4, <1>5, AppendProperties

\* What a step does to what was sent and what was passed on
Sending(all, some, S) ==
  (\E e \in S : all' = Append(all, e)) /\ UNCHANGED <<some, lossy>>
Passing(all, some) == Len(some') = Len(some) + 1 /\ UNCHANGED <<all, lossy>>

\* Each step sends a packet, passes one on or does neither, ...
LEMMA PacketsMove ==
  ASSUME StreamIInv, [StreamNext]_vars
  PROVE  \/ Sending(sent, packets, UsbPacket) \/ Passing(sent, packets)
         \/ UNCHANGED <<sent, packets, lossy>>
<1>1. CASE \E k \in Kinds : SendPacket(k)
  <2>1. PICK k \in Kinds : SendPacket(k)
    BY <1>1
  <2>2. Sent(k) \in UsbPacket
    BY SentType DEF StreamIInv, StreamTypeOK
  <2>3. sent' = Append(sent, Sent(k)) /\ UNCHANGED <<packets, lossy>>
    BY <2>1 DEF SendPacket, Sent, decoder_vars, host_vars
  <2> QED
    BY <2>2, <2>3 DEF Sending
<1>2. CASE \/ \E words \in FrameSizes : SendFrame(words)
           \/ \E b \in BusFrames : SendBusFrame(b)
           \/ \E n \in ChunkSizes : Receive(n) \/ Lose(n)
           \/ UNCHANGED vars
  BY <1>2, ZenonT(40) DEF SendFrame, SendBusFrame, Receive, Feed, Lose, vars, decoder_vars,
     device_vars, host_vars
<1>3. CASE DecoderStep
  <2>1. Step /\ UNCHANGED <<sent, lossy>>
    BY <1>3 DEF DecoderStep, device_vars, host_vars
  <2>2. CASE PacketDataEnd
    BY <2>1, <2>2, OnePacket DEF Passing
  <2>3. CASE ~PacketDataEnd
    <3>1. UNCHANGED packets
      BY <2>1, <2>3 DEF Step, FrameStep, PacketStep, FrameMagic, WrongFrameMagic,
         SdramLength, SdramData, BusAddrHi, BusAddrLo, BusValue, BusChecksum, FrameByte,
         PacketMagic, WrongPacketMagic, PacketFlags, PacketLengthLo, PacketLengthHi,
         PacketTimestamp, PacketTimestampEnd, PacketData, PacketByte, PacketReturn
    <3> QED
      BY <2>1, <3>1
  <2> QED
    BY <2>2, <2>3
<1> QED
  BY <1>1, <1>2, <1>3 DEF StreamNext

\* ... and the same of bus frames.
LEMMA BusMove ==
  ASSUME StreamIInv, [StreamNext]_vars, ~lossy
  PROVE  \/ Sending(sent_bus, bus_frames, BusFrame) \/ Passing(sent_bus, bus_frames)
         \/ UNCHANGED <<sent_bus, bus_frames, lossy>>
<1>1. CASE \E b \in BusFrames : SendBusFrame(b)
  <2>1. PICK b \in BusFrames : SendBusFrame(b)
    BY <1>1
  <2>2. b \in BusFrame
    BY BusFramesAssumption DEF BusFrame
  <2>3. sent_bus' = Append(sent_bus, b) /\ UNCHANGED <<bus_frames, lossy>>
    BY <2>1 DEF SendBusFrame, decoder_vars, host_vars
  <2> QED
    BY <2>2, <2>3 DEF Sending
<1>2. CASE \/ \E words \in FrameSizes : SendFrame(words)
           \/ \E k \in Kinds : SendPacket(k)
           \/ \E n \in ChunkSizes : Receive(n) \/ Lose(n)
           \/ UNCHANGED vars
  BY <1>2 DEF SendFrame, SendPacket, Receive, Feed, Lose, vars, decoder_vars,
     device_vars, host_vars
<1>3. CASE DecoderStep
  <2>1. Step /\ UNCHANGED <<sent_bus, lossy>>
    BY <1>3 DEF DecoderStep, device_vars, host_vars
  <2>2. CASE BusChecksum
    BY <2>1, <2>2, OneBusFrame DEF Passing
  <2>3. CASE ~BusChecksum
    <3>1. UNCHANGED bus_frames
      BY <2>1, <2>3 DEF Step, FrameStep, PacketStep, FrameMagic, WrongFrameMagic,
         SdramLength, SdramData, BusAddrHi, BusAddrLo, BusValue, Consume,
         PacketMagic, WrongPacketMagic, PacketFlags, PacketLengthLo, PacketLengthHi,
         PacketTimestamp, PacketTimestampEnd, PacketData, PacketDataEnd, PacketByte,
         PacketReturn
    <3> QED
      BY <2>1, <3>1
  <2> QED
    BY <2>2, <2>3
<1> QED
  BY <1>1, <1>2, <1>3 DEF StreamNext

\* To send is to produce, ...
LEMMA SendingProduces ==
  ASSUME NEW S, NEW all \in Seq(S), NEW more, NEW some, Begins(some, all),
         \E e \in S : more = Append(all, e)
  PROVE  LET left == SubSeq(all, Len(some) + 1, Len(all))
             left2 == SubSeq(more, Len(some) + 1, Len(more))
         IN  Len(left2) = Len(left) + 1 /\ SubSeq(left2, 1, Len(left)) = left
<1>1. PICK n \in Nat : n <= Len(all) /\ Len(some) = n
  BY DEF Begins
<1>2. PICK e \in S : more = Append(all, e)
  OBVIOUS
<1> QED
  BY <1>1, <1>2, RestGrows

\* ... to pass on is to deliver.
LEMMA PassingDelivers ==
  ASSUME NEW S, NEW all \in Seq(S), NEW some, NEW longer, Begins(some, all),
         Begins(longer, all), Len(longer) = Len(some) + 1
  PROVE  LET left == SubSeq(all, Len(some) + 1, Len(all))
         IN  /\ left # << >> /\ longer = Append(some, Head(left))
             /\ SubSeq(all, Len(longer) + 1, Len(all)) = Tail(left)
<1>1. PICK n \in Nat : n < Len(all) /\ Len(some) = n /\ some = SubSeq(all, 1, n)
                       /\ longer = SubSeq(all, 1, n + 1) /\ Len(longer) = n + 1
  <2>1. Len(all) \in Nat
    BY LenProperties
  <2> QED
    BY <2>1 DEF Begins
<1> QED
  BY <1>1, RestShrinks

LEMMA LossyStays ==
  ASSUME StreamIInv, [StreamNext]_vars
  PROVE  UNCHANGED lossy
BY PacketsMove DEF Sending, Passing

\* Every step is one of OrderedDelivery, or changes nothing there: of the packets, ...
LEMMA PacketsStep ==
  ASSUME StreamIInv, StreamIInv', [StreamNext]_vars
  PROVE  [Packets!Next]_<<Rest(sent, packets), Taken(packets)>>
<1>1. CASE lossy
  <2>1. lossy'
    BY <1>1, LossyStays
  <2> QED
    BY <1>1, <2>1 DEF Rest, Taken
<1>2. CASE ~lossy
  <2>1. /\ ~lossy' /\ sent \in Seq(UsbPacket)
        /\ Begins(packets, sent) /\ Begins(packets, sent)'
    <3>1. ~lossy'
      BY <1>2, LossyStays
    <3>2. Begins(packets, sent)'
      BY <3>1, BeginsSentNext
    <3> QED
      BY <1>2, <3>1, <3>2, BeginsSent DEF StreamIInv, StreamTypeOK
  <2>2. CASE Sending(sent, packets, UsbPacket)
    <3>1. Packets!Produce
      BY <1>2, <2>1, <2>2, SendingProduces, SMTT(30) DEF Sending, Packets!Produce, Rest, Taken
    <3> QED
      BY <3>1 DEF Packets!Next
  <2>3. CASE Passing(sent, packets)
    <3>1. sent' = sent /\ Begins(packets', sent) /\ Len(packets') = Len(packets) + 1
      BY <2>1, <2>3 DEF Passing, Begins
    <3>2. Packets!Deliver
      BY <1>2, <2>1, <3>1, PassingDelivers DEF Packets!Deliver, Rest, Taken
    <3> QED
      BY <3>2 DEF Packets!Next
  <2>4. CASE UNCHANGED <<sent, packets, lossy>>
    BY <2>4 DEF Rest, Taken
  <2> QED
    BY <2>2, <2>3, <2>4, PacketsMove
<1> QED
  BY <1>1, <1>2

\* ... and of the bus frames.
LEMMA BusStep ==
  ASSUME StreamIInv, StreamIInv', [StreamNext]_vars
  PROVE  [Bus!Next]_<<Rest(sent_bus, bus_frames), Taken(bus_frames)>>
<1>1. CASE lossy
  <2>1. lossy'
    BY <1>1, LossyStays
  <2> QED
    BY <1>1, <2>1 DEF Rest, Taken
<1>2. CASE ~lossy
  <2>1. /\ ~lossy' /\ sent_bus \in Seq(BusFrame)
        /\ Begins(bus_frames, sent_bus) /\ Begins(bus_frames, sent_bus)'
    <3>1. ~lossy'
      BY <1>2, LossyStays
    <3>2. Begins(bus_frames, sent_bus)'
      BY <3>1, BeginsSentNext
    <3> QED
      BY <1>2, <3>1, <3>2, BeginsSent DEF StreamIInv, StreamTypeOK
  <2>2. CASE Sending(sent_bus, bus_frames, BusFrame)
    <3>1. Bus!Produce
      BY <1>2, <2>1, <2>2, SendingProduces, SMTT(30) DEF Sending, Bus!Produce, Rest, Taken
    <3> QED
      BY <3>1 DEF Bus!Next
  <2>3. CASE Passing(sent_bus, bus_frames)
    <3>1. /\ sent_bus' = sent_bus /\ Begins(bus_frames', sent_bus)
          /\ Len(bus_frames') = Len(bus_frames) + 1
      BY <2>1, <2>3 DEF Passing, Begins
    <3>2. Bus!Deliver
      BY <1>2, <2>1, <3>1, PassingDelivers DEF Bus!Deliver, Rest, Taken
    <3> QED
      BY <3>2 DEF Bus!Next
  <2>4. CASE UNCHANGED <<sent_bus, bus_frames, lossy>>
    BY <2>4 DEF Rest, Taken
  <2> QED
    BY <1>2, <2>2, <2>3, <2>4, BusMove
<1> QED
  BY <1>1, <1>2

\* Packets and bus frames come out of a stream that loses nothing as from a queue:
\* those sent, in the order in which they were sent, none skipped or repeated, with
\* their contents and absolute timestamps, and however the device and the host have
\* cut the stream (src/src/decoder.c:26-165).
THEOREM OrderedDeliveredCorrect == StreamSpec => OrderedDelivered
<1>1. StreamInit => Packets!Init /\ Bus!Init
  BY DEF StreamInit, Init, InitPacketDecoder, Packets!Init, Bus!Init, Rest, Taken
<1>2. StreamIInv /\ StreamIInv' /\ [StreamNext]_vars
        => /\ [Packets!Next]_<<Rest(sent, packets), Taken(packets)>>
           /\ [Bus!Next]_<<Rest(sent_bus, bus_frames), Taken(bus_frames)>>
  BY PacketsStep, BusStep
<1> QED
  BY <1>1, <1>2, StreamInvariance, PTL
     DEF StreamSpec, OrderedDelivered, Packets!Spec, Bus!Spec
=============================================================================
