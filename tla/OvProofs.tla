------------------------------ MODULE OvProofs ------------------------------
(***************************************************************************)
(* Theorems about src/ov.c: FirmwareUpload, for bitstreams of any number   *)
(* of blocks and any number of loads, and Lifetime, for any number of      *)
(* calls and any step of each that fails.                                  *)
(***************************************************************************)
EXTENDS FirmwareUpload, Lifetime, SequenceTheorems, TLAPS

-----------------------------------------------------------------------------
(***************************************************************************)
(* FirmwareUpload.                                                         *)
(***************************************************************************)

\* Where bit_load_firmware() is, what the last transfer has and what has arrived
Uploading ==
  /\ pc = "upload" \/ pc = "probe" => received = << >>
  /\ pc = "fill" =>
       /\ tc = "NULL" => filled = 0 /\ Len(received) = 0
       /\ tc = "pending" => tc_block = filled /\ Len(received) = filled - 1
       /\ tc = "done" => Len(received) = filled
  /\ pc = "wait" =>
       /\ tc # "NULL" /\ buf[bidx] = filled
       /\ tc = "pending" => tc_block = filled - 1 /\ Len(received) = filled - 2
       /\ tc = "done" => Len(received) = filled - 1
  /\ pc = "submit" => buf[bidx] = filled /\ Len(received) = filled - 1

\* The transfer in flight has the other buffer.
OtherBuffer == tc = "pending" => tc_buf # bidx

ArrivedInv == Uploading /\ OtherBuffer /\ BufferStable /\ InOrder /\ NoDanglingTransfer

\* The mode of channel A while a load goes on
ModeInv ==
  /\ pc = "config" => switching = "none"
  /\ pc \in {"sync", "abort sync"} \cup Returned /\ switching = "ok" => mode = "fifo"

\* No answer is outstanding unless one was late, and DONE has been seen high.
DoneInv ==
  /\ late = 0 => answers = << >>
  /\ pc = "poll" => Len(received) = NBlocks
  /\ SuccessMeansConfigured

-----------------------------------------------------------------------------
\* What a read of the pins returns and leaves behind
LEMMA GetHighFacts ==
  ASSUME status \in 0 .. 1, answers \in Seq(0 .. 1), late \in Nat,
         NEW level \in 0 .. 1, GetHigh(level)
  PROVE  /\ status' \in 0 .. 1 /\ answers' \in Seq(0 .. 1) /\ late' \in Nat
         /\ (late = 0 => answers = << >>) /\ late' = 0 =>
              late = 0 /\ answers' = << >> /\ status' = level
<1> DEFINE all == Append(answers, level)
<1>1. /\ all \in Seq(0 .. 1) /\ all # << >> /\ Len(all) = Len(answers) + 1
      /\ Len(answers) \in Nat
  BY AppendProperties, LenProperties
<1>2. Head(all) \in 0 .. 1 /\ Tail(all) \in Seq(0 .. 1)
  BY <1>1, HeadTailProperties
<1>3. CASE status' = Head(all) /\ answers' = Tail(all) /\ UNCHANGED late
  <2>1. ASSUME answers = << >>
        PROVE  Tail(all) = << >> /\ Head(all) = level
    <3>1. all[1] = level /\ Len(all) = 1
      BY <2>1, <1>1, AppendProperties, EmptySeq
    <3>2. Len(Tail(all)) = 0
      BY <1>1, <3>1, HeadTailProperties
    <3> QED
      BY <1>2, <3>1, <3>2, EmptySeq, HeadTailProperties
  <2> QED
    BY <1>2, <1>3, <2>1
<1>4. CASE /\ late < MaxLate /\ late' = late + 1
           /\ answers' = all /\ UNCHANGED status
  BY <1>1, <1>4
<1> QED
  BY <1>3, <1>4 DEF GetHigh

LEMMA GetHighFailsFacts ==
  ASSUME status \in 0 .. 1, answers \in Seq(0 .. 1), late \in Nat,
         NEW level \in 0 .. 1, GetHighFails(level)
  PROVE  /\ status' \in 0 .. 1 /\ answers' \in Seq(0 .. 1) /\ late' \in Nat
         /\ (late = 0 => answers = << >>) /\ late' = 0 => answers' = << >>
<1>1. Append(answers, level) \in Seq(0 .. 1)
  BY AppendProperties
<1> QED
  BY <1>1 DEF GetHighFails

LEMMA ReceivedTypes ==
  ASSUME received \in Seq(Nat), NEW block \in Nat
  PROVE  /\ Append(received, block) \in Seq(Nat) /\ << >> \in Seq(Nat)
         /\ Len(received) \in Nat /\ Len(Append(received, block)) = Len(received) + 1
         /\ \A i \in 1 .. Len(received) : Append(received, block)[i] = received[i]
         /\ Append(received, block)[Len(received) + 1] = block
BY AppendProperties, LenProperties, EmptySeq

\* Every step keeps the types.
LEMMA TypeInductive == TypeOK /\ [Next]_vars => TypeOK'
<1> SUFFICES ASSUME TypeOK, [Next]_vars PROVE TypeOK'
  OBVIOUS
<1> USE DEF TypeOK, Returned
<1>1. CASE Load
  <2>1. /\ pc' \in {"config", "failed"} /\ switching' = "none" /\ loads' = loads + 1
        /\ mode' = mode /\ UNCHANGED <<filled, buf, bidx, tc, tc_buf, tc_block>>
        /\ UNCHANGED <<try, status, answers, late, received, done>>
    BY <1>1 DEF Load, transfer, polling, fpga
  <2>2. loads' \in Nat
    <3>1. loads \in Nat
      BY DEF TypeOK
    <3>2. loads' = loads + 1
      BY <2>1
    <3> HIDE DEF TypeOK
    <3> QED
      BY <3>1, <3>2
  <2> QED
    BY <2>1, <2>2
<1>2. CASE SwitchConfig
  BY <1>2 DEF SwitchConfig, transfer, polling, fpga, channelA, Switched, SwitchFails
<1>3. CASE ProgramPulse
  BY <1>3, EmptySeq DEF ProgramPulse, transfer, polling, fpga, channelA
<1>4. CASE Probe
  <2>1. GetHigh(done) /\ done \in 0 .. 1
    BY <1>4 DEF Probe
  <2>2. status' \in 0 .. 1 /\ answers' \in Seq(0 .. 1) /\ late' \in Nat
    BY <2>1, GetHighFacts
  <2>3. /\ pc' \in {"probe", "upload"} /\ try' \in 0 .. 3
        /\ UNCHANGED <<filled, buf, bidx, tc, tc_buf, tc_block>>
        /\ UNCHANGED <<received, done, mode, switching, loads>>
    BY <1>4 DEF Probe, transfer, fpga, channelA
  <2> QED
    BY <2>2, <2>3
<1>5. CASE StuckHigh
  BY <1>5 DEF StuckHigh, transfer, polling, fpga, channelA
<1>6. CASE UploadStart
  BY <1>6, NBlocksAssumption DEF UploadStart, transfer, polling, fpga, channelA
<1>7. CASE Fill
  BY <1>7, NBlocksAssumption DEF Fill, transfer, polling, fpga, channelA, MoreToSend
<1>8. CASE Wait
  BY <1>8 DEF Wait, transfer, polling, fpga, channelA
<1>9. CASE Submit
  BY <1>9 DEF Submit, transfer, polling, fpga, channelA
<1>10. CASE LastDone
  <2>1. /\ pc' \in {"poll", "abort"} /\ try' \in 0 .. 3 /\ status' \in 0 .. 1
        /\ UNCHANGED <<filled, buf, bidx, tc, tc_buf, tc_block>>
        /\ UNCHANGED <<answers, late, received, done, mode, switching, loads>>
    BY <1>10 DEF LastDone, transfer, fpga, channelA
  <2> QED
    BY <2>1
<1>11. CASE Poll
  <2>1. PICK d \in 0 .. 1 : done' = d /\ GetHigh(d)
    BY <1>11 DEF Poll
  <2>2. status' \in 0 .. 1 /\ answers' \in Seq(0 .. 1) /\ late' \in Nat
    BY <2>1, GetHighFacts
  <2>3. /\ pc' \in {"poll", "fifo"} /\ try' \in 0 .. 3
        /\ UNCHANGED <<filled, buf, bidx, tc, tc_buf, tc_block>>
        /\ UNCHANGED <<received, mode, switching, loads>>
    BY <1>11 DEF Poll, transfer, channelA
  <2> QED
    BY <2>1, <2>2, <2>3
<1>12. CASE StuckLow
  BY <1>12 DEF StuckLow, transfer, polling, fpga, channelA
<1>13. CASE SwitchFifo
  BY <1>13 DEF SwitchFifo, transfer, polling, fpga, channelA, Switched, SwitchFails
<1>14. CASE Abort
  BY <1>14 DEF Abort, transfer, polling, fpga, channelA, Switched, SwitchFails
<1>15. CASE Sync
  BY <1>15 DEF Sync, transfer, polling, fpga, channelA
<1>16. CASE ProgramPulseFails
  <2>1. /\ pc' = "abort" /\ received' \in {received, << >>} /\ done' \in {0, done}
        /\ UNCHANGED <<filled, buf, bidx, tc, tc_buf, tc_block>>
        /\ UNCHANGED <<try, status, answers, late, mode, switching, loads>>
    BY <1>16 DEF ProgramPulseFails, transfer, polling, fpga, channelA
  <2>2. received' \in Seq(Nat)
    BY <2>1, EmptySeq
  <2>3. done' \in 0 .. 1
    BY <1>16, SMT DEF ProgramPulseFails, fpga
  <2> QED
    BY <2>1, <2>2, <2>3
<1>17. CASE ProbeFails
  <2>1. GetHighFails(done) /\ done \in 0 .. 1
    BY <1>17 DEF ProbeFails
  <2>2. status' \in 0 .. 1 /\ answers' \in Seq(0 .. 1) /\ late' \in Nat
    BY <2>1, GetHighFailsFacts
  <2>3. /\ pc' = "abort" /\ try' = try
        /\ UNCHANGED <<filled, buf, bidx, tc, tc_buf, tc_block>>
        /\ UNCHANGED <<received, done, mode, switching, loads>>
    BY <1>17 DEF ProbeFails, transfer, fpga, channelA
  <2> QED
    BY <2>2, <2>3
<1>18. CASE SubmitFails
  BY <1>18 DEF SubmitFails, transfer, polling, fpga, channelA
<1>19. CASE PollFails
  <2>1. PICK d \in 0 .. 1 : done' = d /\ GetHighFails(d)
    BY <1>19 DEF PollFails
  <2>2. status' \in 0 .. 1 /\ answers' \in Seq(0 .. 1) /\ late' \in Nat
    BY <2>1, GetHighFailsFacts
  <2>3. /\ pc' = "abort" /\ try' = try
        /\ UNCHANGED <<filled, buf, bidx, tc, tc_buf, tc_block>>
        /\ UNCHANGED <<received, mode, switching, loads>>
    BY <1>19 DEF PollFails, transfer, channelA
  <2> QED
    BY <2>1, <2>2, <2>3
<1>20. CASE SyncFails
  BY <1>20 DEF SyncFails, transfer, polling, fpga, channelA
<1>21. CASE Transmit
  BY <1>21, ReceivedTypes, ZenonT(40) DEF Transmit, polling, channelA
<1>22. CASE UNCHANGED vars
  BY <1>22, ZenonT(40) DEF vars, transfer, polling, fpga, channelA
<1> QED
  BY <1>1, <1>2, <1>3, <1>4, <1>5, <1>6, <1>7, <1>8, <1>9, <1>10,
     <1>11, <1>12, <1>13, <1>14, <1>15, <1>16, <1>17, <1>18, <1>19,
     <1>20, <1>21, <1>22 DEF Next, HostStep, CallFails

-----------------------------------------------------------------------------
(***************************************************************************)
(* The order of what arrives, and the buffers                              *)
(***************************************************************************)
\* The steps that neither send nor wait to send
LEMMA NotSending ==
  ASSUME TypeOK, ArrivedInv, tc' # "pending",
         received' = received \/ received' = << >>,
         pc' \notin {"fill", "wait", "submit"},
         pc' \in {"upload", "probe"} => received' = << >>
  PROVE  ArrivedInv'
<1>1. InOrder'
  BY NBlocksAssumption, EmptySeq DEF ArrivedInv, InOrder
<1> QED
  BY <1>1 DEF ArrivedInv, Uploading, OtherBuffer, BufferStable, NoDanglingTransfer

LEMMA ArrivedInductive == TypeOK /\ ArrivedInv /\ [Next]_vars => ArrivedInv'
<1> SUFFICES ASSUME TypeOK, ArrivedInv, [Next]_vars PROVE ArrivedInv'
  OBVIOUS
<1>a. /\ filled \in Nat /\ filled <= NBlocks /\ NBlocks \in Nat
      /\ buf \in [0 .. 1 -> Nat] /\ bidx \in 0 .. 1 /\ tc_buf \in 0 .. 1
      /\ tc_block \in Nat /\ received \in Seq(Nat) /\ Len(received) \in Nat
      /\ tc \in {"NULL", "pending", "done", "failed"}
  BY NBlocksAssumption, LenProperties DEF TypeOK
<1>b. tc = "pending" => pc \in {"fill", "wait"}
  BY DEF ArrivedInv, NoDanglingTransfer
<1>1. CASE Load
  <2>a. /\ pc \in Returned /\ pc' \in {"config", "failed"}
        /\ UNCHANGED <<tc, received>>
    BY <1>1 DEF Load, transfer, fpga
  <2>1. /\ tc' # "pending" /\ received' \in {received, << >>}
        /\ pc' \notin {"fill", "wait", "submit"}
        /\ pc' \in {"upload", "probe"} => received' = << >>
    BY <1>b, <2>a DEF Returned
  <2> QED
    BY <2>1, NotSending
<1>2. CASE SwitchConfig
  <2>1. /\ tc' # "pending" /\ received' \in {received, << >>}
        /\ pc' \notin {"fill", "wait", "submit"}
        /\ pc' \in {"upload", "probe"} => received' = << >>
    BY <1>2, <1>b DEF SwitchConfig, transfer, fpga
  <2> QED
    BY <2>1, NotSending
<1>3. CASE ProgramPulse
  <2>1. /\ tc' # "pending" /\ received' \in {received, << >>}
        /\ pc' \notin {"fill", "wait", "submit"}
        /\ pc' \in {"upload", "probe"} => received' = << >>
    BY <1>3, <1>b DEF ProgramPulse, transfer
  <2> QED
    BY <2>1, NotSending
<1>4. CASE Probe
  <2>1. /\ tc' # "pending" /\ received' \in {received, << >>}
        /\ pc' \notin {"fill", "wait", "submit"}
        /\ pc' \in {"upload", "probe"} => received' = << >>
    BY <1>4, <1>b DEF Probe, transfer, fpga, ArrivedInv, Uploading
  <2> QED
    BY <2>1, NotSending
<1>5. CASE StuckHigh
  <2>1. /\ tc' # "pending" /\ received' \in {received, << >>}
        /\ pc' \notin {"fill", "wait", "submit"}
        /\ pc' \in {"upload", "probe"} => received' = << >>
    BY <1>5, <1>b DEF StuckHigh, transfer, fpga
  <2> QED
    BY <2>1, NotSending
<1>6. CASE LastDone
  <2>1. /\ tc' # "pending" /\ received' \in {received, << >>}
        /\ pc' \notin {"fill", "wait", "submit"}
        /\ pc' \in {"upload", "probe"} => received' = << >>
    BY <1>6, <1>b DEF LastDone, transfer, fpga
  <2> QED
    BY <2>1, NotSending
<1>7. CASE Poll
  <2>1. /\ tc' # "pending" /\ received' \in {received, << >>}
        /\ pc' \notin {"fill", "wait", "submit"}
        /\ pc' \in {"upload", "probe"} => received' = << >>
    BY <1>7, <1>b DEF Poll, transfer
  <2> QED
    BY <2>1, NotSending
<1>8. CASE StuckLow
  <2>1. /\ tc' # "pending" /\ received' \in {received, << >>}
        /\ pc' \notin {"fill", "wait", "submit"}
        /\ pc' \in {"upload", "probe"} => received' = << >>
    BY <1>8, <1>b DEF StuckLow, transfer, fpga
  <2> QED
    BY <2>1, NotSending
<1>9. CASE SwitchFifo
  <2>1. /\ tc' # "pending" /\ received' \in {received, << >>}
        /\ pc' \notin {"fill", "wait", "submit"}
        /\ pc' \in {"upload", "probe"} => received' = << >>
    BY <1>9, <1>b DEF SwitchFifo, transfer, fpga
  <2> QED
    BY <2>1, NotSending
<1>10. CASE Abort
  <2>1. /\ tc' # "pending" /\ received' \in {received, << >>}
        /\ pc' \notin {"fill", "wait", "submit"}
        /\ pc' \in {"upload", "probe"} => received' = << >>
    BY <1>10, <1>b DEF Abort, transfer, fpga
  <2> QED
    BY <2>1, NotSending
<1>11. CASE Sync
  <2>1. /\ tc' # "pending" /\ received' \in {received, << >>}
        /\ pc' \notin {"fill", "wait", "submit"}
        /\ pc' \in {"upload", "probe"} => received' = << >>
    BY <1>11, <1>b DEF Sync, transfer, fpga
  <2> QED
    BY <2>1, NotSending
<1>12. CASE ProgramPulseFails
  <2>1. /\ tc' # "pending" /\ received' \in {received, << >>}
        /\ pc' \notin {"fill", "wait", "submit"}
        /\ pc' \in {"upload", "probe"} => received' = << >>
    BY <1>12, <1>b DEF ProgramPulseFails, transfer, fpga
  <2> QED
    BY <2>1, NotSending
<1>13. CASE ProbeFails
  <2>1. /\ tc' # "pending" /\ received' \in {received, << >>}
        /\ pc' \notin {"fill", "wait", "submit"}
        /\ pc' \in {"upload", "probe"} => received' = << >>
    BY <1>13, <1>b DEF ProbeFails, transfer, fpga
  <2> QED
    BY <2>1, NotSending
<1>14. CASE SubmitFails
  <2>1. /\ tc' # "pending" /\ received' \in {received, << >>}
        /\ pc' \notin {"fill", "wait", "submit"}
        /\ pc' \in {"upload", "probe"} => received' = << >>
    BY <1>14, <1>b DEF SubmitFails, fpga
  <2> QED
    BY <2>1, NotSending
<1>15. CASE PollFails
  <2>1. /\ tc' # "pending" /\ received' \in {received, << >>}
        /\ pc' \notin {"fill", "wait", "submit"}
        /\ pc' \in {"upload", "probe"} => received' = << >>
    BY <1>15, <1>b DEF PollFails, transfer, fpga
  <2> QED
    BY <2>1, NotSending
<1>16. CASE SyncFails
  <2>1. /\ tc' # "pending" /\ received' \in {received, << >>}
        /\ pc' \notin {"fill", "wait", "submit"}
        /\ pc' \in {"upload", "probe"} => received' = << >>
    BY <1>16, <1>b DEF SyncFails, transfer, fpga
  <2> QED
    BY <2>1, NotSending
<1>17. CASE UploadStart
  <2>1. /\ pc' = "fill" /\ filled' = 0 /\ tc' = "NULL" /\ received' = received
        /\ received = << >>
    BY <1>17 DEF UploadStart, fpga, ArrivedInv, Uploading
  <2>2. InOrder'
    BY <2>1 DEF ArrivedInv, InOrder
  <2> QED
    BY <2>1, <2>2, EmptySeq
       DEF ArrivedInv, Uploading, OtherBuffer, BufferStable, NoDanglingTransfer
<1>18. CASE Fill
  <2>1. /\ pc = "fill" /\ pc' = IF tc = "NULL" THEN "submit" ELSE "wait"
        /\ buf' = [buf EXCEPT ![bidx] = filled + 1] /\ filled' = filled + 1
        /\ bidx' = bidx /\ tc' = tc /\ tc_buf' = tc_buf /\ tc_block' = tc_block
        /\ received' = received
    BY <1>18 DEF Fill, fpga
  <2>2. buf'[bidx] = filled + 1 /\ (tc_buf # bidx => buf'[tc_buf] = buf[tc_buf])
    BY <1>a, <2>1
  <2>3. InOrder' /\ OtherBuffer' /\ BufferStable' /\ NoDanglingTransfer'
    BY <2>1, <2>2 DEF ArrivedInv, InOrder, OtherBuffer, BufferStable, NoDanglingTransfer
  <2>4. Uploading'
    BY <1>a, <2>1, <2>2 DEF ArrivedInv, Uploading
  <2> QED
    BY <2>3, <2>4 DEF ArrivedInv
<1>19. CASE Wait
  <2>1. /\ pc = "wait" /\ tc \in {"done", "failed"}
        /\ pc' = IF tc = "done" THEN "submit" ELSE "abort"
        /\ UNCHANGED <<filled, buf, bidx, tc, tc_buf, tc_block, received>>
    BY <1>19 DEF Wait, transfer, fpga
  <2>2. InOrder' /\ OtherBuffer' /\ BufferStable' /\ NoDanglingTransfer'
    BY <2>1 DEF ArrivedInv, InOrder, OtherBuffer, BufferStable, NoDanglingTransfer
  <2>3. Uploading'
    BY <1>a, <2>1 DEF ArrivedInv, Uploading
  <2> QED
    BY <2>2, <2>3 DEF ArrivedInv
<1>20. CASE Submit
  <2>1. /\ pc = "submit" /\ pc' = "fill" /\ tc' = "pending"
        /\ tc_buf' = bidx /\ tc_block' = buf[bidx] /\ bidx' = (bidx + 1) % 2
        /\ filled' = filled /\ buf' = buf /\ received' = received
    BY <1>20 DEF Submit, fpga
  <2>2. bidx' # bidx
    BY <1>a, <2>1
  <2>3. InOrder' /\ OtherBuffer' /\ BufferStable' /\ NoDanglingTransfer'
    BY <2>1, <2>2 DEF ArrivedInv, InOrder, OtherBuffer, BufferStable, NoDanglingTransfer
  <2>4. Uploading'
    BY <1>a, <2>1 DEF ArrivedInv, Uploading
  <2> QED
    BY <2>3, <2>4 DEF ArrivedInv
<1>21. CASE Transmit
  <2>1. /\ tc = "pending" /\ pc \in {"fill", "wait"} /\ pc' = pc
        /\ UNCHANGED <<filled, buf, bidx, tc_buf, tc_block>>
        /\ \/ tc' = "done" /\ received' = Append(received, buf[tc_buf])
           \/ tc' = "failed" /\ received' = received
    BY <1>21, <1>b DEF Transmit
  <2>2. /\ buf[tc_buf] = Len(received) + 1 /\ Len(received) + 1 <= NBlocks
        /\ buf[tc_buf] \in Nat
    BY <1>a, <2>1 DEF ArrivedInv, Uploading, BufferStable
  <2>3. CASE tc' = "done" /\ received' = Append(received, buf[tc_buf])
    <3>1. /\ Len(received') = Len(received) + 1
          /\ \A i \in 1 .. Len(received) : received'[i] = received[i]
          /\ received'[Len(received) + 1] = Len(received) + 1
      BY <1>a, <2>2, <2>3, ReceivedTypes
    <3>2. \A i \in 1 .. Len(received) + 1 : i \in 1 .. Len(received) \/ i = Len(received) + 1
      BY <1>a
    <3>3. InOrder'
      BY <1>a, <2>2, <3>1, <3>2 DEF ArrivedInv, InOrder
    <3>4. Uploading'
      BY <1>a, <2>1, <2>3, <3>1 DEF ArrivedInv, Uploading
    <3> QED
      BY <2>1, <2>3, <3>3, <3>4
      DEF ArrivedInv, OtherBuffer, BufferStable, NoDanglingTransfer
  <2>4. CASE tc' = "failed" /\ received' = received
    <3>1. Uploading'
      BY <1>a, <2>1, <2>4 DEF ArrivedInv, Uploading
    <3> QED
      BY <2>1, <2>4, <3>1
      DEF ArrivedInv, InOrder, OtherBuffer, BufferStable, NoDanglingTransfer
  <2> QED
    BY <2>1, <2>3, <2>4
<1>22. CASE UNCHANGED vars
  BY <1>22 DEF vars, transfer, fpga, ArrivedInv, Uploading, OtherBuffer,
  BufferStable, InOrder, NoDanglingTransfer
<1> QED
  BY <1>1, <1>2, <1>3, <1>4, <1>5, <1>6, <1>7, <1>8, <1>9, <1>10,
     <1>11, <1>12, <1>13, <1>14, <1>15, <1>16, <1>17, <1>18,
     <1>19, <1>20, <1>21, <1>22 DEF Next, HostStep, CallFails

-----------------------------------------------------------------------------
(***************************************************************************)
(* The mode of channel A, and the DONE pin                                 *)
(***************************************************************************)
LEMMA ModeInductive == TypeOK /\ ModeInv /\ [Next]_vars => ModeInv'
<1> SUFFICES ASSUME TypeOK, ModeInv, [Next]_vars PROVE ModeInv'
  OBVIOUS
<1> USE DEF ModeInv, Returned
<1>1. CASE Load
  <2>1. pc' \in {"config", "failed"} /\ switching' = "none"
    BY <1>1 DEF Load
  <2> QED
    BY <2>1
<1>2. CASE SwitchConfig
  BY <1>2 DEF SwitchConfig, Switched, SwitchFails
<1>3. CASE SwitchFifo
  BY <1>3 DEF SwitchFifo, Switched, SwitchFails
<1>4. CASE Abort
  BY <1>4 DEF Abort, Switched, SwitchFails
<1>5. CASE Sync
  BY <1>5 DEF Sync, channelA
<1>6. CASE SyncFails
  BY <1>6 DEF SyncFails, channelA
<1>7. CASE ProgramPulse
  BY <1>7 DEF ProgramPulse, channelA
<1>8. CASE Probe
  BY <1>8 DEF Probe, channelA
<1>9. CASE StuckHigh
  BY <1>9 DEF StuckHigh, channelA
<1>10. CASE UploadStart
  BY <1>10 DEF UploadStart, channelA
<1>11. CASE Fill
  BY <1>11 DEF Fill, channelA
<1>12. CASE Wait
  BY <1>12 DEF Wait, channelA
<1>13. CASE Submit
  BY <1>13 DEF Submit, channelA
<1>14. CASE LastDone
  BY <1>14 DEF LastDone, channelA
<1>15. CASE Poll
  BY <1>15 DEF Poll, channelA
<1>16. CASE StuckLow
  BY <1>16 DEF StuckLow, channelA
<1>17. CASE ProgramPulseFails
  BY <1>17 DEF ProgramPulseFails, channelA
<1>18. CASE ProbeFails
  BY <1>18 DEF ProbeFails, channelA
<1>19. CASE SubmitFails
  BY <1>19 DEF SubmitFails, channelA
<1>20. CASE PollFails
  BY <1>20 DEF PollFails, channelA
<1>21. CASE Transmit
  BY <1>21 DEF Transmit, channelA
<1>22. CASE UNCHANGED vars
  BY <1>22 DEF vars, channelA
<1> QED
  BY <1>1, <1>2, <1>3, <1>4, <1>5, <1>6, <1>7, <1>8, <1>9, <1>10,
     <1>11, <1>12, <1>13, <1>14, <1>15, <1>16, <1>17, <1>18,
     <1>19, <1>20, <1>21, <1>22 DEF Next, HostStep, CallFails

LEMMA DoneInductive ==
  TypeOK /\ ArrivedInv /\ DoneInv /\ [Next]_vars => DoneInv'
<1> SUFFICES ASSUME TypeOK, ArrivedInv, DoneInv, [Next]_vars PROVE DoneInv'
  OBVIOUS
<1>a. /\ status \in 0 .. 1 /\ answers \in Seq(0 .. 1) /\ late \in Nat /\ done \in 0 .. 1
      /\ filled \in Nat /\ filled <= NBlocks /\ NBlocks \in Nat
  BY NBlocksAssumption DEF TypeOK
<1> USE DEF DoneInv, SuccessMeansConfigured
<1>1. CASE Load
  <2>1. pc' \in {"config", "failed"} /\ UNCHANGED <<answers, late>>
    BY <1>1 DEF Load, polling
  <2> QED
    BY <2>1
<1>2. CASE Probe
  <2>1. /\ late = 0 => answers = << >>
        /\ pc' \in {"probe", "upload"} /\ GetHigh(done)
    BY <1>2 DEF Probe
  <2>2. late' = 0 => answers' = << >>
    BY <1>a, <2>1, GetHighFacts
  <2> QED
    BY <2>1, <2>2
<1>3. CASE LastDone
  <2>1. /\ pc = "fill" /\ tc \in {"done", "failed"} /\ filled >= NBlocks
        /\ pc' = (IF tc = "done" THEN "poll" ELSE "abort")
        /\ UNCHANGED <<answers, late, received>>
    BY <1>3, <1>a DEF LastDone, MoreToSend, fpga
  <2>2. tc = "done" => Len(received) = NBlocks
    BY <1>a, <2>1 DEF ArrivedInv, Uploading
  <2> QED
    BY <2>1, <2>2
<1>4. CASE Poll
  <2>1. PICK d \in 0 .. 1 : done' = d /\ GetHigh(d)
    BY <1>4 DEF Poll
  <2>2. /\ pc = "poll" /\ received' = received
        /\ pc' \in {"poll", "fifo"} /\ (pc' = "fifo" => status' = 1)
    BY <1>4 DEF Poll
  <2>3. late' = 0 => answers' = << >> /\ status' = done'
    BY <1>a, <2>1, GetHighFacts
  <2> QED
    BY <2>2, <2>3
<1>5. CASE Transmit
  <2>1. pc \in {"fill", "wait"} /\ pc' = pc /\ UNCHANGED <<answers, late>>
    BY <1>5 DEF Transmit, polling, ArrivedInv, NoDanglingTransfer
  <2> QED
    BY <2>1
<1>6. CASE ProgramPulse
  BY <1>6 DEF ProgramPulse
<1>7. CASE ProgramPulseFails
  BY <1>7 DEF ProgramPulseFails, polling
<1>8. CASE SwitchConfig
  BY <1>8 DEF SwitchConfig, polling, fpga
<1>9. CASE StuckHigh
  BY <1>9 DEF StuckHigh, polling, fpga
<1>10. CASE UploadStart
  BY <1>10 DEF UploadStart, polling, fpga
<1>11. CASE Fill
  BY <1>11 DEF Fill, polling, fpga
<1>12. CASE Wait
  BY <1>12 DEF Wait, polling, fpga
<1>13. CASE Submit
  BY <1>13 DEF Submit, polling, fpga
<1>14. CASE StuckLow
  BY <1>14 DEF StuckLow, polling, fpga
<1>15. CASE SwitchFifo
  BY <1>15 DEF SwitchFifo, polling, fpga
<1>16. CASE Abort
  BY <1>16 DEF Abort, polling, fpga
<1>17. CASE Sync
  BY <1>17 DEF Sync, polling, fpga
<1>18. CASE ProbeFails
  <2>1. pc' = "abort" /\ GetHighFails(done)
    BY <1>18 DEF ProbeFails
  <2>2. late' = 0 => answers' = << >>
    BY <1>a, <2>1, GetHighFailsFacts
  <2> QED
    BY <2>1, <2>2
<1>19. CASE SubmitFails
  BY <1>19 DEF SubmitFails, polling, fpga
<1>20. CASE PollFails
  <2>1. PICK d \in 0 .. 1 : GetHighFails(d)
    BY <1>20 DEF PollFails
  <2>2. pc' = "abort"
    BY <1>20 DEF PollFails
  <2>3. late' = 0 => answers' = << >>
    BY <1>a, <2>1, GetHighFailsFacts
  <2> QED
    BY <2>2, <2>3
<1>21. CASE SyncFails
  BY <1>21 DEF SyncFails, polling, fpga
<1>22. CASE UNCHANGED vars
  BY <1>22 DEF vars, polling, fpga
<1> QED
  BY <1>1, <1>2, <1>3, <1>4, <1>5, <1>6, <1>7, <1>8, <1>9, <1>10,
     <1>11, <1>12, <1>13, <1>14, <1>15, <1>16, <1>17, <1>18,
     <1>19, <1>20, <1>21, <1>22 DEF Next, HostStep, CallFails

-----------------------------------------------------------------------------
(***************************************************************************)
(* The theorems                                                            *)
(***************************************************************************)
IInv == TypeOK /\ ArrivedInv /\ ModeInv /\ DoneInv

LEMMA Invariance == Spec => []IInv
<1>1. Init => IInv
  <2> SUFFICES ASSUME Init PROVE IInv
    OBVIOUS
  <2>1. TypeOK
    BY NBlocksAssumption, EmptySeq DEF Init, TypeOK, Returned
  <2>2. ArrivedInv
    BY NBlocksAssumption, EmptySeq
    DEF Init, ArrivedInv, Uploading, OtherBuffer, BufferStable, InOrder, NoDanglingTransfer
  <2>3. ModeInv /\ DoneInv
    BY DEF Init, ModeInv, DoneInv, SuccessMeansConfigured, Returned
  <2> QED
    BY <2>1, <2>2, <2>3 DEF IInv
<1>2. IInv /\ [Next]_vars => IInv'
  BY TypeInductive, ArrivedInductive, ModeInductive, DoneInductive DEF IInv
<1> QED
  BY <1>1, <1>2, PTL DEF Spec

\* The fields of the upload keep their types, and no more blocks are copied than
\* the bitstream has.
THEOREM TypeCorrect == Spec => []TypeOK
<1>1. IInv => TypeOK
  BY DEF IInv
<1> QED
  BY <1>1, Invariance, PTL

\* bit_load_firmware() never fills the buffer that is being sent.
THEOREM BufferStableCorrect == Spec => []BufferStable
<1>1. IInv => BufferStable
  BY DEF IInv, ArrivedInv
<1> QED
  BY <1>1, Invariance, PTL

\* Whatever fails, what the FPGA got since its reset is the beginning of the
\* bitstream.
THEOREM InOrderCorrect == Spec => []InOrder
<1>1. IInv => InOrder
  BY DEF IInv, ArrivedInv
<1> QED
  BY <1>1, Invariance, PTL

\* bit_load_firmware() returns, on all its paths, with no transfer in flight.
THEOREM NoDanglingTransferCorrect == Spec => []NoDanglingTransfer
<1>1. IInv => NoDanglingTransfer
  BY DEF IInv, ArrivedInv
<1> QED
  BY <1>1, Invariance, PTL

\* ov_load_firmware_from_fwpkg() succeeds with all of the bitstream sent, and with a
\* configured FPGA as long as no call has left an answer of channel B unread.
THEOREM SuccessMeansConfiguredCorrect == Spec => []SuccessMeansConfigured
<1>1. IInv => SuccessMeansConfigured
  BY DEF IInv, DoneInv
<1> QED
  BY <1>1, Invariance, PTL

\* The error path of ov_load_firmware_from_fwpkg() restores FIFO mode.
THEOREM FifoModeRestoredCorrect == Spec => []FifoModeRestored
<1>1. IInv => FifoModeRestored
  BY DEF IInv, ModeInv, FifoModeRestored
<1> QED
  BY <1>1, Invariance, PTL

\* The transfer in flight of bit_load_firmware() finds its buffer as it was when it was
\* submitted.
THEOREM BuffersHeldCorrect == Spec => []BuffersHeld
BY BufferStableCorrect, NoDanglingTransferCorrect, PTL DEF BuffersHeld

-----------------------------------------------------------------------------
(***************************************************************************)
(* Lifetime: contracts.  Releases says from what is held before a cleanup  *)
(* to what is held behind it, Runs says the same of a function, and what   *)
(* is held if it fails.  Contracts compose as functions do, by o and On.   *)
(***************************************************************************)
\* The steps of functions and of their cleanups, which are releases only
Dos == {"get", "put", "try", "start", "move"}

Release == [do : {"put"}, obj : Objects, guarded : {0, 1}, fails : {<< >>}]

StepType == [do : Dos, obj : Objects, guarded : {0, 1}, fails : Seq(Release)]

Causes == {"not opened", "not started", "opened again"}

\* Nothing that was not held has been released.
State == [live : [Objects -> Nat], ptr : SUBSET Objects, wild : {0}, causes : SUBSET Causes]

\* Along the sets of states c the steps u lead from each to the next.
Along(u, c) == \A i \in 1 .. Len(u) : \A s \in c[i] : Effect(s, u[i]) \in c[i + 1]

\* From any of the states F the releases u lead to one of G.
Releases(u, F, G) ==
  /\ u \in Seq(Release)
  /\ \E c \in [1 .. Len(u) + 1 -> SUBSET State] :
       F \subseteq c[1] /\ c[Len(u) + 1] \subseteq G /\ Along(u, c)

\* If one of the steps a fails, what it then releases leads to one of F.
FailsTo(a, c, F) ==
  \A i \in 1 .. Len(a) : \A s \in c[i] :
    a[i].do # "put" => Releases(a[i].fails, Failures(s, a[i]), F)

\* The steps a lead from any of the states P to one of Q, or if they fail, of F.
Runs(a, P, Q, F) ==
  /\ a \in Seq(StepType)
  /\ \E c \in [1 .. Len(a) + 1 -> SUBSET State] :
       P \subseteq c[1] /\ c[Len(a) + 1] \subseteq Q /\ Along(a, c) /\ FailsTo(a, c, F)

-----------------------------------------------------------------------------
\* Two chains of sets of states, one behind the other
Joined(c, d, m, n) == [i \in 1 .. m + n + 1 |-> IF i <= m THEN c[i] ELSE d[i - m]]

\* The items of a concatenation
LEMMA ConcatIs ==
  ASSUME NEW S, NEW a \in Seq(S), NEW b \in Seq(S)
  PROVE  /\ a \o b \in Seq(S) /\ Len(a \o b) = Len(a) + Len(b)
         /\ Len(a) \in Nat /\ Len(b) \in Nat
         /\ \A i \in 1 .. Len(a) : (a \o b)[i] = a[i]
         /\ \A i \in Len(a) + 1 .. Len(a) + Len(b) :
              i - Len(a) \in 1 .. Len(b) /\ (a \o b)[i] = b[i - Len(a)]
BY ConcatProperties, LenProperties

\* What the joined chain consists of: where they meet, the second one.
LEMMA JoinedIs ==
  ASSUME NEW m \in Nat, NEW n \in Nat,
         NEW c \in [1 .. m + 1 -> SUBSET State], NEW d \in [1 .. n + 1 -> SUBSET State],
         c[m + 1] \subseteq d[1]
  PROVE  /\ Joined(c, d, m, n) \in [1 .. m + n + 1 -> SUBSET State]
         /\ \A i \in 1 .. m : Joined(c, d, m, n)[i] = c[i]
         /\ \A i \in 1 .. m + 1 : c[i] \subseteq Joined(c, d, m, n)[i]
         /\ \A i \in m + 1 .. m + n + 1 : Joined(c, d, m, n)[i] = d[i - m]
<1> DEFINE j == Joined(c, d, m, n)
<1>1. ASSUME NEW i \in 1 .. m + n + 1
      PROVE  /\ j[i] = IF i <= m THEN c[i] ELSE d[i - m]
             /\ i <= m => i \in 1 .. m + 1
             /\ ~(i <= m) => i - m \in 1 .. n + 1
  BY DEF Joined
<1>2. j \in [1 .. m + n + 1 -> SUBSET State]
  <2>1. \A i \in 1 .. m + n + 1 : (IF i <= m THEN c[i] ELSE d[i - m]) \in SUBSET State
    BY <1>1
  <2> QED
    BY <2>1 DEF Joined
<1>3. \A i \in 1 .. m : j[i] = c[i]
  BY <1>1
<1>4. \A i \in m + 1 .. m + n + 1 : j[i] = d[i - m]
  BY <1>1
<1>5. \A i \in 1 .. m + 1 : c[i] \subseteq j[i]
  <2>1. j[m + 1] = d[1]
    BY <1>4
  <2>2. \A i \in 1 .. m + 1 : i \in 1 .. m \/ i = m + 1
    OBVIOUS
  <2> QED
    BY <1>3, <2>1, <2>2
<1> QED
  BY <1>2, <1>3, <1>4, <1>5

\* The steps of both sequences lead along the joined chain.
LEMMA JoinedAlong ==
  ASSUME NEW S, NEW a \in Seq(S), NEW b \in Seq(S),
         NEW c \in [1 .. Len(a) + 1 -> SUBSET State],
         NEW d \in [1 .. Len(b) + 1 -> SUBSET State],
         c[Len(a) + 1] \subseteq d[1], Along(a, c), Along(b, d)
  PROVE  Along(a \o b, Joined(c, d, Len(a), Len(b)))
<1> DEFINE m == Len(a)
           n == Len(b)
           j == Joined(c, d, m, n)
           ab == a \o b
<1>1. /\ Len(ab) = m + n /\ m \in Nat /\ n \in Nat
      /\ \A i \in 1 .. m : ab[i] = a[i]
      /\ \A i \in m + 1 .. m + n : i - m \in 1 .. n /\ ab[i] = b[i - m]
  BY ConcatIs
<1>2. /\ \A i \in 1 .. m : \A s \in c[i] : Effect(s, a[i]) \in c[i + 1]
      /\ \A i \in 1 .. n : \A s \in d[i] : Effect(s, b[i]) \in d[i + 1]
  BY DEF Along
<1>3. /\ c \in [1 .. m + 1 -> SUBSET State] /\ d \in [1 .. n + 1 -> SUBSET State]
      /\ c[m + 1] \subseteq d[1]
  OBVIOUS
<1> HIDE DEF m, n, ab
<1>4. /\ \A i \in 1 .. m : j[i] = c[i]
      /\ \A i \in 1 .. m + 1 : c[i] \subseteq j[i]
      /\ \A i \in m + 1 .. m + n + 1 : j[i] = d[i - m]
  BY <1>1, <1>3, JoinedIs, ZenonT(40)
<1> HIDE DEF j
<1>5. ASSUME NEW i \in 1 .. m, NEW s \in j[i] PROVE Effect(s, ab[i]) \in j[i + 1]
  <2>1. s \in c[i] /\ ab[i] = a[i]
    BY <1>1, <1>4, <1>5
  <2>2. i + 1 \in 1 .. m + 1
    BY <1>1
  <2>3. Effect(s, a[i]) \in c[i + 1]
    BY <1>2, <2>1
  <2> QED
    BY <1>4, <2>1, <2>2, <2>3
<1>6. ASSUME NEW i \in m + 1 .. m + n, NEW s \in j[i] PROVE Effect(s, ab[i]) \in j[i + 1]
  <2>1. /\ i \in m + 1 .. m + n + 1 /\ i + 1 \in m + 1 .. m + n + 1
        /\ i - m \in 1 .. n /\ (i + 1) - m = (i - m) + 1
    BY <1>1
  <2>2. s \in d[i - m] /\ ab[i] = b[i - m] /\ j[i + 1] = d[(i - m) + 1]
    BY <1>1, <1>4, <1>6, <2>1, SMTT(30)
  <2>3. Effect(s, b[i - m]) \in d[(i - m) + 1]
    BY <1>2, <2>1, <2>2
  <2> QED
    BY <2>2, <2>3
<1>7. \A i \in 1 .. Len(ab) : i \in 1 .. m \/ i \in m + 1 .. m + n
  BY <1>1
<1> QED
  BY <1>5, <1>6, <1>7 DEF Along, ab, j, m, n

\* Contracts compose: of the releases of two cleanups,
LEMMA ReleasesConcat ==
  ASSUME NEW u, NEW v, NEW F, NEW G, NEW H, Releases(u, F, G), Releases(v, G, H)
  PROVE  Releases(u \o v, F, H)
<1>1. u \in Seq(Release) /\ v \in Seq(Release)
  BY DEF Releases
<1>2. PICK c \in [1 .. Len(u) + 1 -> SUBSET State] :
        F \subseteq c[1] /\ c[Len(u) + 1] \subseteq G /\ Along(u, c)
  BY DEF Releases
<1>3. PICK d \in [1 .. Len(v) + 1 -> SUBSET State] :
        G \subseteq d[1] /\ d[Len(v) + 1] \subseteq H /\ Along(v, d)
  BY DEF Releases
<1> DEFINE m == Len(u)
           n == Len(v)
           j == Joined(c, d, m, n)
<1>4. u \o v \in Seq(Release) /\ Len(u \o v) = m + n /\ m \in Nat /\ n \in Nat
  BY <1>1, ConcatIs
<1>5. Along(u \o v, j)
  BY <1>1, <1>2, <1>3, JoinedAlong
<1>6. /\ c \in [1 .. m + 1 -> SUBSET State] /\ d \in [1 .. n + 1 -> SUBSET State]
      /\ c[m + 1] \subseteq d[1] /\ d[n + 1] \subseteq H
  BY <1>2, <1>3
<1> HIDE DEF m, n
<1>7. /\ j \in [1 .. m + n + 1 -> SUBSET State]
      /\ \A i \in 1 .. m + 1 : c[i] \subseteq j[i]
      /\ \A i \in m + 1 .. m + n + 1 : j[i] = d[i - m]
  BY <1>3, <1>4, <1>6, JoinedIs
<1> HIDE DEF j
<1>8. F \subseteq j[1] /\ j[m + n + 1] \subseteq H
  <2>1. 1 \in 1 .. m + 1 /\ m + n + 1 \in m + 1 .. m + n + 1 /\ (m + n + 1) - m = n + 1
    BY <1>4
  <2>2. c[1] \subseteq j[1] /\ j[m + n + 1] = d[n + 1]
    BY <1>7, <2>1
  <2> QED
    BY <1>2, <1>6, <2>2
<1> QED
  BY <1>4, <1>5, <1>7, <1>8 DEF Releases

\* and of two functions, or two parts of one.
LEMMA RunsConcat ==
  ASSUME NEW a, NEW b, NEW P, NEW Q, NEW R, NEW F, Runs(a, P, Q, F), Runs(b, Q, R, F)
  PROVE  Runs(a \o b, P, R, F)
<1>1. a \in Seq(StepType) /\ b \in Seq(StepType)
  BY DEF Runs
<1>2. PICK c \in [1 .. Len(a) + 1 -> SUBSET State] :
        P \subseteq c[1] /\ c[Len(a) + 1] \subseteq Q /\ Along(a, c) /\ FailsTo(a, c, F)
  BY DEF Runs
<1>3. PICK d \in [1 .. Len(b) + 1 -> SUBSET State] :
        Q \subseteq d[1] /\ d[Len(b) + 1] \subseteq R /\ Along(b, d) /\ FailsTo(b, d, F)
  BY DEF Runs
<1> DEFINE m == Len(a)
           n == Len(b)
           j == Joined(c, d, m, n)
           ab == a \o b
<1>4. /\ ab \in Seq(StepType) /\ Len(ab) = m + n /\ m \in Nat /\ n \in Nat
      /\ \A i \in 1 .. m : ab[i] = a[i]
      /\ \A i \in m + 1 .. m + n : i - m \in 1 .. n /\ ab[i] = b[i - m]
  BY <1>1, ConcatIs
<1>5. Along(ab, j)
  BY <1>1, <1>2, <1>3, JoinedAlong
<1>6. /\ c \in [1 .. m + 1 -> SUBSET State] /\ d \in [1 .. n + 1 -> SUBSET State]
      /\ c[m + 1] \subseteq d[1] /\ d[n + 1] \subseteq R
      /\ \A i \in 1 .. m : \A s \in c[i] :
           a[i].do # "put" => Releases(a[i].fails, Failures(s, a[i]), F)
      /\ \A i \in 1 .. n : \A s \in d[i] :
           b[i].do # "put" => Releases(b[i].fails, Failures(s, b[i]), F)
  BY <1>2, <1>3 DEF FailsTo
<1> HIDE DEF m, n, ab
<1>7. /\ j \in [1 .. m + n + 1 -> SUBSET State]
      /\ \A i \in 1 .. m : j[i] = c[i]
      /\ \A i \in 1 .. m + 1 : c[i] \subseteq j[i]
      /\ \A i \in m + 1 .. m + n + 1 : j[i] = d[i - m]
  BY <1>4, <1>6, JoinedIs
<1> HIDE DEF j
<1>8. P \subseteq j[1] /\ j[m + n + 1] \subseteq R
  <2>1. 1 \in 1 .. m + 1 /\ m + n + 1 \in m + 1 .. m + n + 1 /\ (m + n + 1) - m = n + 1
    BY <1>4
  <2>2. c[1] \subseteq j[1] /\ j[m + n + 1] = d[n + 1]
    BY <1>7, <2>1
  <2> QED
    BY <1>2, <1>6, <2>2
<1>9. FailsTo(ab, j, F)
  <2>1. ASSUME NEW i \in 1 .. m, NEW s \in j[i], ab[i].do # "put"
        PROVE  Releases(ab[i].fails, Failures(s, ab[i]), F)
    BY <1>4, <1>6, <1>7, <2>1
  <2>2. ASSUME NEW i \in m + 1 .. m + n, NEW s \in j[i], ab[i].do # "put"
        PROVE  Releases(ab[i].fails, Failures(s, ab[i]), F)
    <3>1. i \in m + 1 .. m + n + 1 /\ i - m \in 1 .. n
      BY <1>4
    <3>2. s \in d[i - m] /\ ab[i] = b[i - m]
      BY <1>4, <1>7, <2>2, <3>1
    <3> QED
      BY <1>6, <2>2, <3>1, <3>2
  <2>3. \A i \in 1 .. Len(ab) : i \in 1 .. m \/ i \in m + 1 .. m + n
    BY <1>4
  <2> QED
    BY <2>1, <2>2, <2>3 DEF FailsTo
<1> QED
  BY <1>4, <1>5, <1>7, <1>8, <1>9 DEF Runs, ab

\* More may be known of the states before, and less of those after.
LEMMA ReleasesWeaken ==
  ASSUME NEW u, NEW F, NEW G, NEW F2, NEW G2, Releases(u, F, G),
         F2 \subseteq F, G \subseteq G2
  PROVE  Releases(u, F2, G2)
<1>1. PICK c \in [1 .. Len(u) + 1 -> SUBSET State] :
        F \subseteq c[1] /\ c[Len(u) + 1] \subseteq G /\ Along(u, c)
  BY DEF Releases
<1>2. F2 \subseteq c[1] /\ c[Len(u) + 1] \subseteq G2
  BY <1>1
<1> QED
  BY <1>1, <1>2 DEF Releases

\* The same for steps that may fail
LEMMA RunsWeaken ==
  ASSUME NEW a, NEW P, NEW Q, NEW F, NEW P2, NEW Q2, NEW F2, Runs(a, P, Q, F),
         P2 \subseteq P, Q \subseteq Q2, F \subseteq F2
  PROVE  Runs(a, P2, Q2, F2)
<1>1. PICK c \in [1 .. Len(a) + 1 -> SUBSET State] :
        P \subseteq c[1] /\ c[Len(a) + 1] \subseteq Q /\ Along(a, c) /\ FailsTo(a, c, F)
  BY DEF Runs
<1>2. P2 \subseteq c[1] /\ c[Len(a) + 1] \subseteq Q2
  BY <1>1
<1>3. FailsTo(a, c, F2)
  <2> SUFFICES ASSUME NEW i \in 1 .. Len(a), NEW s \in c[i], a[i].do # "put"
               PROVE  Releases(a[i].fails, Failures(s, a[i]), F2)
    BY DEF FailsTo
  <2>1. Releases(a[i].fails, Failures(s, a[i]), F)
    BY <1>1 DEF FailsTo
  <2> QED
    BY <2>1, ReleasesWeaken
<1> QED
  BY <1>1, <1>2, <1>3 DEF Runs

\* Releases are steps that cannot fail.
LEMMA ReleasesRun ==
  ASSUME NEW u, NEW P, NEW Q, NEW F, Releases(u, P, Q)
  PROVE  Runs(u, P, Q, F)
<1>1. u \in Seq(Release) /\ \A i \in 1 .. Len(u) : u[i] \in Release
  BY ElementOfSeq DEF Releases
<1>2. PICK c \in [1 .. Len(u) + 1 -> SUBSET State] :
        P \subseteq c[1] /\ c[Len(u) + 1] \subseteq Q /\ Along(u, c)
  BY DEF Releases
<1>3. Release \subseteq StepType
  BY EmptySeq DEF Release, StepType, Dos
<1>4. u \in Seq(StepType)
  BY <1>1, <1>3
<1>5. \A i \in 1 .. Len(u) : u[i].do = "put"
  BY <1>1 DEF Release
<1>6. FailsTo(u, c, F)
  BY <1>5 DEF FailsTo
<1> QED
  BY <1>2, <1>4, <1>6 DEF Runs

\* The effect of a step depends on what it does, on which object and whether it tests
\* the pointer, not on what follows if it fails.
LEMMA EffectSame ==
  ASSUME NEW s, NEW t, NEW u, t.do = u.do, t.obj = u.obj, t.guarded = u.guarded
  PROVE  Effect(s, t) = Effect(s, u)
<1>1. Released(s, t) = Released(s, u)
  BY Zenon DEF Released
<1>2. Gotten(s, t.obj) = Gotten(s, u.obj)
  BY Zenon
<1>3. Gotten(Released(s, Free("source")[1]), t.obj)
        = Gotten(Released(s, Free("source")[1]), u.obj)
  BY Zenon
<1> QED
  BY <1>1, <1>2, <1>3 DEF Effect

\* A label adds what it releases to each of the steps behind it.
LEMMA RunsOn ==
  ASSUME NEW a, NEW u, NEW P, NEW Q, NEW F, NEW G, Runs(a, P, Q, F), Releases(u, F, G)
  PROVE  Runs(On(u, a), P, Q, G)
<1> DEFINE b == On(u, a)
<1>1. a \in Seq(StepType) /\ Len(a) \in Nat /\ DOMAIN a = 1 .. Len(a)
  BY LenProperties DEF Runs
<1>2. u \in Seq(Release)
  BY DEF Releases
<1>3. PICK c \in [1 .. Len(a) + 1 -> SUBSET State] :
        P \subseteq c[1] /\ c[Len(a) + 1] \subseteq Q /\ Along(a, c) /\ FailsTo(a, c, F)
  BY DEF Runs
<1>4. ASSUME NEW i \in 1 .. Len(a)
      PROVE  /\ b[i] \in StepType /\ b[i].do = a[i].do /\ b[i].obj = a[i].obj
             /\ b[i].guarded = a[i].guarded /\ b[i].fails = a[i].fails \o u
  <2>1. a[i] \in StepType
    BY <1>1, ElementOfSeq
  <2>2. a[i].fails \in Seq(Release)
    BY <2>1 DEF StepType
  <2>3. a[i].fails \o u \in Seq(Release)
    BY <1>2, <2>2, ConcatProperties
  <2>4. b[i] = [a[i] EXCEPT !.fails = a[i].fails \o u]
    BY <1>1 DEF On
  <2> QED
    BY <2>1, <2>3, <2>4 DEF StepType
<1>5. b \in Seq(StepType) /\ Len(b) = Len(a)
  <2> DEFINE n == Len(a)
             e(i) == [a[i] EXCEPT !.fails = a[i].fails \o u]
  <2>1. b = [i \in 1 .. n |-> e(i)]
    BY <1>1 DEF On
  <2>2. n \in Nat /\ \A i \in 1 .. n : e(i) \in StepType
    BY <1>1, <1>4, <2>1
  <2> HIDE DEF n, e, b
  <2>3. [i \in 1 .. n |-> e(i)] \in Seq(StepType) /\ Len([i \in 1 .. n |-> e(i)]) = n
    BY <2>2
  <2> QED
    BY <2>1, <2>3 DEF n
<1> HIDE DEF b
<1>6. Along(b, c)
  <2>1. \A s : \A i \in 1 .. Len(a) : Effect(s, b[i]) = Effect(s, a[i])
    BY <1>4, EffectSame, Zenon
  <2> QED
    BY <1>3, <1>5, <2>1 DEF Along
<1>7. FailsTo(b, c, G)
  <2> SUFFICES ASSUME NEW i \in 1 .. Len(a), NEW s \in c[i], b[i].do # "put"
               PROVE  Releases(b[i].fails, Failures(s, b[i]), G)
    BY <1>5 DEF FailsTo
  <2>1. Failures(s, b[i]) = Failures(s, a[i])
    <3>1. b[i].obj = a[i].obj /\ Lost(b[i]) = Lost(a[i])
      BY <1>4 DEF Lost
    <3> QED
      BY <3>1, Zenon DEF Failures
  <2>2. Releases(a[i].fails, Failures(s, a[i]), F)
    BY <1>3, <1>4 DEF FailsTo
  <2>3. Releases(a[i].fails \o u, Failures(s, a[i]), G)
    BY <2>2, ReleasesConcat
  <2> QED
    BY <1>4, <2>1, <2>3
<1> QED
  BY <1>3, <1>5, <1>6, <1>7 DEF Runs, b

-----------------------------------------------------------------------------
(***************************************************************************)
(* What is held: of each kind of object as many as h says, or more of      *)
(* those that the causes of a loss excuse; a buffer whose pointer is       *)
(* tested is there exactly if that is set; handles may be open if they are *)
(* in U, and are so if their pointer is set.                               *)
(***************************************************************************)
Excused(o, cs) ==
  \/ o = "source" /\ "not opened" \in cs
  \/ o \in {"transfer", "buffer"} /\ "not started" \in cs
  \/ o \in Handles /\ "opened again" \in cs

Buffers == {"text", "bits"}

Counted(s, h) ==
  \A o \in Objects \ Handles :
    s.live[o] >= h[o] /\ (s.live[o] = h[o] \/ Excused(o, s.causes))

Tracked(s, h) == \A o \in Buffers : o \in s.ptr <=> h[o] # 0

Opened(s, U) ==
  \A o \in Handles :
    /\ o \in s.ptr => s.live[o] >= 1
    /\ \/ Excused(o, s.causes)
       \/ o \in s.ptr /\ s.live[o] = 1 /\ o \in U
       \/ o \notin s.ptr /\ s.live[o] = 0

Holds(h, U) == {s \in State : Counted(s, h) /\ Tracked(s, h) /\ Opened(s, U)}

More(h, o) == [h EXCEPT ![o] = @ + 1]

Held == [Objects -> Nat]

\* One more of one kind, and as many of the others
LEMMA MoreHeld ==
  ASSUME NEW h \in Held, NEW o \in Objects
  PROVE  /\ More(h, o) \in Held /\ More(h, o)[o] = h[o] + 1
         /\ \A p \in Objects : p # o => More(h, o)[p] = h[p]
BY DEF Held, More

\* No release at all
LEMMA NothingToDo ==
  ASSUME NEW P, NEW Q, P \subseteq Q, Q \subseteq State
  PROVE  Releases(<< >>, P, Q)
<1> DEFINE c == [i \in 1 .. 0 + 1 |-> Q]
<1>1. << >> \in Seq(Release) /\ Len(<< >>) = 0
  BY EmptySeq
<1>2. c \in [1 .. 0 + 1 -> SUBSET State] /\ c[1] = Q /\ c[0 + 1] = Q
  OBVIOUS
<1>3. Along(<< >>, c)
  BY <1>1 DEF Along
<1> HIDE DEF c
<1> QED
  BY <1>1, <1>2, <1>3 DEF Releases

\* A single step
LEMMA OneStep ==
  ASSUME NEW do \in Dos, NEW o \in Objects, NEW g \in {0, 1},
         NEW P, NEW Q, NEW F, P \subseteq State, Q \subseteq State, F \subseteq State,
         NEW t, t = [do |-> do, obj |-> o, guarded |-> g, fails |-> << >>],
         \A s \in P : Effect(s, t) \in Q,
         do # "put" => \A s \in P : Failures(s, t) \subseteq F
  PROVE  Runs(Step(do, o, g), P, Q, F)
<1> DEFINE c == [i \in 1 .. 1 + 1 |-> IF i = 1 THEN P ELSE Q]
           a == <<t>>
<1>1. a = Step(do, o, g)
  BY DEF Step
<1>2. t \in StepType
  BY EmptySeq DEF StepType
<1>3. a \in Seq(StepType) /\ Len(a) = 1 /\ a[1] = t
  BY <1>2
<1>4. c \in [1 .. 1 + 1 -> SUBSET State] /\ c[1] = P /\ c[1 + 1] = Q
  OBVIOUS
<1> HIDE DEF a, c
<1>5. Along(a, c)
  BY <1>3, <1>4 DEF Along
<1>6. FailsTo(a, c, F)
  <2>1. \A s \in P : do # "put" => Releases(<< >>, Failures(s, t), F)
    BY NothingToDo
  <2>2. t.do = do /\ t.fails = << >>
    OBVIOUS
  <2> QED
    BY <1>3, <1>4, <2>1, <2>2 DEF FailsTo
<1> QED
  BY <1>1, <1>3, <1>4, <1>5, <1>6 DEF Runs

\* A single release
LEMMA OneRelease ==
  ASSUME NEW o \in Objects, NEW g \in {0, 1},
         NEW P, NEW Q, P \subseteq State, Q \subseteq State,
         NEW t, t = [do |-> "put", obj |-> o, guarded |-> g, fails |-> << >>],
         \A s \in P : Effect(s, t) \in Q
  PROVE  Releases(Step("put", o, g), P, Q)
<1> DEFINE c == [i \in 1 .. 1 + 1 |-> IF i = 1 THEN P ELSE Q]
           a == <<t>>
<1>1. a = Step("put", o, g)
  BY DEF Step
<1>2. t \in Release
  BY DEF Release
<1>3. a \in Seq(Release) /\ Len(a) = 1 /\ a[1] = t
  BY <1>2
<1>4. c \in [1 .. 1 + 1 -> SUBSET State] /\ c[1] = P /\ c[1 + 1] = Q
  OBVIOUS
<1> HIDE DEF a, c
<1>5. Along(a, c)
  BY <1>3, <1>4 DEF Along
<1> QED
  BY <1>1, <1>3, <1>4, <1>5 DEF Releases

\* What holds something is a state.
LEMMA HoldsState == \A h, U : Holds(h, U) \subseteq State
BY DEF Holds

\* A failure that loses nothing leaves what is held.
LEMMA FailureHolds ==
  ASSUME NEW h \in Held, NEW U, NEW s \in Holds(h, U), NEW o \in Objects, o \notin Handles,
         NEW t, t.obj = o, Lost(t) = {}
  PROVE  Failures(s, t) \subseteq Holds(h, U)
<1>1. s \in State
  BY HoldsState
<1>2. s.ptr \ ({t.obj} \cap Handles) = s.ptr /\ s.causes \cup Lost(t) = s.causes
  OBVIOUS
<1>3. [s EXCEPT !.ptr = s.ptr, !.causes = s.causes] = s
  BY <1>1 DEF State
<1> QED
  BY <1>2, <1>3 DEF Failures

\* The state s with another number of o and other pointers
With(s, o, k, p) == [s EXCEPT !.live[o] = k, !.ptr = p]

\* and what it consists of.
LEMMA WithIs ==
  ASSUME NEW s \in State, NEW o \in Objects, NEW k \in Nat, NEW p \in SUBSET Objects
  PROVE  /\ With(s, o, k, p) \in State
         /\ With(s, o, k, p).causes = s.causes /\ With(s, o, k, p).ptr = p
         /\ With(s, o, k, p).live[o] = k
         /\ \A q \in Objects : q # o => With(s, o, k, p).live[q] = s.live[q]
<1> DEFINE n == With(s, o, k, p)
           l == [s.live EXCEPT ![o] = k]
<1>1. s.live \in [Objects -> Nat]
  BY DEF State
<1>2. l \in [Objects -> Nat] /\ l[o] = k /\ \A q \in Objects : q # o => l[q] = s.live[q]
  BY <1>1
<1>3. n = [s EXCEPT !.live = l, !.ptr = p]
  BY DEF State, With
<1> HIDE DEF l, n
<1>4. n \in State /\ n.causes = s.causes /\ n.ptr = p /\ n.live = l
  BY <1>2, <1>3 DEF State
<1> QED
  BY <1>2, <1>4 DEF n

\* One more is held of what has been got,
LEMMA GetEffect ==
  ASSUME NEW h \in Held, NEW U, NEW s \in Holds(h, U), NEW o \in Objects, o \notin Handles,
         o \in Buffers => h[o] = 0
  PROVE  Gotten(s, o) \in Holds(More(h, o), U)
<1> DEFINE n == Gotten(s, o)
<1>1. s \in State /\ Counted(s, h) /\ Tracked(s, h) /\ Opened(s, U)
  BY DEF Holds
<1>2. /\ n \in State /\ n.causes = s.causes /\ n.ptr = s.ptr \cup {o}
      /\ n.live[o] = s.live[o] + 1 /\ \A p \in Objects : p # o => n.live[p] = s.live[p]
  <2>1. s.live[o] + 1 \in Nat /\ s.ptr \cup {o} \in SUBSET Objects
    BY <1>1 DEF State
  <2>2. n = With(s, o, s.live[o] + 1, s.ptr \cup {o})
    BY DEF Gotten, With
  <2> QED
    BY <1>1, <2>1, <2>2, WithIs
<1> HIDE DEF n
<1>3. h \in [Objects -> Nat] /\ s.live \in [Objects -> Nat]
  BY <1>1 DEF Held, State
<1>4. Counted(n, More(h, o))
  BY <1>1, <1>2, <1>3, MoreHeld DEF Counted
<1>5. Tracked(n, More(h, o))
  <2> SUFFICES ASSUME NEW q \in Buffers PROVE q \in n.ptr <=> More(h, o)[q] # 0
    BY DEF Tracked
  <2>1. q \in Objects /\ (q \in s.ptr <=> h[q] # 0)
    BY <1>1 DEF Tracked, Buffers, Objects
  <2>2. CASE q = o
    <3>1. More(h, o)[o] = h[o] + 1 /\ h[o] \in Nat
      BY <1>3, MoreHeld
    <3> QED
      BY <1>2, <2>2, <3>1
  <2>3. CASE q # o
    <3>1. More(h, o)[q] = h[q]
      BY <2>1, <2>3, MoreHeld
    <3> QED
      BY <1>2, <2>1, <2>3, <3>1
  <2> QED
    BY <2>2, <2>3
<1>6. Opened(n, U)
  BY <1>1, <1>2 DEF Opened, Handles, Objects
<1> QED
  BY <1>2, <1>4, <1>5, <1>6 DEF Holds, n

\* and a handle may then be open, unless that fails.
LEMMA GetHandleEffect ==
  ASSUME NEW h \in Held, NEW U, NEW s \in Holds(h, U), NEW o \in Handles, o \notin U
  PROVE  /\ Gotten(s, o) \in Holds(h, U \cup {o})
         /\ \A t : t.obj = o /\ Lost(t) = {} => Failures(s, t) \subseteq Holds(h, U)
<1>1. s \in State /\ Counted(s, h) /\ Tracked(s, h) /\ Opened(s, U)
  BY DEF Holds
<1>2. o \in Objects
  BY DEF Handles, Objects
<1>3. Gotten(s, o) \in Holds(h, U \cup {o})
  <2> DEFINE n == Gotten(s, o)
  <2>1. /\ n \in State /\ n.causes = s.causes /\ n.ptr = s.ptr \cup {o}
        /\ n.live[o] = s.live[o] + 1 /\ \A p \in Objects : p # o => n.live[p] = s.live[p]
    <3>1. s.live[o] + 1 \in Nat /\ s.ptr \cup {o} \in SUBSET Objects
      BY <1>1, <1>2 DEF State
    <3>2. n = With(s, o, s.live[o] + 1, s.ptr \cup {o})
      BY DEF Gotten, With
    <3> QED
      BY <1>1, <1>2, <3>1, <3>2, WithIs
  <2> HIDE DEF n
  <2>2. s.live \in [Objects -> Nat] /\ n.live \in [Objects -> Nat]
    BY <1>1, <2>1 DEF State
  <2>3. Counted(n, h)
    BY <1>1, <2>1, <2>2 DEF Counted
  <2>4. Tracked(n, h)
    BY <1>1, <2>1 DEF Tracked, Buffers, Handles
  <2>5. Opened(n, U \cup {o})
    BY <1>1, <1>2, <2>1, <2>2 DEF Opened, Handles, Objects
  <2> QED
    BY <2>1, <2>3, <2>4, <2>5 DEF Holds, n
<1>4. ASSUME NEW t, t.obj = o, Lost(t) = {}, NEW n \in Failures(s, t)
      PROVE  n \in Holds(h, U)
  <2>1. PICK p \in {s.ptr, s.ptr \ {o}} : n = [s EXCEPT !.ptr = p]
    <3>1. s.causes \cup Lost(t) = s.causes /\ {t.obj} \cap Handles = {o}
      BY <1>4
    <3>2. \A p : [s EXCEPT !.ptr = p, !.causes = s.causes] = [s EXCEPT !.ptr = p]
      BY <1>1 DEF State
    <3>3. PICK p \in {s.ptr, s.ptr \ ({t.obj} \cap Handles)} :
            n = [s EXCEPT !.ptr = p, !.causes = s.causes \cup Lost(t)]
      BY <1>4, Zenon DEF Failures
    <3>4. p \in {s.ptr, s.ptr \ {o}}
      BY <1>4, <3>1, <3>3
    <3> QED
      BY <3>1, <3>2, <3>3, <3>4, Zenon
  <2>2. n \in State /\ n.causes = s.causes /\ n.live = s.live /\ n.ptr = p
    BY <1>1, <2>1 DEF State
  <2>3. Counted(n, h)
    BY <1>1, <2>2 DEF Counted
  <2>4. Tracked(n, h)
    BY <1>1, <2>1, <2>2 DEF Tracked, Buffers, Handles
  <2>5. Opened(n, U)
    BY <1>1, <2>1, <2>2 DEF Opened
  <2> QED
    BY <2>2, <2>3, <2>4, <2>5 DEF Holds
<1> QED
  BY <1>3, <1>4

\* One less is held of what is released.
LEMMA FreeEffect ==
  ASSUME NEW h \in Held, NEW U, NEW o \in Objects, o \notin Handles, NEW r, r.obj = o,
         NEW s \in Holds(More(h, o), U), o \in Buffers => h[o] = 0,
         r.guarded = 0 \/ o \in Buffers
  PROVE  Released(s, r) \in Holds(h, U)
<1>1. s \in State /\ Counted(s, More(h, o)) /\ Tracked(s, More(h, o)) /\ Opened(s, U)
  BY DEF Holds
<1>2. h \in [Objects -> Nat] /\ s.live \in [Objects -> Nat]
  BY <1>1 DEF Held, State
<1>3. s.live[o] >= h[o] + 1 /\ s.live[o] \in Nat /\ h[o] \in Nat
  BY <1>1, <1>2, MoreHeld DEF Counted
<1>4. o \in Buffers => o \in s.ptr
  BY <1>1, <1>2, MoreHeld DEF Tracked
<1> DEFINE n == Released(s, r)
<1>5. n = With(s, o, s.live[o] - 1, s.ptr \ {o})
  BY <1>3, <1>4 DEF Released, With
<1>6. /\ n \in State /\ n.causes = s.causes /\ n.ptr = s.ptr \ {o}
      /\ n.live[o] = s.live[o] - 1 /\ \A p \in Objects : p # o => n.live[p] = s.live[p]
  <2>1. s.live[o] - 1 \in Nat /\ s.ptr \ {o} \in SUBSET Objects
    BY <1>1, <1>3 DEF State
  <2> QED
    BY <1>1, <1>5, <2>1, WithIs
<1> HIDE DEF n
<1>7. Counted(n, h)
  BY <1>1, <1>2, <1>3, <1>6, MoreHeld DEF Counted
<1>8. Tracked(n, h)
  <2> SUFFICES ASSUME NEW q \in Buffers PROVE q \in n.ptr <=> h[q] # 0
    BY DEF Tracked
  <2>1. q \in Objects /\ (q \in s.ptr <=> More(h, o)[q] # 0)
    BY <1>1 DEF Tracked, Buffers, Objects
  <2>2. CASE q = o
    BY <1>6, <2>2
  <2>3. CASE q # o
    <3>1. More(h, o)[q] = h[q]
      BY <2>1, <2>3, MoreHeld
    <3> QED
      BY <1>6, <2>1, <2>3, <3>1
  <2> QED
    BY <2>2, <2>3
<1>9. Opened(n, U)
  BY <1>1, <1>6 DEF Opened, Handles, Objects
<1> QED
  BY <1>6, <1>7, <1>8, <1>9 DEF Holds, n

\* A pointer that is not set is not released.
LEMMA FreeUnsetEffect ==
  ASSUME NEW h \in Held, NEW U, NEW o \in Buffers, NEW r, r.obj = o, r.guarded = 1,
         NEW s \in Holds(h, U), h[o] = 0
  PROVE  Released(s, r) \in Holds(h, U)
BY DEF Released, Holds, Tracked

\* A handle is closed by ftdi_deinit() if there is one, and its pointer is not set then.
LEMMA CloseEffect ==
  ASSUME NEW h \in Held, NEW U, NEW V, NEW o \in Handles, NEW r, r.obj = o, r.guarded = 1,
         NEW s \in Holds(h, U), U \ {o} \subseteq V
  PROVE  Released(s, r) \in Holds(h, V)
<1>1. s \in State /\ Counted(s, h) /\ Tracked(s, h) /\ Opened(s, U)
  BY DEF Holds
<1>2. s.live \in [Objects -> Nat] /\ o \in Objects
  BY <1>1 DEF State, Handles, Objects
<1>3. CASE o \notin s.ptr
  <2>1. Released(s, r) = s
    BY <1>3 DEF Released
  <2>2. Opened(s, V)
    BY <1>1, <1>3 DEF Opened
  <2> QED
    BY <1>1, <2>1, <2>2 DEF Holds
<1>4. CASE o \in s.ptr
  <2> DEFINE n == Released(s, r)
  <2>1. s.live[o] >= 1 /\ s.live[o] \in Nat
    BY <1>1, <1>2, <1>4 DEF Opened
  <2>2. n = With(s, o, s.live[o] - 1, s.ptr \ {o})
    BY <1>4, <2>1 DEF Released, With
  <2>3. /\ n \in State /\ n.causes = s.causes /\ n.ptr = s.ptr \ {o}
        /\ n.live[o] = s.live[o] - 1 /\ \A p \in Objects : p # o => n.live[p] = s.live[p]
    <3>1. s.live[o] - 1 \in Nat /\ s.ptr \ {o} \in SUBSET Objects
      BY <1>1, <2>1 DEF State
    <3> QED
      BY <1>1, <1>2, <2>2, <3>1, WithIs
  <2> HIDE DEF n
  <2>4. Counted(n, h)
    BY <1>1, <2>3 DEF Counted
  <2>5. Tracked(n, h)
    BY <1>1, <2>3 DEF Tracked, Buffers, Handles
  <2>6. Opened(n, V)
    BY <1>1, <1>2, <2>1, <2>3 DEF Opened, Handles, Objects
  <2> QED
    BY <2>3, <2>4, <2>5, <2>6 DEF Holds, n
<1> QED
  BY <1>3, <1>4

-----------------------------------------------------------------------------
(***************************************************************************)
(* Contracts of the elementary steps                                       *)
(***************************************************************************)
\* A handle that need not be open may be so.
LEMMA HoldsMore ==
  ASSUME NEW h, NEW U, NEW V, U \subseteq V
  PROVE  Holds(h, U) \subseteq Holds(h, V)
<1>1. \A s : Opened(s, U) => Opened(s, V)
  BY DEF Opened
<1> QED
  BY <1>1 DEF Holds

\* What gets nothing
LEMMA TryRuns ==
  ASSUME NEW h \in Held, NEW U
  PROVE  Runs(Try, Holds(h, U), Holds(h, U), Holds(h, U))
<1> DEFINE t == [do |-> "try", obj |-> "ov", guarded |-> 0, fails |-> << >>]
           X == Holds(h, U)
<1>1. X \subseteq State /\ "try" \in Dos /\ "ov" \in Objects /\ "ov" \notin Handles
  BY HoldsState DEF Dos, Objects, Handles
<1>2. \A s \in X : Effect(s, t) \in X
  BY DEF Effect
<1>3. t.obj = "ov" /\ Lost(t) = {}
  BY DEF Lost
<1>4. \A s \in X : Failures(s, t) \subseteq X
  BY <1>1, <1>3, FailureHolds
<1> QED
  BY <1>1, <1>2, <1>4, OneStep DEF Try

\* Getting what is no handle
LEMMA GetRuns ==
  ASSUME NEW h \in Held, NEW U, NEW o \in Objects, o \notin Handles, o \in Buffers => h[o] = 0
  PROVE  Runs(Get(o), Holds(h, U), Holds(More(h, o), U), Holds(h, U))
<1> DEFINE t == [do |-> "get", obj |-> o, guarded |-> 0, fails |-> << >>]
           X == Holds(h, U)
           Y == Holds(More(h, o), U)
<1>1. X \subseteq State /\ Y \subseteq State /\ "get" \in Dos
  BY HoldsState DEF Dos
<1>2. \A s \in X : Effect(s, t) \in Y
  BY GetEffect DEF Effect
<1>3. t.obj = o /\ Lost(t) = {}
  BY DEF Lost
<1>4. \A s \in X : Failures(s, t) \subseteq X
  BY <1>3, FailureHolds
<1> QED
  BY <1>1, <1>2, <1>4, OneStep DEF Get

\* Getting a handle
LEMMA OpenRuns ==
  ASSUME NEW h \in Held, NEW U, NEW o \in Handles, o \notin U
  PROVE  Runs(Get(o), Holds(h, U), Holds(h, U \cup {o}), Holds(h, U))
<1> DEFINE t == [do |-> "get", obj |-> o, guarded |-> 0, fails |-> << >>]
           X == Holds(h, U)
           Y == Holds(h, U \cup {o})
<1>1. X \subseteq State /\ Y \subseteq State /\ "get" \in Dos /\ o \in Objects
  BY HoldsState DEF Dos, Handles, Objects
<1>2. \A s \in X : Effect(s, t) \in Y
  BY GetHandleEffect DEF Effect
<1>3. t.obj = o /\ Lost(t) = {}
  BY DEF Lost
<1>4. \A s \in X : Failures(s, t) \subseteq X
  BY <1>3, GetHandleEffect
<1> QED
  BY <1>1, <1>2, <1>4, OneStep DEF Get

\* Releasing what is held
LEMMA FreeReleases ==
  ASSUME NEW h \in Held, NEW U, NEW o \in Objects, o \notin Handles, o \in Buffers => h[o] = 0
  PROVE  Releases(Free(o), Holds(More(h, o), U), Holds(h, U))
<1> DEFINE t == [do |-> "put", obj |-> o, guarded |-> 0, fails |-> << >>]
           X == Holds(More(h, o), U)
           Y == Holds(h, U)
<1>1. X \subseteq State /\ Y \subseteq State
  BY HoldsState
<1>2. \A s \in X : Effect(s, t) \in Y
  BY FreeEffect DEF Effect
<1> QED
  BY <1>1, <1>2, OneRelease DEF Free

\* A label that is reached with the buffer and without it
LEMMA FreeIfSetReleases ==
  ASSUME NEW h \in Held, NEW U, NEW o \in Buffers, h[o] = 0
  PROVE  Releases(FreeIfSet(o), Holds(More(h, o), U) \cup Holds(h, U), Holds(h, U))
<1> DEFINE t == [do |-> "put", obj |-> o, guarded |-> 1, fails |-> << >>]
           X == Holds(More(h, o), U) \cup Holds(h, U)
           Y == Holds(h, U)
<1>1. X \subseteq State /\ Y \subseteq State /\ o \in Objects /\ o \notin Handles
  BY HoldsState DEF Buffers, Objects, Handles
<1>2. \A s \in Holds(More(h, o), U) : Effect(s, t) \in Y
  BY <1>1, FreeEffect DEF Effect
<1>3. \A s \in Y : Effect(s, t) \in Y
  BY FreeUnsetEffect DEF Effect
<1> QED
  BY <1>1, <1>2, <1>3, OneRelease DEF FreeIfSet

\* A handle that may be open is closed.
LEMMA CloseReleases ==
  ASSUME NEW h \in Held, NEW U, NEW V, NEW o \in Handles, U \ {o} \subseteq V
  PROVE  Releases(FreeIfSet(o), Holds(h, U), Holds(h, V))
<1> DEFINE t == [do |-> "put", obj |-> o, guarded |-> 1, fails |-> << >>]
           X == Holds(h, U)
           Y == Holds(h, V)
<1>1. X \subseteq State /\ Y \subseteq State /\ o \in Objects
  BY HoldsState DEF Objects, Handles
<1>2. \A s \in X : Effect(s, t) \in Y
  BY CloseEffect DEF Effect
<1> QED
  BY <1>1, <1>2, OneRelease DEF FreeIfSet

\* If the archive cannot be opened the source is lost, and that is remembered.
LEMMA SourceLost ==
  ASSUME NEW h \in Held, NEW U, NEW s \in Holds(More(h, "source"), U),
         NEW o \in Objects, o \notin Handles, NEW t, t.obj = o, t.do = "move"
  PROVE  Failures(s, t) \subseteq Holds(h, U)
<1>1. /\ s \in State /\ Counted(s, More(h, "source")) /\ Tracked(s, More(h, "source"))
      /\ Opened(s, U) /\ "source" \in Objects
  BY DEF Holds, Objects
<1>2. s.live \in [Objects -> Nat] /\ h \in [Objects -> Nat]
  BY <1>1 DEF State, Held
<1> SUFFICES ASSUME NEW n \in Failures(s, t) PROVE n \in Holds(h, U)
  OBVIOUS
<1>3. n = [s EXCEPT !.causes = @ \cup {"not opened"}]
  <2>1. s.ptr \ ({t.obj} \cap Handles) = s.ptr /\ Lost(t) = {"not opened"}
    BY DEF Lost
  <2>2. \A c : [s EXCEPT !.ptr = s.ptr, !.causes = c] = [s EXCEPT !.causes = c]
    BY <1>1 DEF State
  <2> QED
    BY <2>1, <2>2 DEF Failures
<1>4. /\ n \in State /\ n.live = s.live /\ n.ptr = s.ptr
      /\ n.causes = s.causes \cup {"not opened"}
  BY <1>1, <1>3 DEF State, Causes
<1>5. Counted(n, h)
  <2> SUFFICES ASSUME NEW p \in Objects \ Handles
               PROVE  n.live[p] >= h[p] /\ (n.live[p] = h[p] \/ Excused(p, n.causes))
    BY DEF Counted
  <2>1. /\ s.live[p] >= More(h, "source")[p]
        /\ s.live[p] = More(h, "source")[p] \/ Excused(p, s.causes)
        /\ s.live[p] \in Nat /\ h[p] \in Nat
    BY <1>1, <1>2 DEF Counted
  <2>2. CASE p = "source"
    <3>1. Excused(p, n.causes)
      BY <1>4, <2>2 DEF Excused
    <3>2. More(h, "source")[p] = h[p] + 1
      BY <1>1, <2>2, MoreHeld
    <3>3. n.live[p] >= h[p]
      <4>1. \A x, y \in Nat : x >= y + 1 => x >= y
        OBVIOUS
      <4>2. s.live[p] >= h[p] + 1 /\ s.live[p] \in Nat /\ h[p] \in Nat
        BY <2>1, <3>2
      <4>3. s.live[p] >= h[p]
        BY <4>1, <4>2, Zenon
      <4> QED
        BY <1>4, <4>3, Zenon
    <3> QED
      BY <3>1, <3>3
  <2>3. CASE p # "source"
    <3>1. Excused(p, s.causes) => Excused(p, n.causes)
      BY <1>4 DEF Excused
    <3>2. More(h, "source")[p] = h[p]
      BY <1>1, <2>3, MoreHeld
    <3> QED
      BY <1>4, <2>1, <3>1, <3>2
  <2> QED
    BY <2>2, <2>3
<1>6. Tracked(n, h)
  <2>1. \A q \in Buffers : More(h, "source")[q] = h[q]
    BY <1>1, MoreHeld DEF Buffers, Objects
  <2> QED
    BY <1>1, <1>4, <2>1 DEF Tracked
<1>7. Opened(n, U)
  BY <1>1, <1>4 DEF Opened, Excused, Handles
<1> QED
  BY <1>4, <1>5, <1>6, <1>7 DEF Holds

\* zip_open_from_source(): the source becomes part of the archive.
LEMMA MoveRuns ==
  ASSUME NEW h \in Held, NEW U, NEW p \in {"package", "other"}
  PROVE  Runs(Move(p), Holds(More(h, "source"), U), Holds(More(h, p), U), Holds(h, U))
<1> DEFINE t == [do |-> "move", obj |-> p, guarded |-> 0, fails |-> << >>]
           X == Holds(More(h, "source"), U)
           Y == Holds(More(h, p), U)
           Z == Holds(h, U)
           r == Free("source")[1]
<1>1. /\ X \subseteq State /\ Y \subseteq State /\ Z \subseteq State
      /\ "move" \in Dos /\ p \in Objects /\ p \notin Handles /\ p \notin Buffers
      /\ "source" \in Objects /\ "source" \notin Handles /\ "source" \notin Buffers
  BY HoldsState DEF Dos, Objects, Handles, Buffers
<1>2. r.obj = "source" /\ r.guarded = 0
  BY DEF Free, Step
<1>3. \A s \in X : Released(s, r) \in Z
  BY <1>1, <1>2, FreeEffect
<1>4. \A s \in Z : Gotten(s, p) \in Y
  BY <1>1, GetEffect
<1>5. \A s : Effect(s, t) = Gotten(Released(s, r), p)
  BY DEF Effect
<1>6. \A s \in X : Effect(s, t) \in Y
  BY <1>3, <1>4, <1>5
<1>7. t.obj = p /\ t.do = "move"
  OBVIOUS
<1>8. \A s \in X : Failures(s, t) \subseteq Z
  BY <1>1, <1>7, SourceLost
<1> HIDE DEF X, Y, Z
<1> QED
  BY <1>1, <1>6, <1>8, OneStep DEF Move, X, Y, Z

\* What is held but for transfers and their buffers
LEMMA StartRuns ==
  ASSUME NEW h \in Held, NEW m \in Held, NEW U,
         \A o \in Objects : m[o] >= h[o] /\ (o \notin {"transfer", "buffer"} => m[o] = h[o])
  PROVE  Runs(Start, Holds(m, U), Holds(m, U), Holds(h, U))
<1> DEFINE t == [do |-> "start", obj |-> "transfer", guarded |-> 0, fails |-> << >>]
           X == Holds(m, U)
           Z == Holds(h, U)
<1>1. X \subseteq State /\ Z \subseteq State /\ "start" \in Dos /\ "transfer" \in Objects
  BY HoldsState DEF Dos, Objects
<1>2. \A s \in X : Effect(s, t) \in X
  BY DEF Effect
<1>3. ASSUME NEW s \in X, NEW n \in Failures(s, t) PROVE n \in Z
  <2>1. s \in State /\ Counted(s, m) /\ Tracked(s, m) /\ Opened(s, U)
    BY DEF Holds
  <2>2. n = [s EXCEPT !.causes = @ \cup {"not started"}]
    <3>1. s.ptr \ ({t.obj} \cap Handles) = s.ptr /\ Lost(t) = {"not started"}
      BY DEF Lost, Handles
    <3>2. \A c : [s EXCEPT !.ptr = s.ptr, !.causes = c] = [s EXCEPT !.causes = c]
      BY <2>1 DEF State
    <3> QED
      BY <1>3, <3>1, <3>2 DEF Failures
  <2>3. /\ n \in State /\ n.live = s.live /\ n.ptr = s.ptr
        /\ n.causes = s.causes \cup {"not started"}
    BY <2>1, <2>2 DEF State, Causes
  <2>4. Counted(n, h)
    <3> SUFFICES ASSUME NEW p \in Objects \ Handles
                 PROVE  n.live[p] >= h[p] /\ (n.live[p] = h[p] \/ Excused(p, n.causes))
      BY DEF Counted
    <3>1. /\ s.live[p] >= m[p] /\ (s.live[p] = m[p] \/ Excused(p, s.causes))
          /\ s.live[p] \in Nat /\ h[p] \in Nat /\ m[p] \in Nat /\ m[p] >= h[p]
      BY <2>1 DEF Counted, State, Held
    <3>2. CASE p \in {"transfer", "buffer"}
      <4>1. Excused(p, n.causes)
        BY <2>3, <3>2 DEF Excused
      <4>2. n.live[p] >= h[p]
        <5>1. \A x, y, z \in Nat : x >= y /\ y >= z => x >= z
          OBVIOUS
        <5>2. s.live[p] >= h[p]
          BY <3>1, <5>1, Zenon
        <5> QED
          BY <2>3, <5>2, Zenon
      <4> QED
        BY <4>1, <4>2
    <3>3. CASE p \notin {"transfer", "buffer"}
      BY <2>3, <3>1, <3>3 DEF Excused
    <3> QED
      BY <3>2, <3>3
  <2>5. Tracked(n, h)
    BY <2>1, <2>3 DEF Tracked, Buffers, Objects
  <2>6. Opened(n, U)
    BY <2>1, <2>3 DEF Opened, Excused, Handles
  <2> QED
    BY <2>3, <2>4, <2>5, <2>6 DEF Holds
<1> HIDE DEF X, Z
<1>4. \A s \in X : Failures(s, t) \subseteq Z
  BY <1>3
<1> QED
  BY <1>1, <1>2, <1>4, OneStep DEF Start, X, Z

-----------------------------------------------------------------------------
(***************************************************************************)
(* Contracts of the functions                                              *)
(***************************************************************************)
\* A call that holds o while it goes on, and releases it if what follows fails
LEMMA GetOn ==
  ASSUME NEW h \in Held, NEW U, NEW o \in Objects, o \notin Handles \cup Buffers,
         NEW a, NEW Q, Runs(a, Holds(More(h, o), U), Q, Holds(More(h, o), U))
  PROVE  Runs(Get(o) \o On(Free(o), a), Holds(h, U), Q, Holds(h, U))
<1>1. Runs(On(Free(o), a), Holds(More(h, o), U), Q, Holds(h, U))
  BY FreeReleases, RunsOn
<1>2. Runs(Get(o), Holds(h, U), Holds(More(h, o), U), Holds(h, U))
  BY GetRuns
<1> QED
  BY <1>1, <1>2, RunsConcat

\* The archive is closed if it does not have the files (src/src/fwpkg.c:70-88).
LEMMA LocateRuns ==
  ASSUME NEW h \in Held, NEW U, NEW p \in {"package", "other"}
  PROVE  Runs(fwpkg_locate_files(p), Holds(More(h, p), U), Holds(More(h, p), U), Holds(h, U))
<1> DEFINE X == Holds(More(h, p), U)
<1>1. p \in Objects /\ p \notin Handles /\ p \notin Buffers
  BY DEF Objects, Handles, Buffers
<1>2. Runs(Try, X, X, X)
  BY <1>1, TryRuns, MoreHeld
<1>3. Runs(Try \o Try, X, X, X)
  BY <1>2, RunsConcat
<1>4. Releases(Free(p), X, Holds(h, U))
  BY <1>1, FreeReleases
<1> QED
  BY <1>3, <1>4, RunsOn DEF fwpkg_locate_files

\* A package, from a file or the one that is built in (src/src/fwpkg.c:90-129)
LEMMA PackageRuns ==
  ASSUME NEW h \in Held, NEW U, NEW p \in {"package", "other"}, NEW f
  PROVE  Runs(fwpkg_init(p, f), Holds(h, U), Holds(More(h, p), U), Holds(h, U))
<1>1. /\ p \in Objects /\ p \notin Handles /\ p \notin Buffers
      /\ "source" \in Objects /\ "source" \notin Handles /\ "source" \notin Buffers
  BY DEF Objects, Handles, Buffers
<1> DEFINE X == Holds(h, U)
           Y == Holds(More(h, p), U)
           Z == Holds(More(h, "source"), U)
<1>2. Runs(fwpkg_locate_files(p), Y, Y, X)
  BY LocateRuns
<1>3. Runs(Get(p), X, Y, X) /\ Runs(Get("source"), X, Z, X)
  BY <1>1, GetRuns
<1>4. Runs(Move(p), Z, Y, X)
  BY MoveRuns
<1> HIDE DEF X, Y, Z
<1>5. Runs(fwpkg_init_from_file(p), X, Y, X)
  BY <1>2, <1>3, RunsConcat DEF fwpkg_init_from_file
<1>6. Runs(fwpkg_init_from_preload(p), X, Y, X)
  <2>1. Runs(Get("source") \o Move(p), X, Y, X)
    BY <1>3, <1>4, RunsConcat
  <2> QED
    BY <1>2, <2>1, RunsConcat DEF fwpkg_init_from_preload
<1> QED
  BY <1>5, <1>6 DEF fwpkg_init, X, Y

\* A file of the archive is closed whether it could be read or not.
LEMMA ReadRuns ==
  ASSUME NEW h \in Held, NEW U
  PROVE  Runs(fwpkg_read_file, Holds(h, U), Holds(h, U), Holds(h, U))
<1>1. "file" \in Objects /\ "file" \notin Handles /\ "file" \notin Buffers
  BY DEF Objects, Handles, Buffers
<1> DEFINE X == Holds(h, U)
           Y == Holds(More(h, "file"), U)
<1>2. Runs(Try, Y, Y, Y)
  BY <1>1, TryRuns, MoreHeld
<1>3. Runs(Get("file") \o On(Free("file"), Try), X, Y, X)
  BY <1>1, <1>2, GetOn
<1>4. Runs(Free("file"), Y, X, X)
  BY <1>1, FreeReleases, ReleasesRun
<1> HIDE DEF X, Y
<1>5. Runs(fwpkg_read_file, X, X, X)
  BY <1>3, <1>4, RunsConcat DEF fwpkg_read_file
<1> QED
  BY <1>5 DEF X

\* The text of the map does not outlive the parser (src/src/reg.c:94-131).
LEMMA RegMapRuns ==
  ASSUME NEW h \in Held, NEW U, h["text"] = 0
  PROVE  Runs(reg_init_from_fwpkg, Holds(h, U), Holds(h, U), Holds(h, U))
<1>1. "text" \in Objects /\ "text" \notin Handles /\ "text" \in Buffers
  BY DEF Objects, Handles, Buffers
<1> DEFINE X == Holds(h, U)
           Y == Holds(More(h, "text"), U)
<1>2. Runs(fwpkg_read_file, Y, Y, Y) /\ Runs(Try, Y, Y, Y)
  BY <1>1, ReadRuns, TryRuns, MoreHeld
<1>3. Runs(Get("text"), X, Y, X)
  BY <1>1, GetRuns
<1>4. Releases(FreeIfSet("text"), Y \cup X, X)
  BY <1>1, FreeIfSetReleases
<1>5. Runs(Free("text"), Y, X, X)
  BY <1>1, FreeReleases, ReleasesRun
<1> HIDE DEF X, Y
<1>6. Releases(FreeIfSet("text"), Y, X)
  BY <1>4, ReleasesWeaken
<1>7. Runs(fwpkg_read_file \o Try, Y, Y, Y)
  BY <1>2, RunsConcat
<1>8. Runs(On(FreeIfSet("text"), fwpkg_read_file \o Try), Y, Y, X)
  BY <1>6, <1>7, RunsOn
<1>9. Runs(Get("text") \o On(FreeIfSet("text"), fwpkg_read_file \o Try), X, Y, X)
  BY <1>3, <1>8, RunsConcat
<1>10. Runs(reg_init_from_fwpkg, X, X, X)
  BY <1>5, <1>9, RunsConcat DEF reg_init_from_fwpkg
<1> QED
  BY <1>10 DEF X

\* Behind the upload the bitstream is released and its pointer not set.
LEMMA LoadRuns ==
  ASSUME NEW h \in Held, NEW U, h["bits"] = 0
  PROVE  Runs(ov_load_firmware_from_fwpkg, Holds(h, U), Holds(h, U), Holds(h, U))
<1>1. "bits" \in Objects /\ "bits" \notin Handles /\ "bits" \in Buffers
  BY DEF Objects, Handles, Buffers
<1> DEFINE X == Holds(h, U)
           Y == Holds(More(h, "bits"), U)
<1>2. Runs(fwpkg_read_file, Y, Y, Y) /\ Runs(Try, Y, Y, Y) /\ Runs(Try, X, X, X)
  BY <1>1, ReadRuns, TryRuns, MoreHeld
<1>3. Runs(Get("bits"), X, Y, X)
  BY <1>1, GetRuns
<1>4. Releases(FreeIfSet("bits"), Y \cup X, X)
  BY <1>1, FreeIfSetReleases
<1>5. Runs(Free("bits"), Y, X, Y \cup X)
  BY <1>1, FreeReleases, ReleasesRun
<1> HIDE DEF X, Y
<1>6. /\ Runs(fwpkg_read_file, Y, Y, Y \cup X) /\ Runs(Try, Y, Y, Y \cup X)
      /\ Runs(Try, X, X, Y \cup X)
  BY <1>2, RunsWeaken
<1>7. Runs(fwpkg_read_file \o Try, Y, Y, Y \cup X)
  BY <1>6, RunsConcat
<1>8. Runs((fwpkg_read_file \o Try) \o Free("bits"), Y, X, Y \cup X)
  BY <1>5, <1>7, RunsConcat
<1>9. Runs(((fwpkg_read_file \o Try) \o Free("bits")) \o Try, Y, X, Y \cup X)
  BY <1>6, <1>8, RunsConcat
<1>10. Runs(On(FreeIfSet("bits"), ((fwpkg_read_file \o Try) \o Free("bits")) \o Try), Y, X, X)
  BY <1>4, <1>9, RunsOn
<1>11. Runs(ov_load_firmware_from_fwpkg, X, X, X)
  BY <1>3, <1>10, RunsConcat DEF ov_load_firmware_from_fwpkg
<1> QED
  BY <1>11 DEF X

\* The contexts of both channels
LEMMA ChaInitRuns ==
  ASSUME NEW h \in Held, NEW U, h["text"] = 0
  PROVE  Runs(cha_init, Holds(h, U), Holds(More(h, "ftdiA"), U), Holds(h, U))
<1>1. "ftdiA" \in Objects /\ "ftdiA" \notin Handles \cup Buffers
  BY DEF Objects, Handles, Buffers
<1>2. Runs(Try, Holds(More(h, "ftdiA"), U), Holds(More(h, "ftdiA"), U),
           Holds(More(h, "ftdiA"), U))
  BY <1>1, TryRuns, MoreHeld
<1> DEFINE X == Holds(h, U)
           Y == Holds(More(h, "ftdiA"), U)
<1>3. Runs(On(Free("ftdiA"), Try), Y, Y, X)
  BY <1>1, <1>2, FreeReleases, RunsOn
<1>4. Runs(Get("ftdiA"), X, Y, X) /\ Runs(reg_init_from_fwpkg, X, X, X)
  BY <1>1, GetRuns, RegMapRuns
<1> HIDE DEF X, Y
<1>5. Runs(reg_init_from_fwpkg \o Get("ftdiA"), X, Y, X)
  BY <1>4, RunsConcat
<1>6. Runs(cha_init, X, Y, X)
  BY <1>3, <1>5, RunsConcat DEF cha_init
<1> QED
  BY <1>6 DEF X, Y

\* The same for channel B
LEMMA ChbInitRuns ==
  ASSUME NEW h \in Held, NEW U
  PROVE  Runs(chb_init, Holds(h, U), Holds(More(h, "ftdiB"), U), Holds(h, U))
<1>1. "ftdiB" \in Objects /\ "ftdiB" \notin Handles \cup Buffers
  BY DEF Objects, Handles, Buffers
<1>2. Runs(Try, Holds(More(h, "ftdiB"), U), Holds(More(h, "ftdiB"), U),
           Holds(More(h, "ftdiB"), U))
  BY <1>1, TryRuns, MoreHeld
<1> QED
  BY <1>1, <1>2, GetOn DEF chb_init

\* Opening a handle and setting it up
LEMMA HandleRuns ==
  ASSUME NEW h \in Held, NEW U, NEW o \in Handles, o \notin U, NEW a,
         Runs(a, Holds(h, U \cup {o}), Holds(h, U \cup {o}), Holds(h, U \cup {o}))
  PROVE  Runs(Get(o) \o On(FreeIfSet(o), a), Holds(h, U), Holds(h, U \cup {o}), Holds(h, U))
<1> DEFINE X == Holds(h, U)
           Y == Holds(h, U \cup {o})
<1>1. (U \cup {o}) \ {o} \subseteq U
  OBVIOUS
<1>2. Releases(FreeIfSet(o), Y, X)
  BY <1>1, CloseReleases
<1>3. Runs(On(FreeIfSet(o), a), Y, Y, X)
  BY <1>2, RunsOn
<1>4. Runs(Get(o), X, Y, X)
  BY OpenRuns
<1> HIDE DEF X, Y
<1>5. Runs(Get(o) \o On(FreeIfSet(o), a), X, Y, X)
  BY <1>3, <1>4, RunsConcat
<1> QED
  BY <1>5 DEF X, Y

\* The handles of both channels (src/src/cha.c:188-210, src/src/chb.c:82-154)
LEMMA ChaOpenRuns ==
  ASSUME NEW h \in Held, NEW U, "usbA" \notin U
  PROVE  Runs(cha_open, Holds(h, U), Holds(h, U \cup {"usbA"}), Holds(h, U))
<1> DEFINE Y == Holds(h, U \cup {"usbA"})
<1>1. Runs(Try \o Try, Y, Y, Y)
  BY TryRuns, RunsConcat
<1>2. "usbA" \in Handles
  BY DEF Handles
<1> QED
  BY <1>1, <1>2, HandleRuns DEF cha_open

\* The same for channel B
LEMMA ChbOpenRuns ==
  ASSUME NEW h \in Held, NEW U, "usbB" \notin U
  PROVE  Runs(chb_open, Holds(h, U), Holds(h, U \cup {"usbB"}), Holds(h, U))
<1> DEFINE Y == Holds(h, U \cup {"usbB"})
<1>1. Runs(Try, Y, Y, Y)
  BY TryRuns
<1>2. "usbB" \in Handles
  BY DEF Handles
<1> QED
  BY <1>1, <1>2, HandleRuns DEF chb_open

\* A context is released with the handle that may be open.
LEMMA ChaDestroyReleases ==
  ASSUME NEW h \in Held, NEW U
  PROVE  Releases(cha_destroy, Holds(More(h, "ftdiA"), U), Holds(h, U \ {"usbA"}))
<1>1. /\ "ftdiA" \in Objects /\ "ftdiA" \notin Handles /\ "ftdiA" \notin Buffers
      /\ "usbA" \in Handles
  BY DEF Objects, Handles, Buffers
<1>2. Releases(FreeIfSet("usbA"), Holds(More(h, "ftdiA"), U),
               Holds(More(h, "ftdiA"), U \ {"usbA"}))
  BY <1>1, CloseReleases, MoreHeld
<1>3. Releases(Free("ftdiA"), Holds(More(h, "ftdiA"), U \ {"usbA"}), Holds(h, U \ {"usbA"}))
  BY <1>1, FreeReleases
<1> QED
  BY <1>2, <1>3, ReleasesConcat DEF cha_destroy

\* The same for channel B
LEMMA ChbDestroyReleases ==
  ASSUME NEW h \in Held, NEW U
  PROVE  Releases(chb_destroy, Holds(More(h, "ftdiB"), U), Holds(h, U \ {"usbB"}))
<1>1. /\ "ftdiB" \in Objects /\ "ftdiB" \notin Handles /\ "ftdiB" \notin Buffers
      /\ "usbB" \in Handles
  BY DEF Objects, Handles, Buffers
<1>2. Releases(FreeIfSet("usbB"), Holds(More(h, "ftdiB"), U),
               Holds(More(h, "ftdiB"), U \ {"usbB"}))
  BY <1>1, CloseReleases, MoreHeld
<1>3. Releases(Free("ftdiB"), Holds(More(h, "ftdiB"), U \ {"usbB"}), Holds(h, U \ {"usbB"}))
  BY <1>1, FreeReleases
<1> QED
  BY <1>2, <1>3, ReleasesConcat DEF chb_destroy

WithTransfer(h) == More(More(h, "transfer"), "buffer")

\* What it adds
LEMMA WithTransferHeld ==
  ASSUME NEW h \in Held
  PROVE  /\ WithTransfer(h) \in Held
         /\ \A o \in Objects :
              /\ WithTransfer(h)[o] >= h[o]
              /\ o \notin {"transfer", "buffer"} => WithTransfer(h)[o] = h[o]
<1> DEFINE m == More(h, "transfer")
<1>1. "transfer" \in Objects /\ "buffer" \in Objects
  BY DEF Objects
<1>2. /\ m \in Held /\ m["transfer"] = h["transfer"] + 1
      /\ \A o \in Objects : o # "transfer" => m[o] = h[o]
  BY <1>1, MoreHeld
<1> HIDE DEF m
<1>3. /\ More(m, "buffer") \in Held /\ More(m, "buffer")["buffer"] = m["buffer"] + 1
      /\ \A o \in Objects : o # "buffer" => More(m, "buffer")[o] = m[o]
  BY <1>1, <1>2, MoreHeld
<1>4. WithTransfer(h) = More(m, "buffer")
  BY DEF WithTransfer, m
<1>5. \A o \in Objects : h[o] \in Nat
  BY DEF Held
<1> QED
  BY <1>1, <1>2, <1>3, <1>4, <1>5

\* A transfer is released with its buffer.
LEMMA TransferReleases ==
  ASSUME NEW h \in Held, NEW U
  PROVE  Releases(libusb_free_transfer, Holds(WithTransfer(h), U), Holds(h, U))
<1>1. /\ "transfer" \in Objects /\ "transfer" \notin Handles /\ "transfer" \notin Buffers
      /\ "buffer" \in Objects /\ "buffer" \notin Handles /\ "buffer" \notin Buffers
  BY DEF Objects, Handles, Buffers
<1>2. Releases(Free("buffer"), Holds(WithTransfer(h), U), Holds(More(h, "transfer"), U))
  BY <1>1, FreeReleases, MoreHeld DEF WithTransfer
<1>3. Releases(Free("transfer"), Holds(More(h, "transfer"), U), Holds(h, U))
  BY <1>1, FreeReleases
<1> QED
  BY <1>2, <1>3, ReleasesConcat DEF libusb_free_transfer

\* A transfer, and what follows with it, at whose failure it is released
LEMMA TransferRuns ==
  ASSUME NEW h \in Held, NEW U, NEW next, NEW Q,
         Runs(next, Holds(WithTransfer(h), U), Q, Holds(WithTransfer(h), U))
  PROVE  Runs(Transfer(next), Holds(h, U), Q, Holds(h, U))
<1>1. /\ "transfer" \in Objects /\ "transfer" \notin Handles /\ "transfer" \notin Buffers
      /\ "buffer" \in Objects /\ "buffer" \notin Handles /\ "buffer" \notin Buffers
  BY DEF Objects, Handles, Buffers
<1> DEFINE X == Holds(h, U)
           Y == Holds(More(h, "transfer"), U)
           Z == Holds(WithTransfer(h), U)
<1>2. Runs(Get("buffer"), Y, Z, Y)
  BY <1>1, GetRuns, MoreHeld DEF WithTransfer
<1>3. Runs(Get("transfer"), X, Y, X) /\ Releases(Free("transfer"), Y, X)
  BY <1>1, GetRuns, FreeReleases
<1>4. Releases(libusb_free_transfer, Z, X)
  BY TransferReleases
<1>5. Runs(next, Z, Q, Z)
  OBVIOUS
<1> HIDE DEF X, Y, Z
<1>6. Runs(Get("transfer") \o On(Free("transfer"), Get("buffer")), X, Z, X)
  BY <1>2, <1>3, RunsOn, RunsConcat
<1>7. Runs(On(libusb_free_transfer, next), Z, Q, X)
  BY <1>4, <1>5, RunsOn
<1>8. Runs(Transfer(next), X, Q, X)
  BY <1>6, <1>7, RunsConcat DEF Transfer
<1> QED
  BY <1>8 DEF X

\* No step at all
LEMMA NothingRuns ==
  ASSUME NEW P, P \subseteq State, NEW F
  PROVE  Runs(<< >>, P, P, F)
BY NothingToDo, ReleasesRun

ThreeTransfers(h) == WithTransfer(WithTransfer(WithTransfer(h)))

\* The three transfers of the capture loop (src/src/cha.c:598-647, 718-724)
LEMMA LoopRuns ==
  ASSUME NEW h \in Held, NEW U
  PROVE  /\ Runs(cha_loop_init, Holds(h, U), Holds(ThreeTransfers(h), U), Holds(h, U))
         /\ Releases(cha_loop_destroy, Holds(ThreeTransfers(h), U), Holds(h, U))
<1> DEFINE h1 == WithTransfer(h)
           h2 == WithTransfer(h1)
           h3 == WithTransfer(h2)
<1>1. h1 \in Held /\ h2 \in Held /\ h3 \in Held
  BY WithTransferHeld
<1>2. h3 = ThreeTransfers(h)
  BY DEF ThreeTransfers
<1>3. Runs(<< >>, Holds(h3, U), Holds(h3, U), Holds(h3, U))
  BY HoldsState, NothingRuns
<1>4. Runs(Transfer(<< >>), Holds(h2, U), Holds(h3, U), Holds(h2, U))
  BY <1>1, <1>3, TransferRuns
<1>5. Runs(Transfer(Transfer(<< >>)), Holds(h1, U), Holds(h3, U), Holds(h1, U))
  BY <1>1, <1>4, TransferRuns
<1>6. Runs(Transfer(Transfer(Transfer(<< >>))), Holds(h, U), Holds(h3, U), Holds(h, U))
  BY <1>1, <1>5, TransferRuns
<1>7. Runs(Try, Holds(h, U), Holds(h, U), Holds(h, U))
  BY TryRuns
<1>8. Runs(cha_loop_init, Holds(h, U), Holds(h3, U), Holds(h, U))
  BY <1>6, <1>7, RunsConcat DEF cha_loop_init
<1>9. /\ Releases(libusb_free_transfer, Holds(h3, U), Holds(h2, U))
      /\ Releases(libusb_free_transfer, Holds(h2, U), Holds(h1, U))
      /\ Releases(libusb_free_transfer, Holds(h1, U), Holds(h, U))
  BY <1>1, TransferReleases
<1>10. Releases(libusb_free_transfer \o libusb_free_transfer, Holds(h3, U), Holds(h1, U))
  BY <1>9, ReleasesConcat
<1>11. Releases(cha_loop_destroy, Holds(h3, U), Holds(h, U))
  BY <1>9, <1>10, ReleasesConcat DEF cha_loop_destroy
<1> QED
  BY <1>2, <1>8, <1>11

-----------------------------------------------------------------------------
(***************************************************************************)
(* Contracts of the user's calls, none of which is without a step          *)
(***************************************************************************)
LEMMA StepNotEmpty ==
  ASSUME NEW do, NEW o, NEW g
  PROVE  Step(do, o, g) # << >>
BY DEF Step

\* Nor is a concatenation without a step if one of its parts has one.
LEMMA NotEmpty ==
  ASSUME NEW a, NEW b, NEW P, NEW Q, NEW R, NEW F, Runs(a, P, Q, F), Runs(b, Q, R, F),
         a # << >> \/ b # << >>
  PROVE  a \o b # << >>
BY ConcatEqualIffEmpty DEF Runs

Nothing == [o \in Objects |-> 0]

\* What a device holds
OfDevice == More(More(More(More(Nothing, "ov"), "package"), "ftdiA"), "ftdiB")

\* Neither of them holds a temporary.
LEMMA OfDeviceHeld ==
  /\ Nothing \in Held /\ OfDevice \in Held
  /\ \A o \in Objects : Nothing[o] = 0
  /\ \A o \in Objects \ {"ov", "package", "ftdiA", "ftdiB"} : OfDevice[o] = 0
<1> DEFINE h1 == More(Nothing, "ov")
           h2 == More(h1, "package")
           h3 == More(h2, "ftdiA")
           h4 == More(h3, "ftdiB")
<1>1. Nothing \in Held /\ \A o \in Objects : Nothing[o] = 0
  BY DEF Nothing, Held
<1>2. "ov" \in Objects /\ "package" \in Objects /\ "ftdiA" \in Objects /\ "ftdiB" \in Objects
  BY DEF Objects
<1>3. h1 \in Held /\ \A o \in Objects \ {"ov"} : h1[o] = 0
  BY <1>1, <1>2, MoreHeld
<1> HIDE DEF h1
<1>4. h2 \in Held /\ \A o \in Objects \ {"ov", "package"} : h2[o] = 0
  BY <1>2, <1>3, MoreHeld
<1> HIDE DEF h2
<1>5. h3 \in Held /\ \A o \in Objects \ {"ov", "package", "ftdiA"} : h3[o] = 0
  BY <1>2, <1>4, MoreHeld
<1> HIDE DEF h3
<1>6. h4 \in Held /\ \A o \in Objects \ {"ov", "package", "ftdiA", "ftdiB"} : h4[o] = 0
  BY <1>2, <1>5, MoreHeld
<1>7. OfDevice = h4
  BY DEF OfDevice, h1, h2, h3
<1> QED
  BY <1>1, <1>6, <1>7

\* ov_new(): a device, or nothing (src/src/ov.c:94-135)
LEMMA NewRuns ==
  ASSUME NEW f
  PROVE  /\ Runs(ov_new(f), Holds(Nothing, {}), Holds(OfDevice, {}), Holds(Nothing, {}))
         /\ ov_new(f) # << >>
<1> DEFINE h1 == More(Nothing, "ov")
           h2 == More(h1, "package")
           h3 == More(h2, "ftdiA")
           h4 == More(h3, "ftdiB")
<1>1. /\ "ov" \in Objects /\ "ov" \notin Handles \cup Buffers
      /\ "package" \in Objects /\ "package" \notin Handles \cup Buffers
      /\ "ftdiA" \in Objects /\ "text" \in Objects
  BY DEF Objects, Handles, Buffers
<1>2. Nothing \in Held /\ Nothing["text"] = 0
  BY <1>1, OfDeviceHeld
<1>3. h1 \in Held /\ h1["text"] = 0
  BY <1>1, <1>2, MoreHeld
<1>4. h2 \in Held /\ h2["text"] = 0
  <2> HIDE DEF h1
  <2> QED
    BY <1>1, <1>3, MoreHeld
<1>5. h3 \in Held
  <2> HIDE DEF h2
  <2> QED
    BY <1>1, <1>4, MoreHeld
<1>6. h4 = OfDevice
  BY DEF OfDevice
<1> HIDE DEF h1, h2, h3, h4
<1>7. Runs(chb_init, Holds(h3, {}), Holds(h4, {}), Holds(h3, {}))
  BY <1>5, ChbInitRuns DEF h4
<1>8. Releases(cha_destroy, Holds(h3, {}), Holds(h2, {}))
  <2>1. {} \ {"usbA"} = {}
    OBVIOUS
  <2>2. Releases(cha_destroy, Holds(h3, {}), Holds(h2, {} \ {"usbA"}))
    BY <1>4, ChaDestroyReleases DEF h3
  <2> QED
    BY <2>1, <2>2
<1>9. Runs(On(cha_destroy, chb_init), Holds(h3, {}), Holds(h4, {}), Holds(h2, {}))
  BY <1>7, <1>8, RunsOn
<1>10. Runs(cha_init, Holds(h2, {}), Holds(h3, {}), Holds(h2, {}))
  BY <1>4, ChaInitRuns DEF h3
<1>11. Runs(cha_init \o On(cha_destroy, chb_init), Holds(h2, {}), Holds(h4, {}), Holds(h2, {}))
  BY <1>9, <1>10, RunsConcat
<1>12. Releases(Free("package"), Holds(h2, {}), Holds(h1, {}))
  BY <1>1, <1>3, FreeReleases DEF h2
<1>13. Runs(On(Free("package"), cha_init \o On(cha_destroy, chb_init)),
            Holds(h2, {}), Holds(h4, {}), Holds(h1, {}))
  BY <1>11, <1>12, RunsOn
<1>14. Runs(fwpkg_init("package", f), Holds(h1, {}), Holds(h2, {}), Holds(h1, {}))
  BY <1>3, PackageRuns DEF h2
<1> DEFINE rest == fwpkg_init("package", f)
                   \o On(Free("package"), cha_init \o On(cha_destroy, chb_init))
<1>15. Runs(rest, Holds(h1, {}), Holds(h4, {}), Holds(h1, {}))
  BY <1>13, <1>14, RunsConcat
<1> HIDE DEF rest
<1>16. Runs(Get("ov") \o On(Free("ov"), rest), Holds(Nothing, {}), Holds(h4, {}),
            Holds(Nothing, {}))
  BY <1>1, <1>2, <1>15, GetOn DEF h1
<1>17. Get("ov") \o On(Free("ov"), rest) # << >>
  <2>1. Runs(On(Free("ov"), rest), Holds(h1, {}), Holds(h4, {}), Holds(Nothing, {}))
    BY <1>1, <1>2, <1>15, FreeReleases, RunsOn DEF h1
  <2>2. Runs(Get("ov"), Holds(Nothing, {}), Holds(h1, {}), Holds(Nothing, {}))
    BY <1>1, <1>2, GetRuns DEF h1
  <2>3. Get("ov") # << >>
    BY StepNotEmpty DEF Get
  <2> QED
    BY <2>1, <2>2, <2>3, NotEmpty
<1> QED
  BY <1>6, <1>16, <1>17 DEF ov_new, rest

\* ov_open(): both handles; if it fails, either may be open (src/src/ov.c:137-180).
LEMMA OpenDeviceRuns ==
  ASSUME NEW h \in Held, h["bits"] = 0
  PROVE  /\ Runs(ov_open, Holds(h, {}), Holds(h, Handles), Holds(h, Handles))
         /\ ov_open # << >>
<1> DEFINE P == Holds(h, {})
           A == Holds(h, {} \cup {"usbA"})
           B == Holds(h, ({} \cup {"usbA"}) \cup {"usbB"})
<1>1. Runs(cha_open, P, A, P)
  BY ChaOpenRuns
<1>2. Runs(chb_open, A, B, A)
  BY ChbOpenRuns
<1>3. B = Holds(h, Handles)
  <2>1. ({} \cup {"usbA"}) \cup {"usbB"} = Handles
    BY DEF Handles
  <2> QED
    BY <2>1
<1>4. Runs(ov_load_firmware_from_fwpkg, B, B, B) /\ Runs(Try, B, B, B)
  BY LoadRuns, TryRuns
<1>5. P \subseteq B /\ A \subseteq B
  BY HoldsMore
<1> HIDE DEF P, A, B
<1>6. Runs(cha_open, P, A, B) /\ Runs(chb_open, A, B, B)
  BY <1>1, <1>2, <1>5, RunsWeaken
<1>7. Runs(cha_open \o chb_open, P, B, B)
  BY <1>6, RunsConcat
<1>8. Runs((cha_open \o chb_open) \o ov_load_firmware_from_fwpkg, P, B, B)
  BY <1>4, <1>7, RunsConcat
<1>9. Runs(ov_open, P, B, B)
  BY <1>4, <1>8, RunsConcat DEF ov_open
<1>10. ov_open # << >>
  <2>1. Try # << >>
    BY StepNotEmpty DEF Try
  <2> QED
    BY <1>4, <1>8, <2>1, NotEmpty DEF ov_open
<1> QED
  BY <1>3, <1>9, <1>10 DEF P

\* ov_free(): nothing, and no handle is open (src/src/ov.c:182-188).
LEMMA DeleteReleases ==
  /\ Releases(ov_free, Holds(OfDevice, Handles), Holds(Nothing, {}))
  /\ ov_free # << >>
<1> DEFINE h1 == More(Nothing, "ov")
           h2 == More(h1, "package")
           h3 == More(h2, "ftdiA")
           h4 == More(h3, "ftdiB")
<1>1. /\ "ov" \in Objects /\ "ov" \notin Handles /\ "ov" \notin Buffers
      /\ "package" \in Objects /\ "package" \notin Handles /\ "package" \notin Buffers
      /\ "ftdiA" \in Objects
  BY DEF Objects, Handles, Buffers
<1>2. Nothing \in Held /\ h1 \in Held
  BY <1>1, OfDeviceHeld, MoreHeld
<1>3. h2 \in Held
  <2> HIDE DEF h1
  <2> QED
    BY <1>1, <1>2, MoreHeld
<1>4. h3 \in Held
  <2> HIDE DEF h2
  <2> QED
    BY <1>1, <1>3, MoreHeld
<1>5. h4 = OfDevice
  BY DEF OfDevice
<1> HIDE DEF h1, h2, h3, h4
<1> DEFINE V == Handles \ {"usbB"}
           W == V \ {"usbA"}
<1>6. Releases(chb_destroy, Holds(h4, Handles), Holds(h3, V))
  BY <1>4, ChbDestroyReleases DEF h4
<1>7. Releases(cha_destroy, Holds(h3, V), Holds(h2, W))
  BY <1>3, ChaDestroyReleases DEF h3
<1>8. Releases(Free("package"), Holds(h2, W), Holds(h1, W))
  BY <1>1, <1>2, FreeReleases DEF h2
<1>9. Releases(Free("ov"), Holds(h1, W), Holds(Nothing, W))
  BY <1>1, <1>2, FreeReleases DEF h1
<1>10. W = {}
  BY DEF Handles
<1> HIDE DEF V, W
<1>11. Releases(chb_destroy \o cha_destroy, Holds(h4, Handles), Holds(h2, W))
  BY <1>6, <1>7, ReleasesConcat
<1>12. Releases((chb_destroy \o cha_destroy) \o Free("package"), Holds(h4, Handles),
                Holds(h1, W))
  BY <1>8, <1>11, ReleasesConcat
<1>13. Releases(ov_free, Holds(h4, Handles), Holds(Nothing, W))
  BY <1>9, <1>12, ReleasesConcat DEF ov_free
<1>14. ov_free # << >>
  <2>1. Free("ov") # << >>
    BY StepNotEmpty DEF Free
  <2> QED
    BY <1>9, <1>12, <2>1, ConcatEqualIffEmpty DEF ov_free, Releases
<1> QED
  BY <1>5, <1>10, <1>13, <1>14

\* ov_load_firmware(): what was held before (src/src/ov.c:290-330)
LEMMA LoadFirmwareRuns ==
  ASSUME NEW f, NEW h \in Held, h["text"] = 0, h["bits"] = 0, NEW U
  PROVE  /\ Runs(ov_load_firmware(f), Holds(h, U), Holds(h, U), Holds(h, U))
         /\ ov_load_firmware(f) # << >>
<1>1. /\ "other" \in Objects /\ "other" \notin Handles /\ "other" \notin Buffers
      /\ "text" \in Objects /\ "bits" \in Objects
  BY DEF Objects, Handles, Buffers
<1> DEFINE X == Holds(h, U)
           Y == Holds(More(h, "other"), U)
<1>2. /\ More(h, "other") \in Held /\ More(h, "other")["text"] = 0
      /\ More(h, "other")["bits"] = 0
  BY <1>1, MoreHeld
<1>3. Runs(reg_init_from_fwpkg, Y, Y, Y) /\ Runs(ov_load_firmware_from_fwpkg, Y, Y, Y)
  BY <1>2, RegMapRuns, LoadRuns
<1>4. Releases(Free("other"), Y, X)
  BY <1>1, FreeReleases
<1>5. Runs(fwpkg_init("other", f), X, Y, X)
  BY PackageRuns
<1> HIDE DEF X, Y
<1> DEFINE body == On(Free("other"), reg_init_from_fwpkg \o ov_load_firmware_from_fwpkg)
<1>6. Runs(body, Y, Y, X)
  BY <1>3, <1>4, RunsConcat, RunsOn
<1> HIDE DEF body
<1>7. Runs(fwpkg_init("other", f) \o body, X, Y, X)
  BY <1>5, <1>6, RunsConcat
<1>8. Runs(Free("other"), Y, X, X) /\ Free("other") # << >>
  BY <1>4, ReleasesRun, StepNotEmpty DEF Free
<1>9. /\ Runs((fwpkg_init("other", f) \o body) \o Free("other"), X, X, X)
      /\ (fwpkg_init("other", f) \o body) \o Free("other") # << >>
  BY <1>7, <1>8, RunsConcat, NotEmpty
<1> QED
  BY <1>9 DEF X, body, ov_load_firmware

\* ov_capture_start() and ov_capture_stop(): the transfers (src/src/ov.c:216-288)
LEMMA StartStopRuns ==
  ASSUME NEW h \in Held, NEW U
  PROVE  /\ Runs(ov_capture_start, Holds(h, U), Holds(ThreeTransfers(h), U), Holds(h, U))
         /\ ov_capture_start # << >>
         /\ Runs(ov_capture_stop, Holds(ThreeTransfers(h), U), Holds(h, U), Holds(h, U))
         /\ ov_capture_stop # << >>
<1> DEFINE X == Holds(h, U)
           m == ThreeTransfers(h)
           Z == Holds(m, U)
<1>1. /\ m \in Held
      /\ \A o \in Objects : m[o] >= h[o] /\ (o \notin {"transfer", "buffer"} => m[o] = h[o])
  <2> DEFINE h1 == WithTransfer(h)
             h2 == WithTransfer(h1)
  <2>1. /\ h1 \in Held
        /\ \A o \in Objects :
             h1[o] >= h[o] /\ (o \notin {"transfer", "buffer"} => h1[o] = h[o])
    BY WithTransferHeld
  <2> HIDE DEF h1
  <2>2. /\ h2 \in Held
        /\ \A o \in Objects :
             h2[o] >= h1[o] /\ (o \notin {"transfer", "buffer"} => h2[o] = h1[o])
    BY <2>1, WithTransferHeld
  <2> HIDE DEF h2
  <2>3. /\ WithTransfer(h2) \in Held
        /\ \A o \in Objects : /\ WithTransfer(h2)[o] >= h2[o]
                              /\ o \notin {"transfer", "buffer"} => WithTransfer(h2)[o] = h2[o]
    BY <2>2, WithTransferHeld
  <2>4. m = WithTransfer(h2)
    BY DEF ThreeTransfers, h1, h2
  <2> HIDE DEF m
  <2>5. \A x, y, z, w \in Nat : x >= y /\ y >= z /\ z >= w => x >= w
    OBVIOUS
  <2>6. \A o \in Objects : h[o] \in Nat /\ h1[o] \in Nat /\ h2[o] \in Nat /\ m[o] \in Nat
    BY <2>1, <2>2, <2>3, <2>4 DEF Held
  <2> QED
    BY <2>1, <2>2, <2>3, <2>4, <2>5, <2>6, Zenon
<1>2. Runs(cha_loop_init, X, Z, X) /\ Releases(cha_loop_destroy, Z, X)
  BY LoopRuns
<1>3. Runs(Start, Z, Z, X) /\ Runs(Try, X, X, X)
  BY <1>1, StartRuns, TryRuns
<1>4. Start # << >> /\ Try # << >>
  BY StepNotEmpty DEF Start, Try
<1> HIDE DEF X, Z, m
<1>5. Runs(ov_capture_start, X, Z, X) /\ ov_capture_start # << >>
  BY <1>2, <1>3, <1>4, RunsConcat, NotEmpty DEF ov_capture_start
<1>6. Runs(cha_loop_destroy, Z, X, X)
  BY <1>2, ReleasesRun
<1>7. Runs(ov_capture_stop, Z, X, X) /\ ov_capture_stop # << >>
  BY <1>3, <1>4, <1>6, RunsConcat, NotEmpty DEF ov_capture_stop
<1> QED
  BY <1>5, <1>7 DEF X, Z, m

-----------------------------------------------------------------------------
(***************************************************************************)
(* The first step of a sequence, and the rest                              *)
(***************************************************************************)
LEMMA RestOfChain ==
  ASSUME NEW S, NEW a \in Seq(S), a # << >>,
         NEW c \in [1 .. Len(a) + 1 -> SUBSET State], Along(a, c)
  PROVE  /\ Head(a) = a[1] /\ Head(a) \in S /\ Tail(a) \in Seq(S)
         /\ Len(a) \in Nat /\ Len(Tail(a)) = Len(a) - 1 /\ 1 \in 1 .. Len(a)
         /\ \A i \in 1 .. Len(Tail(a)) : i + 1 \in 1 .. Len(a) /\ Tail(a)[i] = a[i + 1]
         /\ [i \in 1 .. Len(Tail(a)) + 1 |-> c[i + 1]]
              \in [1 .. Len(Tail(a)) + 1 -> SUBSET State]
         /\ Along(Tail(a), [i \in 1 .. Len(Tail(a)) + 1 |-> c[i + 1]])
<1> DEFINE n == Len(a)
           b == Tail(a)
           d == [i \in 1 .. Len(b) + 1 |-> c[i + 1]]
<1>1. /\ Head(a) = a[1] /\ n \in Nat \ {0} /\ b \in Seq(S) /\ Len(b) = n - 1
      /\ \A i \in 1 .. Len(b) : b[i] = a[i + 1]
  BY HeadTailProperties, EmptySeq
<1>2. Head(a) \in S
  BY <1>1, ElementOfSeq
<1>3. \A i \in 1 .. n : \A s \in c[i] : Effect(s, a[i]) \in c[i + 1]
  BY DEF Along
<1>4. c \in [1 .. n + 1 -> SUBSET State]
  OBVIOUS
<1> HIDE DEF n, b
<1>5. \A i \in 1 .. Len(b) + 1 : i + 1 \in 1 .. n + 1
  BY <1>1
<1>6. d \in [1 .. Len(b) + 1 -> SUBSET State]
  BY <1>4, <1>5
<1>7. \A i \in 1 .. Len(b) :
        i + 1 \in 1 .. n /\ i \in 1 .. Len(b) + 1 /\ i + 1 \in 1 .. Len(b) + 1
  BY <1>1
<1>8. \A i \in 1 .. Len(b) + 1 : d[i] = c[i + 1]
  OBVIOUS
<1> HIDE DEF d
<1>9. Along(b, d)
  BY <1>1, <1>3, <1>7, <1>8 DEF Along
<1>10. 1 \in 1 .. n /\ n \in Nat
  BY <1>1
<1> QED
  BY <1>1, <1>2, <1>6, <1>7, <1>9, <1>10 DEF n, b, d

\* What is left of a cleanup behind its first step keeps its contract,
LEMMA ReleasesFirst ==
  ASSUME NEW u, NEW s, NEW G, Releases(u, {s}, G), u # << >>
  PROVE  /\ Head(u).do = "put" /\ Effect(s, Head(u)) \in State
         /\ Releases(Tail(u), {Effect(s, Head(u))}, G)
<1>1. u \in Seq(Release)
  BY DEF Releases
<1>2. PICK c \in [1 .. Len(u) + 1 -> SUBSET State] :
        s \in c[1] /\ c[Len(u) + 1] \subseteq G /\ Along(u, c)
  BY DEF Releases
<1> DEFINE v == Tail(u)
           d == [i \in 1 .. Len(v) + 1 |-> c[i + 1]]
<1>3. /\ Head(u) = u[1] /\ Head(u) \in Release /\ v \in Seq(Release)
      /\ Len(u) \in Nat /\ Len(v) = Len(u) - 1 /\ 1 \in 1 .. Len(u)
      /\ d \in [1 .. Len(v) + 1 -> SUBSET State] /\ Along(v, d)
  BY <1>1, <1>2, RestOfChain, SMTT(30)
<1>4. d[1] = c[1 + 1] /\ d[Len(v) + 1] = c[Len(u) + 1]
  BY <1>3
<1> HIDE DEF v, d
<1>5. Effect(s, Head(u)) \in d[1]
  BY <1>2, <1>3, <1>4 DEF Along
<1>6. Effect(s, Head(u)) \in State
  <2>1. 1 \in 1 .. Len(v) + 1
    BY <1>3
  <2> QED
    BY <1>3, <1>5, <2>1
<1>7. Releases(v, {Effect(s, Head(u))}, G)
  BY <1>2, <1>3, <1>4, <1>5 DEF Releases
<1>8. Head(u).do = "put"
  BY <1>3 DEF Release
<1> QED
  BY <1>6, <1>7, <1>8 DEF v

\* and what is left of a call, as does the cleanup that its first step would go to.
LEMMA RunsFirst ==
  ASSUME NEW a, NEW s, NEW Q, NEW F, Runs(a, {s}, Q, F), a # << >>
  PROVE  /\ Effect(s, Head(a)) \in State
         /\ Runs(Tail(a), {Effect(s, Head(a))}, Q, F)
         /\ Head(a).do # "put" => Releases(Head(a).fails, Failures(s, Head(a)), F)
<1>1. a \in Seq(StepType)
  BY DEF Runs
<1>2. PICK c \in [1 .. Len(a) + 1 -> SUBSET State] :
        s \in c[1] /\ c[Len(a) + 1] \subseteq Q /\ Along(a, c) /\ FailsTo(a, c, F)
  BY DEF Runs
<1> DEFINE b == Tail(a)
           d == [i \in 1 .. Len(b) + 1 |-> c[i + 1]]
<1>3. /\ Head(a) = a[1] /\ b \in Seq(StepType)
      /\ Len(a) \in Nat /\ Len(b) = Len(a) - 1 /\ 1 \in 1 .. Len(a)
      /\ \A i \in 1 .. Len(b) : i + 1 \in 1 .. Len(a) /\ b[i] = a[i + 1]
      /\ d \in [1 .. Len(b) + 1 -> SUBSET State] /\ Along(b, d)
  BY <1>1, <1>2, RestOfChain
<1>4. d[1] = c[1 + 1] /\ d[Len(b) + 1] = c[Len(a) + 1]
  BY <1>3
<1>5. \A i \in 1 .. Len(b) : d[i] = c[i + 1]
  BY <1>3
<1> HIDE DEF b, d
<1>6. Effect(s, Head(a)) \in d[1]
  BY <1>2, <1>3, <1>4 DEF Along
<1>7. Effect(s, Head(a)) \in State
  <2>1. 1 \in 1 .. Len(b) + 1
    BY <1>3
  <2> QED
    BY <1>3, <1>6, <2>1
<1>8. FailsTo(b, d, F)
  BY <1>2, <1>3, <1>5, SMTT(30) DEF FailsTo
<1>9. Runs(b, {Effect(s, Head(a))}, Q, F)
  BY <1>2, <1>3, <1>4, <1>6, <1>8 DEF Runs
<1>10. Head(a).do # "put" => Releases(Head(a).fails, Failures(s, Head(a)), F)
  BY <1>2, <1>3 DEF FailsTo
<1> QED
  BY <1>7, <1>9, <1>10 DEF b

\* When nothing is left to do
LEMMA Finished ==
  ASSUME NEW P, NEW Q, NEW F
  PROVE  /\ Runs(<< >>, P, Q, F) => P \subseteq Q
         /\ Releases(<< >>, P, Q) => P \subseteq Q
<1>1. Len(<< >>) + 1 = 1
  BY EmptySeq
<1> QED
  BY <1>1 DEF Runs, Releases

-----------------------------------------------------------------------------
(***************************************************************************)
(* The invariant: between calls the user's phase says what is held; during *)
(* a call what is left of it leads to the phase behind it, or if it fails  *)
(* to the one behind its failure.                                          *)
(***************************************************************************)
Owned(ph) == CASE ph \in {"none", "gone"} -> Nothing
               [] ph \in {"new", "open"} -> OfDevice
               [] OTHER -> ThreeTransfers(OfDevice)

Between(ph) == Holds(Owned(ph), IF ph \in {"none", "gone"} THEN {} ELSE Handles)

CallInv ==
  /\ todo = << >> => Now \in Between(phase)
  /\ todo # << >> /\ failed => Releases(todo, {Now}, Between(AfterFailure))
  /\ todo # << >> /\ ~failed => Runs(todo, {Now}, Between(After), Between(AfterFailure))

LifetimeInv ==
  /\ Now \in State /\ failed \in BOOLEAN
  /\ phase \in {"none", "new", "open", "started", "gone"}
  /\ phase = "gone" => todo = << >>
  /\ CallInv

\* What the phases are
LEMMA BetweenIs ==
  /\ Between("none") = Holds(Nothing, {}) /\ Between("gone") = Holds(Nothing, {})
  /\ Between("new") = Holds(OfDevice, Handles) /\ Between("open") = Holds(OfDevice, Handles)
  /\ Between("started") = Holds(ThreeTransfers(OfDevice), Handles)
BY DEF Between, Owned

\* A call that keeps its contract begins.
LEMMA CallBegins ==
  ASSUME LifetimeInv, NEW c, NEW steps, Call(c, steps), steps # << >>,
         Now' \in State, phase # "gone",
         Runs(steps, {Now'}, Between(After'), Between(AfterFailure'))
  PROVE  LifetimeInv'
<1>1. todo' = steps /\ failed' = FALSE /\ phase' = phase
  BY DEF Call
<1> QED
  BY <1>1 DEF LifetimeInv, CallInv

\* The invariant holds before the first call.
LEMMA InitHeld == LifetimeInit => LifetimeInv
<1> SUFFICES ASSUME LifetimeInit PROVE LifetimeInv
  OBVIOUS
<1>1. /\ todo = << >> /\ failed = FALSE /\ phase = "none" /\ ptr = {} /\ causes = {}
      /\ wild = 0 /\ live = [o \in Objects |-> 0]
  BY DEF LifetimeInit
<1>2. Now \in State
  BY <1>1 DEF Now, State
<1>3. /\ Now.live = live /\ Now.ptr = ptr /\ Now.causes = causes
  BY DEF Now
<1>4. Counted(Now, Nothing)
  BY <1>1, <1>3 DEF Counted, Nothing
<1>5. Tracked(Now, Nothing)
  BY <1>1, <1>3 DEF Tracked, Nothing, Buffers, Objects
<1>6. Opened(Now, {})
  BY <1>1, <1>3 DEF Opened, Handles, Objects
<1>7. Now \in Between(phase)
  BY <1>1, <1>2, <1>4, <1>5, <1>6, BetweenIs DEF Holds
<1> QED
  BY <1>1, <1>2, <1>7 DEF LifetimeInv, CallInv

\* What a call changes at once is at most the causes of a loss.
LEMMA CallKeeps ==
  ASSUME LifetimeInv, NEW c, NEW steps, Call(c, steps)
  PROVE  /\ todo = << >> /\ Now \in Between(phase) /\ Now \in State
         /\ call' = c /\ phase' = phase
         /\ UNCHANGED causes => Now' = Now
<1>1. todo = << >> /\ call' = c /\ phase' = phase /\ UNCHANGED <<live, ptr, wild>>
  BY DEF Call
<1> QED
  BY <1>1 DEF LifetimeInv, CallInv, Now

\* The user creates the device.
LEMMA NewHeld == ASSUME LifetimeInv, New PROVE LifetimeInv'
<1>1. PICK f \in {"NULL", "name"} : Call("ov_new", ov_new(f))
  BY DEF New
<1>2. phase = "none" /\ UNCHANGED causes
  BY DEF New
<1>3. Now' = Now /\ Now \in State /\ Now \in Holds(Nothing, {}) /\ call' = "ov_new"
  BY <1>1, <1>2, CallKeeps, BetweenIs
<1>4. /\ Between(After') = Holds(OfDevice, Handles)
      /\ Between(AfterFailure') = Holds(Nothing, {})
  <2>1. After' = "new" /\ AfterFailure' = "gone"
    BY <1>3 DEF After, AfterFailure
  <2> QED
    BY <2>1, BetweenIs
<1>5. /\ Runs(ov_new(f), Holds(Nothing, {}), Holds(OfDevice, {}), Holds(Nothing, {}))
      /\ ov_new(f) # << >>
  BY NewRuns
<1>6. /\ Holds(OfDevice, {}) \subseteq Holds(OfDevice, Handles)
      /\ {Now'} \subseteq Holds(Nothing, {})
  BY <1>3, HoldsMore
<1>7. Runs(ov_new(f), {Now'}, Holds(OfDevice, Handles), Holds(Nothing, {}))
  BY <1>5, <1>6, RunsWeaken
<1> QED
  BY <1>1, <1>2, <1>3, <1>4, <1>5, <1>7, CallBegins

\* The handles that are left open by a failed ov_open() are a cause of a loss
\* from now on; if there are none, none is open.
LEMMA OpenHeld == ASSUME LifetimeInv, Open PROVE LifetimeInv'
<1>1. /\ Call("ov_open", ov_open) /\ phase = "new"
      /\ causes' = IF Handles \cap ptr # {} THEN causes \cup {"opened again"} ELSE causes
  BY DEF Open
<1>2. /\ Now \in Holds(OfDevice, Handles) /\ Now \in State
      /\ call' = "ov_open" /\ phase' = "new" /\ UNCHANGED <<live, ptr, wild>>
  BY <1>1, CallKeeps, BetweenIs DEF Call
<1>3. /\ Between(After') = Holds(OfDevice, Handles)
      /\ Between(AfterFailure') = Holds(OfDevice, Handles)
  <2>1. After' = "open" /\ AfterFailure' = "new"
    BY <1>2 DEF After, AfterFailure
  <2> QED
    BY <2>1, BetweenIs
<1> DEFINE s == Now
           n == Now'
<1>4. /\ n.live = s.live /\ n.ptr = s.ptr /\ n.wild = s.wild
      /\ n.causes = IF Handles \cap s.ptr # {} THEN s.causes \cup {"opened again"}
                                               ELSE s.causes
      /\ n = [live |-> n.live, ptr |-> n.ptr, wild |-> n.wild, causes |-> n.causes]
  BY <1>1, <1>2 DEF Now
<1>5. s \in State /\ Counted(s, OfDevice) /\ Tracked(s, OfDevice) /\ Opened(s, Handles)
  BY <1>2 DEF Holds
<1> HIDE DEF s, n
<1>6. n \in State
  BY <1>4, <1>5 DEF State, Causes
<1>7. s.causes \subseteq n.causes
  BY <1>4
<1>8. Counted(n, OfDevice)
  <2>1. \A o : Excused(o, s.causes) => Excused(o, n.causes)
    BY <1>7 DEF Excused
  <2>2. \A o \in Objects \ Handles :
          s.live[o] >= OfDevice[o] /\ (s.live[o] = OfDevice[o] \/ Excused(o, s.causes))
    BY <1>5 DEF Counted
  <2>3. n.live = s.live
    BY <1>4
  <2>4. \A o \in Objects \ Handles : n.live[o] = OfDevice[o] \/ Excused(o, n.causes)
    <3> SUFFICES ASSUME NEW o \in Objects \ Handles
                 PROVE  n.live[o] = OfDevice[o] \/ Excused(o, n.causes)
      OBVIOUS
    <3>1. s.live[o] = OfDevice[o] \/ Excused(o, s.causes)
      BY <2>2, Zenon
    <3>2. n.live[o] = s.live[o]
      BY <2>3, Zenon
    <3> QED
      BY <2>1, <3>1, <3>2, Zenon
  <2>5. \A o \in Objects \ Handles : n.live[o] >= OfDevice[o]
    BY <2>2, <2>3, Zenon
  <2> QED
    BY <2>4, <2>5, Zenon DEF Counted
<1>9. Tracked(n, OfDevice)
  BY <1>4, <1>5 DEF Tracked
<1>10. Opened(n, {})
  <2>1. CASE Handles \cap s.ptr # {}
    <3>1. \A o \in Handles : Excused(o, n.causes)
      BY <1>4, <2>1 DEF Excused
    <3> QED
      BY <1>4, <1>5, <3>1 DEF Opened
  <2>2. CASE Handles \cap s.ptr = {}
    <3>1. n.causes = s.causes /\ \A o \in Handles : o \notin s.ptr
      BY <1>4, <2>2
    <3> QED
      BY <1>4, <1>5, <3>1 DEF Opened
  <2> QED
    BY <2>1, <2>2
<1>11. {n} \subseteq Holds(OfDevice, {})
  BY <1>6, <1>8, <1>9, <1>10 DEF Holds
<1>12. /\ Runs(ov_open, Holds(OfDevice, {}), Holds(OfDevice, Handles), Holds(OfDevice, Handles))
       /\ ov_open # << >>
  <2>1. "bits" \in Objects \ {"ov", "package", "ftdiA", "ftdiB"}
    BY DEF Objects
  <2> QED
    BY <2>1, OfDeviceHeld, OpenDeviceRuns
<1>13. Runs(ov_open, {n}, Holds(OfDevice, Handles), Holds(OfDevice, Handles))
  BY <1>11, <1>12, RunsWeaken
<1> QED
  BY <1>1, <1>3, <1>6, <1>12, <1>13, CallBegins DEF n

\* What is held is not affected by a load.
LEMMA LoadFirmwareHeld == ASSUME LifetimeInv, LoadFirmware PROVE LifetimeInv'
<1>1. PICK f \in {"NULL", "name"} : Call("ov_load_firmware", ov_load_firmware(f))
  BY DEF LoadFirmware
<1>2. phase = "open" /\ UNCHANGED causes
  BY DEF LoadFirmware
<1> DEFINE X == Holds(OfDevice, Handles)
<1>3. /\ Now' = Now /\ Now \in State /\ Now \in X
      /\ call' = "ov_load_firmware" /\ phase' = "open"
  BY <1>1, <1>2, CallKeeps, BetweenIs
<1>4. Between(After') = X /\ Between(AfterFailure') = X
  <2>1. After' = "open" /\ AfterFailure' = "open"
    BY <1>3 DEF After, AfterFailure
  <2> QED
    BY <2>1, BetweenIs
<1>5. Runs(ov_load_firmware(f), X, X, X) /\ ov_load_firmware(f) # << >>
  <2>1. {"bits", "text"} \subseteq Objects \ {"ov", "package", "ftdiA", "ftdiB"}
    BY DEF Objects
  <2> QED
    BY <2>1, OfDeviceHeld, LoadFirmwareRuns
<1>6. Runs(ov_load_firmware(f), {Now'}, X, X)
  <2>1. {Now'} \subseteq X
    BY <1>3
  <2> HIDE DEF X
  <2> QED
    BY <1>5, <2>1, RunsWeaken
<1> QED
  BY <1>1, <1>2, <1>3, <1>4, <1>5, <1>6, CallBegins

\* A capture has three transfers more.
LEMMA CaptureHeld == ASSUME LifetimeInv, CaptureStart \/ CaptureStop PROVE LifetimeInv'
<1> DEFINE X == Holds(OfDevice, Handles)
           Z == Holds(ThreeTransfers(OfDevice), Handles)
<1>1. /\ Runs(ov_capture_start, X, Z, X) /\ ov_capture_start # << >>
      /\ Runs(ov_capture_stop, Z, X, X) /\ ov_capture_stop # << >>
  BY OfDeviceHeld, StartStopRuns
<1>2. CASE CaptureStart
  <2>1. Call("ov_capture_start", ov_capture_start) /\ phase = "open" /\ UNCHANGED causes
    BY <1>2 DEF CaptureStart
  <2>2. /\ Now' = Now /\ Now \in State /\ Now \in X
        /\ call' = "ov_capture_start" /\ phase' = "open"
    BY <2>1, CallKeeps, BetweenIs
  <2>3. Between(After') = Z /\ Between(AfterFailure') = X
    <3>1. After' = "started" /\ AfterFailure' = "open"
      BY <2>2 DEF After, AfterFailure
    <3> QED
      BY <3>1, BetweenIs
  <2>4. {Now'} \subseteq X
    BY <2>2
  <2>5. Runs(ov_capture_start, {Now'}, Z, X)
    <3> HIDE DEF X, Z
    <3> QED
      BY <1>1, <2>4, RunsWeaken
  <2> QED
    BY <1>1, <2>1, <2>2, <2>3, <2>5, CallBegins
<1>3. CASE CaptureStop
  <2>1. Call("ov_capture_stop", ov_capture_stop) /\ phase = "started" /\ UNCHANGED causes
    BY <1>3 DEF CaptureStop
  <2>2. Now' = Now /\ Now \in State /\ Now \in Z /\ call' = "ov_capture_stop"
    BY <2>1, CallKeeps, BetweenIs
  <2>3. Between(After') = X /\ Between(AfterFailure') = X
    <3>1. After' = "open" /\ AfterFailure' = "open"
      BY <2>2 DEF After, AfterFailure
    <3> QED
      BY <3>1, BetweenIs
  <2>4. {Now'} \subseteq Z
    BY <2>2
  <2>5. Runs(ov_capture_stop, {Now'}, X, X)
    <3> HIDE DEF X, Z
    <3> QED
      BY <1>1, <2>4, RunsWeaken
  <2> QED
    BY <1>1, <2>1, <2>2, <2>3, <2>5, CallBegins
<1> QED
  BY <1>2, <1>3

\* The user frees the device.
LEMMA DeleteHeld == ASSUME LifetimeInv, Delete PROVE LifetimeInv'
<1> DEFINE X == Holds(OfDevice, Handles)
           Y == Holds(Nothing, {})
<1>1. Call("ov_free", ov_free) /\ phase \in {"new", "open"} /\ UNCHANGED causes
  BY DEF Delete
<1>2. Now' = Now /\ Now \in State /\ Now \in X /\ call' = "ov_free"
  BY <1>1, CallKeeps, BetweenIs
<1>3. Between(After') = Y
  <2>1. After' = "gone"
    BY <1>2 DEF After
  <2> QED
    BY <2>1, BetweenIs
<1>4. Runs(ov_free, X, Y, Between(AfterFailure')) /\ ov_free # << >>
  BY DeleteReleases, ReleasesRun
<1>5. {Now'} \subseteq X
  BY <1>2
<1>6. Runs(ov_free, {Now'}, Y, Between(AfterFailure'))
  <2> HIDE DEF X, Y
  <2> QED
    BY <1>4, <1>5, RunsWeaken
<1> QED
  BY <1>1, <1>2, <1>3, <1>4, <1>6, CallBegins

\* The phase of the user after a step, and what it then has to be
LEMMA ReturnHeld ==
  ASSUME LifetimeInv, todo # << >>, Return, UNCHANGED call,
         failed' \in BOOLEAN, Now' \in State,
         failed' => Releases(todo', {Now'}, Between(AfterFailure)),
         ~failed' => Runs(todo', {Now'}, Between(After), Between(AfterFailure))
  PROVE  LifetimeInv'
<1>1. CASE todo' # << >>
  <2>1. phase' = phase
    BY <1>1 DEF Return
  <2>2. AfterFailure' = AfterFailure /\ After' = After
    BY <2>1 DEF After, AfterFailure
  <2>3. phase' # "gone"
    BY <2>1 DEF LifetimeInv
  <2> QED
    BY <1>1, <2>1, <2>2, <2>3 DEF LifetimeInv, CallInv
<1>2. CASE todo' = << >>
  <2>1. phase' = IF failed' THEN AfterFailure ELSE After
    BY <1>2 DEF Return
  <2>2. Now' \in Between(phase')
    BY <1>2, <2>1, Finished
  <2>3. phase' \in {"none", "new", "open", "started", "gone"}
    BY <2>1 DEF LifetimeInv, After, AfterFailure
  <2> QED
    BY <1>2, <2>2, <2>3 DEF LifetimeInv, CallInv
<1> QED
  BY <1>1, <1>2

\* The state behind a step
LEMMA BecomesIs ==
  ASSUME NEW s \in State, Becomes(s)
  PROVE  Now' = s
BY DEF Becomes, Now, State

\* The next step of a call or of its cleanup succeeds.
LEMMA SucceedsHeld == ASSUME LifetimeInv, Succeeds PROVE LifetimeInv'
<1> DEFINE n == Effect(Now, Head(todo))
<1>1. /\ todo # << >> /\ todo' = Tail(todo) /\ Becomes(n) /\ Return
      /\ UNCHANGED <<call, failed>> /\ failed \in BOOLEAN
  BY DEF Succeeds, LifetimeInv
<1>2. CASE failed
  <2>1. Releases(todo, {Now}, Between(AfterFailure))
    BY <1>1, <1>2 DEF LifetimeInv, CallInv
  <2>2. n \in State /\ Releases(Tail(todo), {n}, Between(AfterFailure))
    BY <1>1, <2>1, ReleasesFirst
  <2>3. Now' = n
    BY <1>1, <2>2, BecomesIs
  <2> QED
    BY <1>1, <1>2, <2>2, <2>3, ReturnHeld
<1>3. CASE ~failed
  <2>1. Runs(todo, {Now}, Between(After), Between(AfterFailure))
    BY <1>1, <1>3 DEF LifetimeInv, CallInv
  <2>2. n \in State /\ Runs(Tail(todo), {n}, Between(After), Between(AfterFailure))
    BY <1>1, <2>1, RunsFirst
  <2>3. Now' = n
    BY <1>1, <2>2, BecomesIs
  <2> QED
    BY <1>1, <1>3, <2>2, <2>3, ReturnHeld
<1> QED
  BY <1>1, <1>2, <1>3

\* Of the steps of a cleanup none can fail.
LEMMA FailsHeld == ASSUME LifetimeInv, Fails PROVE LifetimeInv'
<1>1. /\ todo # << >> /\ Head(todo).do # "put" /\ todo' = Head(todo).fails
      /\ failed' = TRUE /\ UNCHANGED call /\ Return
  BY DEF Fails
<1>2. PICK n \in Failures(Now, Head(todo)) : Becomes(n)
  BY DEF Fails
<1>3. ~failed
  BY <1>1, ReleasesFirst DEF LifetimeInv, CallInv
<1>4. Runs(todo, {Now}, Between(After), Between(AfterFailure))
  BY <1>1, <1>3 DEF LifetimeInv, CallInv
<1>5. Releases(todo', Failures(Now, Head(todo)), Between(AfterFailure))
  BY <1>1, <1>4, RunsFirst
<1>6. Failures(Now, Head(todo)) \subseteq State
  <2>1. PICK c \in [1 .. Len(todo') + 1 -> SUBSET State] :
          Failures(Now, Head(todo)) \subseteq c[1]
    BY <1>5 DEF Releases
  <2>2. Len(todo') \in Nat
    BY <1>5, LenProperties DEF Releases
  <2>3. c[1] \subseteq State
    BY <2>2
  <2> QED
    BY <2>1, <2>3
<1>7. Now' = n /\ n \in State
  BY <1>2, <1>6, BecomesIs
<1>8. Releases(todo', {Now'}, Between(AfterFailure))
  <2>1. {Now'} \subseteq Failures(Now, Head(todo))
    BY <1>2, <1>7
  <2> QED
    BY <1>5, <2>1, ReleasesWeaken
<1> QED
  BY <1>1, <1>7, <1>8, ReturnHeld

\* Nothing happens.
LEMMA StutterHeld == ASSUME LifetimeInv, UNCHANGED lifetime_vars PROVE LifetimeInv'
BY DEF LifetimeInv, CallInv, lifetime_vars, Now, After, AfterFailure

-----------------------------------------------------------------------------
(***************************************************************************)
(* The theorems                                                            *)
(***************************************************************************)
\* Whatever the user calls, and whichever step of a call fails, what is held is
\* what the phase says, and what is left of a call, or of its cleanup, leads there
\* (src/src/ov.c:94-188, 216-330).
THEOREM LifetimeInvariance == LifetimeSpec => []LifetimeInv
<1>1. LifetimeInit => LifetimeInv
  BY InitHeld
<1>2. LifetimeInv /\ [LifetimeNext]_lifetime_vars => LifetimeInv'
  <2> SUFFICES ASSUME LifetimeInv, [LifetimeNext]_lifetime_vars PROVE LifetimeInv'
    OBVIOUS
  <2> QED
    BY NewHeld, OpenHeld, LoadFirmwareHeld, CaptureHeld, DeleteHeld, SucceedsHeld,
       FailsHeld, StutterHeld DEF LifetimeNext
<1> QED
  BY <1>1, <1>2, PTL DEF LifetimeSpec

\* Nothing is released twice, or without having been got, at any label of any
\* function (src/src/ov.c:79-92, 126-132, 323-327).
THEOREM ReleasedOnceCorrect == LifetimeSpec => []ReleasedOnce
<1>1. LifetimeInv => ReleasedOnce
  BY DEF LifetimeInv, Now, State, ReleasedOnce
<1> QED
  BY <1>1, LifetimeInvariance, PTL

\* No temporary outlives its call, and in the end nothing is held but for the three
\* things that this code loses (src/src/ov.c:79-92, 176, 224, src/src/reg.c:123-131).
THEOREM AllReleasedCorrect == LifetimeSpec => []AllReleased
<1>1. ASSUME LifetimeInv, todo = << >>, NEW o \in {"file", "text", "bits", "other"}
      PROVE  live[o] = 0
  <2>1. Now \in Between(phase) /\ phase \in {"none", "new", "open", "started", "gone"}
    BY <1>1 DEF LifetimeInv, CallInv
  <2>2. /\ o \in Objects \ Handles /\ o \notin {"ov", "package", "ftdiA", "ftdiB"}
        /\ o \notin {"transfer", "buffer", "source"} /\ o \in Objects
    BY <1>1 DEF Objects, Handles
  <2>3. Nothing[o] = 0 /\ OfDevice[o] = 0
    BY <2>2, OfDeviceHeld
  <2>4. ThreeTransfers(OfDevice)[o] = 0
    <3> DEFINE h1 == WithTransfer(OfDevice)
               h2 == WithTransfer(h1)
    <3>1. h1 \in Held /\ h1[o] = 0
      BY <2>2, <2>3, OfDeviceHeld, WithTransferHeld
    <3> HIDE DEF h1
    <3>2. h2 \in Held /\ h2[o] = 0
      BY <2>2, <3>1, WithTransferHeld
    <3> HIDE DEF h2
    <3>3. WithTransfer(h2)[o] = 0
      BY <2>2, <3>2, WithTransferHeld
    <3> QED
      BY <3>3 DEF ThreeTransfers, h1, h2
  <2>5. Owned(phase)[o] = 0
    BY <2>3, <2>4 DEF Owned
  <2>6. Counted(Now, Owned(phase))
    BY <2>1 DEF Between, Holds
  <2>7. Now.live[o] = 0
    BY <2>2, <2>5, <2>6 DEF Counted, Excused
  <2> QED
    BY <2>7 DEF Now
<1>2. ASSUME LifetimeInv, phase = "gone", NEW o \in Objects
      PROVE  \/ live[o] = 0
             \/ o = "source" /\ "not opened" \in causes
             \/ o \in {"transfer", "buffer"} /\ "not started" \in causes
             \/ o \in {"usbA", "usbB"} /\ "opened again" \in causes
  <2>1. Now \in Holds(Nothing, {})
    BY <1>2, BetweenIs DEF LifetimeInv, CallInv
  <2>2. Now.live = live /\ Now.causes = causes
    BY DEF Now
  <2>3. CASE o \in Handles
    <3>1. Now.live[o] = 0 \/ Excused(o, Now.causes)
      BY <2>1, <2>3 DEF Holds, Opened
    <3> QED
      BY <2>2, <2>3, <3>1 DEF Excused, Handles
  <2>4. CASE o \notin Handles
    <3>1. Now.live[o] = 0 \/ Excused(o, Now.causes)
      BY <2>1, <2>4, OfDeviceHeld DEF Holds, Counted
    <3> QED
      BY <2>2, <2>4, <3>1 DEF Excused, Handles
  <2> QED
    BY <2>3, <2>4
<1>3. LifetimeInv => AllReleased
  BY <1>1, <1>2 DEF AllReleased
<1> QED
  BY <1>3, LifetimeInvariance, PTL
=============================================================================
