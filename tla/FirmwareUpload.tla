--------------------------- MODULE FirmwareUpload ---------------------------
(***************************************************************************)
(* ov_load_firmware_from_fwpkg() with the steps it takes on both channels: *)
(* channel A is switched to bit-banging, the FPGA to program mode          *)
(* (chb_switch_program_mode()), the bitstream is sent from two buffers in  *)
(* turn (bit_load_firmware()), and channel A goes back to FIFO mode.       *)
(* Every call may fail.  The bitstream is a sequence of blocks as large as *)
(* a buffer, numbered from 1.                                              *)
(***************************************************************************)
EXTENDS Naturals, Sequences

CONSTANTS NBlocks,   \* blocks of the bitstream
          MaxLoads,  \* bound: calls of ov_load_firmware_from_fwpkg()
          MaxLate    \* bound: answers of channel B that their call does not read

ASSUME NBlocksAssumption == NBlocks \in Nat \ {0}

VARIABLES
  pc,        \* what ov_load_firmware_from_fwpkg() does next, or how it ended
  mode,      \* the mode of channel A: "reset", "bitbang" or "fifo"
  \* bit_load_firmware()
  filled,    \* blocks copied into a buffer
  buf, bidx, \* the block in each buffer, 0 at first, and the buffer to fill next
  tc,        \* the transfer submitted last: "NULL", "pending", "done" or "failed"
  tc_buf, tc_block,  \* the buffer it sends, and what that had when it was submitted
  \* the loops that look at DONE
  try, status,
  \* the device
  received,  \* the blocks that reached the FPGA since its reset
  done,      \* the DONE pin, 0 or 1
  answers,   \* answers to GET_BITS_HIGH that have not been read
  \* history: calls, and answers that were left unread by the call that asked
  loads, late,
  switching  \* how this load's switches of mode went: "none" yet, "ok", "failed"

transfer == <<filled, buf, bidx, tc, tc_buf, tc_block>>
polling  == <<try, status, answers, late>>
fpga     == <<received, done>>
channelA == <<mode, switching>>
vars == <<pc, channelA, transfer, polling, fpga, loads>>

Returned == {"loaded", "failed"}

Init ==
  /\ pc = "failed" /\ mode = "bitbang" /\ switching = "none"
  /\ filled = 0 /\ buf = [b \in 0 .. 1 |-> 0] /\ bidx = 0
  /\ tc = "NULL" /\ tc_buf = 0 /\ tc_block = 0
  /\ try = 0 /\ status = 0
  /\ received = << >> /\ done \in 0 .. 1 /\ answers = << >>
  /\ loads = 0 /\ late = 0

-----------------------------------------------------------------------------
(***************************************************************************)
(* ov_load_firmware_from_fwpkg() up to the FPGA's reset                    *)
(***************************************************************************)
\* The bitstream is read and parsed; if that fails nothing has been touched.
Load ==
  /\ pc \in Returned /\ loads < MaxLoads
  /\ loads' = loads + 1
  /\ pc' \in {"config", "failed"}
  /\ switching' = "none"
  /\ UNCHANGED <<mode, transfer, polling, fpga>>

\* cha_switch_mode(): the channel is reset, set to m, and then given a baud rate
\* and flushed.  Each of these may fail, and what was done before it stays.
Switched(m) ==
  /\ mode' = m
  /\ switching' = IF switching = "failed" THEN "failed" ELSE "ok"

SwitchFails(m) == mode' \in {mode, "reset", m} /\ switching' = "failed"

\* cha_switch_config_mode().  If it fails nothing is undone.
SwitchConfig ==
  /\ pc = "config"
  /\ \/ Switched("bitbang") /\ pc' = "program"
     \/ SwitchFails("bitbang") /\ pc' = "failed"
  /\ UNCHANGED <<transfer, polling, fpga, loads>>

\* PROG is pulsed low, which resets the FPGA.  DONE falls, unless it is stuck.
ProgramPulse ==
  /\ pc = "program" /\ pc' = "probe"
  /\ received' = << >> /\ done' \in {0, done}
  /\ try' = 3 /\ status' = 0
  /\ UNCHANGED <<channelA, transfer, answers, late, loads>>

\* One of the three writes to the pins fails, before the reset or after it.
ProgramPulseFails ==
  /\ pc = "program" /\ pc' = "abort"
  /\ \/ UNCHANGED fpga
     \/ received' = << >> /\ done' \in {0, done}
  /\ UNCHANGED <<channelA, transfer, polling, loads>>

\* chb_get_high(), given the pin's level: the answer goes to the end of those not
\* yet read, and one byte is read, or none, which leaves `status' as it is.
GetHigh(level) ==
  \/ /\ status' = Head(Append(answers, level))
     /\ answers' = Tail(Append(answers, level))
     /\ UNCHANGED late
  \/ /\ late < MaxLate /\ late' = late + 1
     /\ answers' = Append(answers, level)
     /\ UNCHANGED status

\* chb_get_high() fails: GET_BITS_HIGH cannot be written, or it was and the read
\* fails, so that its answer stays unread.
GetHighFails(level) ==
  /\ \/ UNCHANGED <<answers, late>>
     \/ /\ late < MaxLate /\ late' = late + 1
        /\ answers' = Append(answers, level)
  /\ UNCHANGED status

\* A turn of the loop that waits for DONE to fall
Probe ==
  /\ pc = "probe" /\ try > 0
  /\ GetHigh(done)
  /\ IF status' = 1 THEN try' = try - 1 /\ UNCHANGED pc
     ELSE pc' = "upload" /\ UNCHANGED try
  /\ UNCHANGED <<channelA, transfer, fpga, loads>>

\* "done bit stuck high after going into programming mode"
StuckHigh ==
  /\ pc = "probe" /\ try = 0 /\ pc' = "abort"
  /\ UNCHANGED <<channelA, transfer, polling, fpga, loads>>

ProbeFails ==
  /\ pc = "probe" /\ try > 0 /\ pc' = "abort"
  /\ GetHighFails(done)
  /\ UNCHANGED <<channelA, transfer, try, fpga, loads>>

-----------------------------------------------------------------------------
(***************************************************************************)
(* bit_load_firmware()                                                     *)
(***************************************************************************)
UploadStart ==
  /\ pc = "upload" /\ pc' = "fill"
  /\ filled' = 0 /\ bidx' = 0 /\ buf' = [b \in 0 .. 1 |-> 0] /\ tc' = "NULL"
  /\ UNCHANGED <<channelA, tc_buf, tc_block, polling, fpga, loads>>

MoreToSend == filled < NBlocks

Fill ==
  /\ pc = "fill" /\ MoreToSend
  /\ buf' = [buf EXCEPT ![bidx] = filled + 1] /\ filled' = filled + 1
  /\ pc' = IF tc = "NULL" THEN "submit" ELSE "wait"
  /\ UNCHANGED <<channelA, bidx, tc, tc_buf, tc_block, polling, fpga, loads>>

\* ftdi_transfer_data_done() of the transfer before this one
Wait ==
  /\ pc = "wait" /\ tc \in {"done", "failed"}
  /\ pc' = IF tc = "done" THEN "submit" ELSE "abort"
  /\ UNCHANGED <<channelA, transfer, polling, fpga, loads>>

\* Mutant of Submit: the buffers do not take turns.
SubmitSameBuffer ==
  /\ pc = "submit" /\ pc' = "fill"
  /\ tc' = "pending" /\ tc_buf' = bidx /\ tc_block' = buf[bidx]
  /\ UNCHANGED <<channelA, filled, buf, bidx, polling, fpga, loads>>

Submit ==
  /\ pc = "submit" /\ pc' = "fill"
  /\ tc' = "pending" /\ tc_buf' = bidx /\ tc_block' = buf[bidx]
  /\ bidx' = (bidx + 1) % 2
  /\ UNCHANGED <<channelA, filled, buf, polling, fpga, loads>>

SubmitFails ==
  /\ pc = "submit" /\ pc' = "abort" /\ tc' = "NULL"
  /\ UNCHANGED <<channelA, filled, buf, bidx, tc_buf, tc_block, polling, fpga, loads>>

\* The transfer is made, at any time after its submission, with what the buffer
\* has then; or it fails.
Transmit ==
  /\ tc = "pending"
  /\ \/ tc' = "done" /\ received' = Append(received, buf[tc_buf])
     \/ tc' = "failed" /\ UNCHANGED received
  /\ UNCHANGED <<pc, channelA, filled, buf, bidx, tc_buf, tc_block, polling, done, loads>>

\* Mutant of LastDone: the last transfer is not waited for.
LastDoneAtOnce ==
  /\ pc = "fill" /\ ~MoreToSend
  /\ pc' = "poll" /\ try' = 3 /\ status' = 0
  /\ UNCHANGED <<channelA, transfer, answers, late, fpga, loads>>

\* ftdi_transfer_data_done() of the last transfer
LastDone ==
  /\ pc = "fill" /\ ~MoreToSend /\ tc \in {"done", "failed"}
  /\ IF tc = "done" THEN pc' = "poll" /\ try' = 3 /\ status' = 0
     ELSE pc' = "abort" /\ UNCHANGED <<try, status>>
  /\ UNCHANGED <<channelA, transfer, answers, late, fpga, loads>>

\* With the clocks of init_cycles an FPGA that has all of the bitstream may start.
MayStart(d) == d = done \/ (d = 1 /\ received = [i \in 1 .. NBlocks |-> i])

\* Mutant of Poll: the attempts start over.
PollForever ==
  /\ pc = "poll" /\ try > 0
  /\ \E d \in 0 .. 1 : MayStart(d) /\ done' = d /\ GetHigh(d)
  /\ IF status' = 1 THEN pc' = "fifo" /\ UNCHANGED try
     ELSE try' = (IF try = 1 THEN 3 ELSE try - 1) /\ UNCHANGED pc
  /\ UNCHANGED <<channelA, transfer, received, loads>>

\* A turn of the loop that waits for DONE to rise
Poll ==
  /\ pc = "poll" /\ try > 0
  /\ \E d \in 0 .. 1 : MayStart(d) /\ done' = d /\ GetHigh(d)
  /\ IF status' = 1 THEN pc' = "fifo" /\ UNCHANGED try
     ELSE try' = try - 1 /\ UNCHANGED pc
  /\ UNCHANGED <<channelA, transfer, received, loads>>

\* Mutant of StuckLow: the attempts are used up, and nothing else is looked at.
StuckLowIgnored ==
  /\ pc = "poll" /\ try = 0
  /\ pc' = "fifo"
  /\ UNCHANGED <<channelA, transfer, polling, fpga, loads>>

\* "done bit stuck low after programming"
StuckLow ==
  /\ pc = "poll" /\ try = 0
  /\ pc' = "abort"
  /\ UNCHANGED <<channelA, transfer, polling, fpga, loads>>

\* The clocks cannot be written, or they have been and chb_get_high() fails.
PollFails ==
  /\ pc = "poll" /\ try > 0 /\ pc' = "abort"
  /\ \E d \in 0 .. 1 : MayStart(d) /\ done' = d /\ GetHighFails(d)
  /\ UNCHANGED <<channelA, transfer, try, received, loads>>

-----------------------------------------------------------------------------
\* cha_switch_fifo_mode(), up to the search for the answer of the device
SwitchFifo ==
  /\ pc = "fifo"
  /\ \/ Switched("fifo") /\ pc' = "sync"
     \/ SwitchFails("fifo") /\ pc' = "abort"
  /\ UNCHANGED <<transfer, polling, fpga, loads>>

\* Mutant of Abort: channel A is left as it is.
AbortInPlace ==
  /\ pc = "abort" /\ pc' = "failed"
  /\ UNCHANGED <<channelA, transfer, polling, fpga, loads>>

\* The error path calls it again, and does not look at its result.
Abort ==
  /\ pc = "abort"
  /\ \/ Switched("fifo") /\ pc' = "abort sync"
     \/ SwitchFails("fifo") /\ pc' = "failed"
  /\ UNCHANGED <<transfer, polling, fpga, loads>>

\* cha_sync_stream(): reads without data are repeated until the answer comes, and
\* only an FPGA that is configured gives one.
Sync ==
  /\ done = 1
  /\ \/ pc = "sync" /\ pc' = "loaded"
     \/ pc = "abort sync" /\ pc' = "failed"
  /\ UNCHANGED <<channelA, transfer, polling, fpga, loads>>

\* A write or a read fails.
SyncFails ==
  /\ \/ pc = "sync" /\ pc' = "abort"
     \/ pc = "abort sync" /\ pc' = "failed"
  /\ UNCHANGED <<channelA, transfer, polling, fpga, loads>>

HostStep ==
  \/ SwitchConfig \/ ProgramPulse \/ Probe \/ StuckHigh
  \/ UploadStart \/ Fill \/ Wait \/ Submit \/ LastDone
  \/ Poll \/ StuckLow \/ SwitchFifo \/ Abort \/ Sync

CallFails ==
  ProgramPulseFails \/ ProbeFails \/ SubmitFails \/ PollFails \/ SyncFails

Next == Load \/ HostStep \/ CallFails \/ Transmit

Spec == Init /\ [][Next]_vars

\* The host goes on where it does not wait, libusb makes a transfer or reports its
\* failure, and a configured FPGA answers.  That a call fails is not assumed.
FairSpec == Spec /\ WF_vars(HostStep) /\ WF_vars(Transmit)

-----------------------------------------------------------------------------
\* The types; no more is copied than the bitstream has.
TypeOK ==
  /\ pc \in Returned \cup {"config", "program", "probe", "upload", "fill", "wait",
                           "submit", "poll", "fifo", "sync", "abort", "abort sync"}
  /\ mode \in {"reset", "bitbang", "fifo"} /\ switching \in {"none", "ok", "failed"}
  /\ filled \in Nat /\ filled <= NBlocks
  /\ buf \in [0 .. 1 -> Nat] /\ bidx \in 0 .. 1
  /\ tc \in {"NULL", "pending", "done", "failed"} /\ tc_buf \in 0 .. 1
  /\ tc_block \in Nat
  /\ try \in 0 .. 3 /\ status \in 0 .. 1
  /\ received \in Seq(Nat) /\ done \in 0 .. 1 /\ answers \in Seq(0 .. 1)
  /\ loads \in Nat /\ late \in Nat

\* A buffer is not filled again while the transfer that sends it is in flight.
BufferStable == tc = "pending" => buf[tc_buf] = tc_block

\* Each block reaches the FPGA once and in order.
InOrder ==
  /\ Len(received) <= NBlocks
  /\ \A i \in 1 .. Len(received) : received[i] = i

\* No transfer is in flight once bit_load_firmware() has returned: its buffers are
\* on the stack.
NoDanglingTransfer ==
  tc = "pending" => pc \in {"fill", "wait"}

\* A transfer in flight finds its buffer as it was when it was submitted: not filled
\* again, and not gone with the stack of bit_load_firmware() (src/src/bit.c:164-214).
BuffersHeld == BufferStable /\ NoDanglingTransfer

\* A load that reports success has sent the FPGA all of the bitstream, and has
\* configured it; the latter if each answer of channel B was read by the call that
\* asked, in this load and in those before: one that came late, or whose read
\* failed, is taken for that to the next question (src/src/chb.c:183-198).
SuccessMeansConfigured ==
  pc \in {"fifo", "sync", "loaded"} =>
    /\ Len(received) = NBlocks
    /\ late = 0 => done = 1

\* However a load ends, it leaves channel A in FIFO mode, unless it was a switch of
\* mode that failed or the bitstream could not be read and nothing was touched.
FifoModeRestored == pc \in Returned /\ switching = "ok" => mode = "fifo"

\* Every load ends, or waits for an answer of an FPGA that is not configured: the
\* error path searches for one even if it was the configuration that failed.
LoadEnds == pc = "config" ~> pc \in Returned \/ (pc \in {"sync", "abort sync"} /\ done = 0)
=============================================================================
