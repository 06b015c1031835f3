---------------------------- MODULE CaptureLoop ----------------------------
(***************************************************************************)
(* The capture loop of libopenvizsla: cha_loop_* in src/cha.c and the      *)
(* ov_capture_* calls of src/ov.c which drive it.                          *)
(*                                                                         *)
(* A session keeps NTransfers bulk transfers queued at the device.         *)
(* cha_loop_run() submits them all and then handles libusb events until    *)
(* `complete' is set; the completion callback decodes the FTDI packets of  *)
(* the buffer, hands USB packets to the user's callback and submits the    *)
(* transfer again.  Several things can leave the RUNNING state: the count  *)
(* limit, the end of the stream, a break from inside the user's callback,  *)
(* the device confirming that SDRAM host read is off, or an error.  From   *)
(* then on no transfer is submitted, those in flight are cancelled, and    *)
(* the loop must return exactly when the last one has been reported.       *)
(*                                                                         *)
(* The bytes are abstracted: an FTDI packet decodes to any sequence of USB *)
(* packets and bus frames and may end in a decoding error.  What libusb    *)
(* does with a transfer in flight (complete, fail, honour a cancellation   *)
(* or not) is a choice.  User calls come from one thread.                  *)
(***************************************************************************)
EXTENDS Integers, FiniteSets

CONSTANTS
  NTransfers,     \* transfers of a session, sizeof(loop->transfer) in the code
  BufferPackets,  \* FTDI packets that fit in a transfer buffer
  Counts,         \* the values of `count' the user passes to dispatch
  MaxDelivered    \* bound: packets one run hands to the user's callback

ASSUME NTransfersAssumption    == NTransfers \in Nat \ {0}
ASSUME BufferPacketsAssumption == BufferPackets \in Nat
ASSUME CountsAssumption        == Counts \subseteq Int
ASSUME MaxDeliveredAssumption  == MaxDelivered \in Nat

VARIABLES
  state,             \* loop->state
  active_transfers,  \* loop->active_transfers
  complete,          \* loop->complete
  count,             \* loop->count
  max_count,         \* loop->max_count
  callback,          \* loop->callback: "NULL" or the "user"'s
  tx,                \* for each transfer, where it is
  pc,                \* where the program is
  cur,               \* the transfer whose callback runs
  left,              \* FTDI packets of its buffer still to be decoded
  op,                \* the call that runs the loop
  ret,               \* what the last call returned
  delivered          \* history: packets the current run gave to the user

vars == <<state, active_transfers, complete, count, max_count, callback,
          tx, pc, cur, left, op, ret, delivered>>

counters == <<count, max_count, callback, op, ret, delivered>>

Transfers == 0 .. NTransfers - 1

\* enum cha_loop_state
RUNNING       == 0
FATAL_ERROR   == 1
BREAK_LOOP    == 2
COUNT_LIMIT   == 3
END_OF_STREAM == 4
HOST_READ_OFF == 5
LoopState     == 0 .. 5

\* "flight": submitted; "cancel": submitted, and libusb was asked to cancel it
TransferState == {"none", "idle", "flight", "cancel"}
Pending == {t \in Transfers : tx[t] \in {"flight", "cancel"}}

\* The places of the program inside cha_loop_run()
InRun == {"submit", "events", "decode", "frame"}

-----------------------------------------------------------------------------
Init ==
  /\ state = RUNNING /\ active_transfers = 0 /\ complete = 0
  /\ count = 0 /\ max_count = 0 /\ callback = "NULL"
  /\ tx = [t \in Transfers |-> "none"]
  /\ pc = "closed" /\ cur = 0 /\ left = 0
  /\ op = "start" /\ ret = 0 /\ delivered = 0

(***************************************************************************)
(* The calls of the user between two runs of the loop.                     *)
(***************************************************************************)

\* cha_loop_cancel_transfer(): libusb ignores the transfers not in flight.
CancelTransfer(f) ==
  [t \in Transfers |-> IF f[t] = "flight" THEN "cancel" ELSE f[t]]

\* ov_capture_start().  When cha_start_stream() fails the caller gets -1 and
\* the transfers stay allocated; when cha_loop_init() fails it frees them.
CaptureStart ==
  /\ pc = "closed"
  /\ state' = RUNNING /\ callback' = "user"
  /\ \/ /\ tx' = [t \in Transfers |-> "idle"]
        /\ \/ pc' = "ready" /\ ret' = 0
           \/ pc' = "closed" /\ ret' = -1
     \/ /\ tx' = [t \in Transfers |-> "none"]
        /\ pc' = "closed" /\ ret' = -1
  /\ op' = "start"
  /\ UNCHANGED <<active_transfers, complete, count, max_count, cur, left,
                 delivered>>

\* ov_capture_set_callback()
SetCallback ==
  /\ pc = "ready"
  /\ callback' \in {"NULL", "user"}
  /\ UNCHANGED <<state, active_transfers, complete, count, max_count, tx, pc,
                 cur, left, op, ret, delivered>>

\* ov_capture_breakloop() between two runs
Break ==
  /\ pc = "ready"
  /\ state' = BREAK_LOOP
  /\ tx' = CancelTransfer(tx)
  /\ UNCHANGED <<active_transfers, complete, pc, cur, left, counters>>

\* Mutants of RunHead: `complete' or `count' survives from the last run.
RunHeadKeepsComplete(n, st) ==
  /\ count' = 0 /\ max_count' = n /\ delivered' = 0 /\ UNCHANGED complete
  /\ IF st = FATAL_ERROR
       THEN pc' = "ready" /\ ret' = -FATAL_ERROR /\ UNCHANGED active_transfers
       ELSE pc' = "submit" /\ active_transfers' = 0 /\ UNCHANGED ret

RunHeadKeepsCount(n, st) ==
  /\ max_count' = n /\ complete' = 0 /\ delivered' = 0 /\ UNCHANGED count
  /\ IF st = FATAL_ERROR
       THEN pc' = "ready" /\ ret' = -FATAL_ERROR /\ UNCHANGED active_transfers
       ELSE pc' = "submit" /\ active_transfers' = 0 /\ UNCHANGED ret

\* The head of cha_loop_run(): the counters are reset, `state' is not.
RunHead(n, st) ==
  /\ count' = 0 /\ max_count' = n /\ complete' = 0 /\ delivered' = 0
  /\ IF st = FATAL_ERROR
       THEN /\ pc' = "ready" /\ ret' = -FATAL_ERROR
            /\ UNCHANGED active_transfers
       ELSE /\ pc' = "submit" /\ active_transfers' = 0
            /\ UNCHANGED ret

\* ov_capture_dispatch(ov, n)
Dispatch(n) ==
  /\ pc = "ready"
  /\ op' = "dispatch"
  /\ RunHead(n, state)
  /\ UNCHANGED <<state, callback, tx, cur, left>>

\* ov_capture_stop() up to its run of the loop.  The result of
\* cha_halt_stream() is overwritten by that run, so both outcomes act alike.
CaptureStop ==
  /\ pc = "ready"
  /\ op' = "stop"
  /\ callback' = "NULL"
  /\ state' = RUNNING
  /\ RunHead(-1, RUNNING)
  /\ UNCHANGED <<tx, cur, left>>

-----------------------------------------------------------------------------
(***************************************************************************)
(* cha_loop_run(): submission of the transfers, and the event loop.        *)
(***************************************************************************)

SubmitNext ==
  /\ pc = "submit" /\ active_transfers < NTransfers
  /\ tx' = [tx EXCEPT ![active_transfers] = "flight"]
  /\ active_transfers' = active_transfers + 1
  /\ UNCHANGED <<state, complete, pc, cur, left, counters>>

\* Mutant of SubmitFails: the error is not noted in `state'.
SubmitFailsSilently ==
  /\ pc = "submit" /\ active_transfers < NTransfers
  /\ tx' = CancelTransfer(tx)
  /\ pc' = "events"
  /\ UNCHANGED <<state, active_transfers, complete, cur, left, counters>>

\* libusb_submit_transfer() fails: the loop runs on with those submitted.
SubmitFails ==
  /\ pc = "submit" /\ active_transfers < NTransfers
  /\ state' = FATAL_ERROR
  /\ tx' = CancelTransfer(tx)
  /\ pc' = "events"
  /\ UNCHANGED <<active_transfers, complete, cur, left, counters>>

SubmitDone ==
  /\ pc = "submit" /\ active_transfers = NTransfers
  /\ tx' = IF state # RUNNING THEN CancelTransfer(tx) ELSE tx
  /\ pc' = "events"
  /\ UNCHANGED <<state, active_transfers, complete, cur, left, counters>>

\* libusb_handle_events_timeout_completed() returns an error.
HandleEventsFails ==
  /\ pc = "events" /\ complete = 0
  /\ state' = FATAL_ERROR
  /\ UNCHANGED <<active_transfers, complete, tx, pc, cur, left, counters>>

\* The accounting of a transfer that will not be submitted again.
Retire ==
  /\ active_transfers' = active_transfers - 1
  /\ complete' = IF active_transfers' = 0 THEN 1 ELSE 0

\* Mutant of Completed: submitted again before its buffer is decoded.
CompletedResubmitsFirst(t) ==
  /\ pc = "events" /\ t \in Pending
  /\ tx' = [tx EXCEPT ![t] = "flight"]
  /\ cur' = t /\ left' \in 0 .. BufferPackets /\ pc' = "decode"
  /\ UNCHANGED <<state, active_transfers, complete, counters>>

\* Transfer t is reported COMPLETED, perhaps in spite of a cancellation.
Completed(t) ==
  /\ pc = "events" /\ t \in Pending
  /\ tx' = [tx EXCEPT ![t] = "idle"]
  /\ cur' = t
  /\ left' \in 0 .. BufferPackets
  /\ pc' = "decode"
  /\ UNCHANGED <<state, active_transfers, complete, counters>>

\* Mutant of Cancelled: the last cancelled transfer does not end the loop.
CancelledSilently(t) ==
  /\ pc = "events" /\ tx[t] = "cancel"
  /\ tx' = [tx EXCEPT ![t] = "idle"]
  /\ active_transfers' = active_transfers - 1
  /\ UNCHANGED <<state, complete, pc, cur, left, counters>>

Cancelled(t) ==
  /\ pc = "events" /\ tx[t] = "cancel"
  /\ tx' = [tx EXCEPT ![t] = "idle"]
  /\ Retire
  /\ UNCHANGED <<state, pc, cur, left, counters>>

\* Mutant of Failed: a failed transfer is not accounted for.
FailedNotRetired(t) ==
  /\ pc = "events" /\ t \in Pending
  /\ tx' = [tx EXCEPT ![t] = "idle"]
  /\ state' = FATAL_ERROR
  /\ UNCHANGED <<active_transfers, complete, pc, cur, left, counters>>

\* ERROR, TIMED_OUT, STALL, NO_DEVICE or OVERFLOW: nothing is cancelled here.
Failed(t) ==
  /\ pc = "events" /\ t \in Pending
  /\ tx' = [tx EXCEPT ![t] = "idle"]
  /\ state' = FATAL_ERROR
  /\ Retire
  /\ UNCHANGED <<pc, cur, left, counters>>

Reported(t) == Completed(t) \/ Cancelled(t) \/ Failed(t)

-----------------------------------------------------------------------------
(***************************************************************************)
(* The completion callback: decode the FTDI packets while RUNNING, then    *)
(* submit the transfer again or retire it.                                 *)
(***************************************************************************)

MoreToDecode == state = RUNNING /\ left > 0

\* A packet of two bytes is FTDI's status only, a longer one has frames.
NextFtdiPacket ==
  /\ pc = "decode" /\ MoreToDecode
  /\ \/ pc' = "frame" /\ UNCHANGED left
     \/ pc' = "decode" /\ left' = left - 1
  /\ UNCHANGED <<state, active_transfers, complete, tx, cur, counters>>

\* Mutants of Accepting and LimitReached: leftover packets reach the user, and
\* the limit is tested one packet late.
AcceptingAlways == TRUE
LimitReachedLate == max_count > 0 /\ count > max_count

Accepting == state = RUNNING
LimitReached == max_count > 0 /\ count >= max_count

\* cha_loop_packet_callback().  The user's callback may break the loop; the
\* count limit and the LAST flag are tested after it and prevail.
PacketDecoded(brk, last) ==
  /\ pc = "frame" /\ Accepting
  /\ callback = "user" => delivered < MaxDelivered
  /\ brk => callback = "user"
  /\ delivered' = IF callback = "user" THEN delivered + 1 ELSE delivered
  /\ tx' = IF brk THEN CancelTransfer(tx) ELSE tx
  /\ count' = IF max_count > 0 THEN count + 1 ELSE count
  /\ state' = CASE last -> END_OF_STREAM
                [] ~last /\ LimitReached -> COUNT_LIMIT
                [] OTHER -> IF brk THEN BREAK_LOOP ELSE state
  /\ UNCHANGED <<active_transfers, complete, max_count, callback, pc, cur,
                 left, op, ret>>

\* cha_loop_bus_frame_callback() for SDRAM_HOST_READ_GO = 0; it does not look
\* at `state'.  Any other bus frame, and a packet once not RUNNING, is ignored.
HostReadOff ==
  /\ pc = "frame"
  /\ state' = HOST_READ_OFF
  /\ UNCHANGED <<active_transfers, complete, tx, pc, cur, left, counters>>

FrameError ==
  /\ pc = "frame"
  /\ state' = FATAL_ERROR
  /\ left' = left - 1
  /\ pc' = "decode"
  /\ UNCHANGED <<active_transfers, complete, tx, cur, counters>>

FtdiPacketEnd ==
  /\ pc = "frame"
  /\ left' = left - 1
  /\ pc' = "decode"
  /\ UNCHANGED <<state, active_transfers, complete, tx, cur, counters>>

Resubmit ==
  /\ pc = "decode" /\ ~MoreToDecode
  /\ state = RUNNING
  /\ tx' = [tx EXCEPT ![cur] = "flight"]
  /\ pc' = "events" /\ cur' = 0 /\ left' = 0
  /\ UNCHANGED <<state, active_transfers, complete, counters>>

\* The transfer is not submitted again: the loop is no longer RUNNING, or
\* libusb_submit_transfer() fails.
RetireDecoded ==
  /\ pc = "decode" /\ ~MoreToDecode
  /\ state' = IF state = RUNNING THEN FATAL_ERROR ELSE state
  /\ tx' = CancelTransfer(tx)
  /\ Retire
  /\ pc' = "events" /\ cur' = 0 /\ left' = 0
  /\ UNCHANGED counters

-----------------------------------------------------------------------------
(***************************************************************************)
(* The end of cha_loop_run(), and what its two callers do with the result. *)
(***************************************************************************)

RunResult == IF state # COUNT_LIMIT THEN -state ELSE count

DispatchReturns ==
  /\ pc = "events" /\ complete = 1 /\ op = "dispatch"
  /\ pc' = "ready" /\ ret' = RunResult
  /\ UNCHANGED <<state, active_transfers, complete, count, max_count,
                 callback, tx, cur, left, op, delivered>>

\* The rest of ov_capture_stop(): cha_loop_destroy(), cha_stop_stream().
StopReturns ==
  /\ pc = "events" /\ complete = 1 /\ op = "stop"
  /\ tx' = [t \in Transfers |-> "none"]
  /\ pc' = "closed"
  /\ \/ ret' = IF RunResult < 0 /\ RunResult # -HOST_READ_OFF THEN -1 ELSE 0
     \/ ret' = -1
  /\ UNCHANGED <<state, active_transfers, complete, count, max_count,
                 callback, cur, left, op, delivered>>

UserCall == \/ CaptureStart \/ SetCallback \/ Break \/ CaptureStop
            \/ \E n \in Counts : Dispatch(n)

Submit == SubmitNext \/ SubmitFails \/ SubmitDone

Decode == \/ NextFtdiPacket \/ FtdiPacketEnd \/ FrameError \/ HostReadOff
          \/ \E brk, last \in BOOLEAN : PacketDecoded(brk, last)

Return == DispatchReturns \/ StopReturns

Next == \/ UserCall \/ Submit \/ HandleEventsFails
        \/ \E t \in Transfers : Reported(t)
        \/ Decode \/ Resubmit \/ RetireDecoded \/ Return

Spec == Init /\ [][Next]_vars

(***************************************************************************)
(* The program takes its next step; an FTDI packet has finitely many       *)
(* frames; and libusb reports some transfer while any is in flight: each   *)
(* has a timeout of 1000 ms and the FTDI chip sends its status meanwhile.  *)
(***************************************************************************)
Fairness == /\ WF_vars(Submit)
            /\ WF_vars(\E t \in Transfers : Reported(t))
            /\ WF_vars(NextFtdiPacket)
            /\ WF_vars(FtdiPacketEnd)
            /\ WF_vars(Resubmit \/ RetireDecoded)
            /\ WF_vars(Return)

FairSpec == Spec /\ Fairness

-----------------------------------------------------------------------------
(***************************************************************************)
(* Properties.                                                             *)
(***************************************************************************)

\* The types of the variables of struct cha_loop and of the model's own.
TypeOK ==
  /\ state \in LoopState
  /\ active_transfers \in 0 .. NTransfers
  /\ complete \in 0 .. 1
  /\ count \in Nat
  /\ max_count \in Int
  /\ callback \in {"NULL", "user"}
  /\ tx \in [Transfers -> TransferState]
  /\ pc \in InRun \cup {"closed", "ready"}
  /\ cur \in Transfers
  /\ left \in 0 .. BufferPackets
  /\ op \in {"start", "dispatch", "stop"}
  /\ ret \in Int
  /\ delivered \in Nat

InCallback == pc \in {"decode", "frame"}

\* active_transfers is exactly the number of transfers libusb has still to
\* report, counting the one whose callback runs; outside of a run there is
\* none, so that no callback can be lost or come too late.
ActiveIsPending ==
  IF pc \in InRun
    THEN active_transfers = Cardinality(Pending) + (IF InCallback THEN 1 ELSE 0)
    ELSE Pending = {}

\* The buffer that is being decoded is not at the same time being filled by
\* libusb, and cha_loop_destroy() frees no transfer that is in flight.
BufferNotShared ==
  /\ InCallback => tx[cur] = "idle"
  /\ \A t \in Transfers : tx[t] = "none" => pc = "closed"

\* While the loop is RUNNING every transfer but the one being decoded is in
\* flight and none is being cancelled: the capture never runs on fewer
\* buffers than it has.
FullPipeline ==
  /\ state = RUNNING /\ pc \in InRun \ {"submit"}
  => \A t \in Transfers : tx[t] = "flight" \/ (InCallback /\ t = cur)

\* Once the loop was left for any reason but an error, all the transfers in
\* flight have been asked to cancel when it waits for events again.
AllCancelled ==
  /\ pc = "events" /\ state \notin {RUNNING, FATAL_ERROR}
  => \A t \in Transfers : tx[t] # "flight"

\* While the loop is RUNNING all transfers work, and once it was left for any reason
\* but an error none goes on without being asked to cancel: no run is left with some
\* of its transfers in the one state and some in the other (src/src/cha.c:564-594).
AllOrNone == FullPipeline /\ AllCancelled

\* The assertions at the end of cha_loop_run() and in cha_loop_destroy().
LoopAssertions ==
  pc = "events" /\ complete = 1 => state # RUNNING /\ active_transfers = 0

\* A run that has left RUNNING stays out of it: it gives no more packets to
\* the user's callback and hands no transfer back to libusb.
LeavingIsFinal ==
  [][state # RUNNING /\ pc \in InRun \ {"submit"}
     => /\ state' # RUNNING
        /\ delivered' = delivered
        /\ Pending' \subseteq Pending]_vars

\* An error is not masked by what is decoded or reported after it: the run
\* ends with FATAL_ERROR and dispatch returns -1.
FatalSticks ==
  [][state = FATAL_ERROR /\ pc \in InRun
     => state' = FATAL_ERROR /\ (pc' = "ready" => ret' = -1)]_vars

\* A run is left once and for all, and an error is its last reason
\* (src/src/cha.c:516-541).
LeftForGood == LeavingIsFinal /\ FatalSticks

\* A dispatch that returns a count returns the number of packets it gave to
\* the callback: one more than the limit it was called with, or none if the
\* limit of an earlier dispatch had already been reached.
CountReturned ==
  [][DispatchReturns /\ ret' >= 0
     => /\ callback = "user" => ret' = delivered
        /\ ret' \in {0, max_count + 1}]_vars

\* No limited run gives its callback more than one packet above the limit,
\* whatever the transfers the packets came in.
LimitRespected == max_count > 0 => delivered <= max_count + 1

\* A run that has left RUNNING, whatever the reason, returns to its caller,
\* provided that at least one transfer could be submitted.
RunEnds == pc = "events" /\ state # RUNNING /\ active_transfers > 0
           ~> pc \in {"ready", "closed"}
=============================================================================
