------------------------- MODULE CaptureLoopProofs -------------------------
(***************************************************************************)
(* Proofs about CaptureLoop for any number of transfers, any size of their *)
(* buffers and any limits.  IInv is the inductive invariant: on top of the *)
(* types it says how the transfers are distributed in each phase of the    *)
(* program, that active_transfers counts those libusb has to report, and   *)
(* what `count' has to do with the packets delivered.                      *)
(***************************************************************************)
EXTENDS CaptureLoop, FiniteSetTheorems, TLAPS

\* Where the transfers are in each phase of the program.
TransferInv ==
  /\ pc = "closed" => \A t \in Transfers : tx[t] \in {"none", "idle"}
  /\ pc = "ready" => \A t \in Transfers : tx[t] = "idle"
  /\ pc = "submit" => \A t \in Transfers :
                        tx[t] = IF t < active_transfers THEN "flight" ELSE "idle"
  /\ pc \in InRun => \A t \in Transfers : tx[t] # "none"
  /\ InCallback => tx[cur] = "idle"

\* In a run, active_transfers counts the transfers not yet retired.
CountingInv ==
  pc \in InRun =>
    active_transfers = Cardinality(Pending) + (IF InCallback THEN 1 ELSE 0)

\* `complete' is set by the last transfer and only then.
CompleteInv == complete = 1 /\ pc \in InRun => pc = "events" /\ active_transfers = 0

\* A packet is decoded only from what is left of a buffer, and never after an
\* error.
FrameInv == pc = "frame" => left > 0 /\ state # FATAL_ERROR

\* The count of a limited run is the number of packets it delivered; the
\* state COUNT_LIMIT is reached in this run or was left by an earlier one.
CountInv ==
  /\ LimitRespected
  /\ pc \in InRun =>
       /\ callback = "NULL" => delivered = 0
       /\ callback = "user" /\ max_count > 0 => count = delivered
       /\ max_count <= 0 => count = 0
       /\ max_count > 0 => count <= max_count + 1
       /\ max_count > 0 /\ state = RUNNING => count <= max_count
       /\ state = COUNT_LIMIT => \/ max_count > 0 /\ count = max_count + 1
                                 \/ count = 0 /\ delivered = 0

IInv == /\ TypeOK /\ TransferInv /\ CountingInv /\ CompleteInv /\ FrameInv
        /\ FullPipeline /\ AllCancelled

USE NTransfersAssumption DEF RUNNING, FATAL_ERROR, BREAK_LOOP, COUNT_LIMIT,
    END_OF_STREAM, HOST_READ_OFF

-----------------------------------------------------------------------------
\* The pending transfers are a finite set, and one taken from or added to it
\* changes its cardinality by one.
LEMMA PendingFinite == IsFiniteSet(Pending) /\ Cardinality(Pending) \in Nat
<1>1. IsFiniteSet(Transfers)  BY FS_Interval DEF Transfers
<1>2. Pending \subseteq Transfers  BY DEF Pending
<1> QED  BY <1>1, <1>2, FS_Subset, FS_CardinalityType

LEMMA NothingPending == Cardinality(Pending) = 0 => Pending = {}
BY PendingFinite, FS_EmptySet

\* A transfer that is pending keeps the count above zero.
LEMMA PendingPositive ==
  ASSUME NEW t \in Pending
  PROVE  Cardinality(Pending) > 0
BY PendingFinite, NothingPending

LEMMA PendingAdded ==
  ASSUME NEW t, t \notin Pending, Pending' = Pending \cup {t}
  PROVE  Cardinality(Pending') = Cardinality(Pending) + 1
BY PendingFinite, FS_AddElement

LEMMA PendingRemoved ==
  ASSUME NEW t \in Pending, Pending' = Pending \ {t}
  PROVE  Cardinality(Pending') = Cardinality(Pending) - 1
BY PendingFinite, FS_RemoveElement

\* Requests to cancel leave the set of pending transfers as it is.
LEMMA CancelKeepsPending ==
  ASSUME tx \in [Transfers -> TransferState], tx' = CancelTransfer(tx)
  PROVE  /\ Pending' = Pending
         /\ tx' \in [Transfers -> TransferState]
         /\ \A t \in Transfers :
              tx'[t] = IF tx[t] = "flight" THEN "cancel" ELSE tx[t]
BY DEF CancelTransfer, Pending, TransferState

LEMMA InitIInv == Init => IInv
<1> SUFFICES ASSUME Init  PROVE IInv
    OBVIOUS
<1>1. TypeOK
  <2>1. tx \in [Transfers -> TransferState]
    BY DEF Init, TransferState
  <2>2. cur \in Transfers /\ left \in 0 .. BufferPackets
    BY BufferPacketsAssumption DEF Init, Transfers
  <2>3. state \in LoopState /\ active_transfers \in 0 .. NTransfers /\ complete \in 0 .. 1
    BY DEF Init, LoopState
  <2>4. count \in Nat /\ max_count \in Int /\ callback \in {"NULL", "user"} /\ ret \in Int /\ delivered \in Nat
    BY DEF Init
  <2>5. pc \in InRun \cup {"closed", "ready"} /\ op \in {"start", "dispatch", "stop"}
    BY DEF Init
  <2> QED  BY <2>1, <2>2, <2>3, <2>4, <2>5 DEF TypeOK
<1>2. TransferInv /\ CountingInv /\ CompleteInv /\ FrameInv
  BY DEF Init, TransferInv, CountingInv, CompleteInv, FrameInv, InCallback, InRun
<1>3. FullPipeline /\ AllCancelled
  BY DEF Init, FullPipeline, AllCancelled, InRun
<1> QED  BY <1>1, <1>2, <1>3 DEF IInv


\* Every step keeps the inductive invariant.
LEMMA NextIInv == IInv /\ [Next]_vars => IInv'
<1> SUFFICES ASSUME IInv, [Next]_vars  PROVE IInv'
    OBVIOUS
<1> USE DEF IInv, TransferInv, CompleteInv, FrameInv, FullPipeline,
            AllCancelled, InCallback, InRun
<1>1. CASE CaptureStart
  <2>1. TypeOK'
    BY <1>1 DEF CaptureStart, counters, TypeOK, LoopState, TransferState, Transfers
  <2>2. TransferInv'
    BY <1>1 DEF CaptureStart, counters, TypeOK, TransferState, Transfers
  <2>3. CountingInv'
    BY <1>1 DEF CaptureStart, CountingInv
  <2>4. CompleteInv' /\ FrameInv'
    BY <1>1 DEF CaptureStart, counters, TypeOK
  <2>5. FullPipeline' /\ AllCancelled'
    BY <1>1 DEF CaptureStart, counters, TypeOK, TransferState, Transfers
  <2> QED  BY <2>1, <2>2, <2>3, <2>4, <2>5 DEF IInv
<1>2. CASE SetCallback
  <2>1. TypeOK'
    BY <1>2 DEF SetCallback, counters, TypeOK, LoopState, TransferState, Transfers
  <2>2. TransferInv'
    BY <1>2 DEF SetCallback, counters, TypeOK, TransferState, Transfers
  <2>3. CountingInv'
    BY <1>2 DEF SetCallback, CountingInv
  <2>4. CompleteInv' /\ FrameInv'
    BY <1>2 DEF SetCallback, counters, TypeOK
  <2>5. FullPipeline' /\ AllCancelled'
    BY <1>2 DEF SetCallback, counters, TypeOK, TransferState, Transfers
  <2> QED  BY <2>1, <2>2, <2>3, <2>4, <2>5 DEF IInv
<1>3. CASE Break
  <2>1. TypeOK'
    BY <1>3 DEF Break, CancelTransfer, counters, TypeOK, LoopState, TransferState, Transfers
  <2>2. TransferInv'
    BY <1>3 DEF Break, CancelTransfer, counters, TypeOK, TransferState, Transfers
  <2>3. CountingInv'
    BY <1>3 DEF Break, CountingInv
  <2>4. CompleteInv' /\ FrameInv'
    BY <1>3 DEF Break, CancelTransfer, counters, TypeOK
  <2>5. FullPipeline' /\ AllCancelled'
    BY <1>3 DEF Break, CancelTransfer, counters, TypeOK, TransferState, Transfers
  <2> QED  BY <2>1, <2>2, <2>3, <2>4, <2>5 DEF IInv
<1>4. CASE CaptureStop
  <2>1. TypeOK'
    BY <1>4 DEF CaptureStop, RunHead, counters, TypeOK, LoopState, TransferState, Transfers
  <2>2. TransferInv'
    BY <1>4 DEF CaptureStop, RunHead, counters, TypeOK, TransferState, Transfers
  <2>3. CountingInv'
    <3>1. Pending' = {}
      BY <1>4 DEF CaptureStop, Pending
    <3> QED  BY <1>4, <3>1, FS_EmptySet DEF CaptureStop, RunHead, CountingInv
  <2>4. CompleteInv' /\ FrameInv'
    BY <1>4 DEF CaptureStop, RunHead, counters, TypeOK
  <2>5. FullPipeline' /\ AllCancelled'
    BY <1>4 DEF CaptureStop, RunHead, counters, TypeOK, TransferState, Transfers
  <2> QED  BY <2>1, <2>2, <2>3, <2>4, <2>5 DEF IInv
<1>5. ASSUME NEW n \in Counts, Dispatch(n)  PROVE IInv'
  <2>1. TypeOK'
    BY <1>5, CountsAssumption DEF Dispatch, RunHead, TypeOK, LoopState
  <2>2. TransferInv'
    BY <1>5 DEF Dispatch, RunHead, counters, TypeOK, TransferState, Transfers
  <2>3. CountingInv'
    <3>1. Pending' = {}
      BY <1>5 DEF Dispatch, Pending
    <3> QED  BY <1>5, <3>1, FS_EmptySet DEF Dispatch, RunHead, CountingInv
  <2>4. CompleteInv' /\ FrameInv'
    BY <1>5 DEF Dispatch, RunHead, counters, TypeOK
  <2>5. FullPipeline' /\ AllCancelled'
    BY <1>5 DEF Dispatch, RunHead, counters, TypeOK, TransferState, Transfers
  <2> QED  BY <2>1, <2>2, <2>3, <2>4, <2>5 DEF IInv
<1>6. CASE SubmitNext
  <2>1. TypeOK'
    BY <1>6 DEF SubmitNext, counters, TypeOK, LoopState, TransferState, Transfers
  <2>2. TransferInv'
    BY <1>6 DEF SubmitNext, counters, TypeOK, TransferState, Transfers
  <2>3. CountingInv'
    <3>1. active_transfers \in Transfers
      BY <1>6 DEF SubmitNext, TypeOK, Transfers
    <3>2. active_transfers \notin Pending /\ Pending' = Pending \cup {active_transfers}
      BY <1>6, <3>1 DEF SubmitNext, TypeOK, Pending, TransferState
    <3>3. Cardinality(Pending') = Cardinality(Pending) + 1
      BY <3>2, PendingAdded
    <3> QED  BY <1>6, <3>3, PendingFinite DEF SubmitNext, CountingInv
  <2>4. CompleteInv' /\ FrameInv'
    BY <1>6 DEF SubmitNext, counters, TypeOK
  <2>5. FullPipeline' /\ AllCancelled'
    BY <1>6 DEF SubmitNext, counters, TypeOK, TransferState, Transfers
  <2> QED  BY <2>1, <2>2, <2>3, <2>4, <2>5 DEF IInv
<1>7. CASE SubmitFails
  <2>1. TypeOK'
    BY <1>7 DEF SubmitFails, CancelTransfer, counters, TypeOK, LoopState, TransferState, Transfers
  <2>2. TransferInv'
    BY <1>7 DEF SubmitFails, CancelTransfer, counters, TypeOK, TransferState, Transfers
  <2>3. CountingInv'
    <3>1. Pending' = Pending
      BY <1>7, CancelKeepsPending DEF SubmitFails, TypeOK, Pending
    <3> QED  BY <1>7, <3>1 DEF SubmitFails, counters, CountingInv
  <2>4. CompleteInv' /\ FrameInv'
    BY <1>7 DEF SubmitFails, CancelTransfer, counters, TypeOK
  <2>5. FullPipeline' /\ AllCancelled'
    BY <1>7 DEF SubmitFails, CancelTransfer, counters, TypeOK, TransferState, Transfers
  <2> QED  BY <2>1, <2>2, <2>3, <2>4, <2>5 DEF IInv
<1>8. CASE SubmitDone
  <2>1. TypeOK'
    BY <1>8 DEF SubmitDone, CancelTransfer, counters, TypeOK, LoopState, TransferState, Transfers
  <2>2. TransferInv'
    BY <1>8 DEF SubmitDone, CancelTransfer, counters, TypeOK, TransferState, Transfers
  <2>3. CountingInv'
    <3>1. Pending' = Pending
      BY <1>8, CancelKeepsPending DEF SubmitDone, TypeOK, Pending
    <3> QED  BY <1>8, <3>1 DEF SubmitDone, counters, CountingInv
  <2>4. CompleteInv' /\ FrameInv'
    BY <1>8 DEF SubmitDone, CancelTransfer, counters, TypeOK
  <2>5. FullPipeline' /\ AllCancelled'
    BY <1>8 DEF SubmitDone, CancelTransfer, counters, TypeOK, TransferState, Transfers
  <2> QED  BY <2>1, <2>2, <2>3, <2>4, <2>5 DEF IInv
<1>9. CASE HandleEventsFails
  <2>1. TypeOK'
    BY <1>9 DEF HandleEventsFails, counters, TypeOK, LoopState, TransferState, Transfers
  <2>2. TransferInv'
    BY <1>9 DEF HandleEventsFails, counters, TypeOK, TransferState, Transfers
  <2>3. CountingInv'
    <3>1. Pending' = Pending
      BY <1>9 DEF HandleEventsFails, Pending
    <3> QED  BY <1>9, <3>1 DEF HandleEventsFails, counters, CountingInv
  <2>4. CompleteInv' /\ FrameInv'
    BY <1>9 DEF HandleEventsFails, counters, TypeOK
  <2>5. FullPipeline' /\ AllCancelled'
    BY <1>9 DEF HandleEventsFails, counters, TypeOK, TransferState, Transfers
  <2> QED  BY <2>1, <2>2, <2>3, <2>4, <2>5 DEF IInv
<1>10. ASSUME NEW t \in Transfers, Completed(t)  PROVE IInv'
  <2>0. t \in Pending
    BY <1>10 DEF Completed, Pending
  <2>6. active_transfers > 0
    BY <1>10, <2>0, PendingPositive, PendingFinite DEF Completed, CountingInv
  <2>1. TypeOK'
    BY <1>10 DEF Completed, counters, TypeOK, TransferState
  <2>2. TransferInv'
    BY <1>10 DEF Completed, counters, TypeOK, TransferState, Transfers
  <2>3. CountingInv'
    <3>1. Pending' = Pending \ {t}
      BY <1>10 DEF Completed, TypeOK, Pending, TransferState
    <3>2. Cardinality(Pending') = Cardinality(Pending) - 1
      BY <2>0, <3>1, PendingRemoved
    <3> QED  BY <1>10, <3>2, PendingFinite DEF Completed, counters, CountingInv
  <2>4. CompleteInv' /\ FrameInv'
    BY <1>10, <2>6 DEF Completed
  <2>5. FullPipeline' /\ AllCancelled'
    BY <1>10 DEF Completed, counters, TypeOK, TransferState, Transfers
  <2> QED  BY <2>1, <2>2, <2>3, <2>4, <2>5 DEF IInv
<1>11. ASSUME NEW t \in Transfers, Cancelled(t)  PROVE IInv'
  <2>0. t \in Pending
    BY <1>11 DEF Cancelled, Pending
  <2>6. active_transfers > 0
    BY <1>11, <2>0, PendingPositive, PendingFinite DEF Cancelled, CountingInv
  <2>1. TypeOK'
    BY <1>11, <2>6 DEF Cancelled, Retire, counters, TypeOK, LoopState, TransferState
  <2>2. TransferInv'
    BY <1>11 DEF Cancelled, Retire, counters, TypeOK, TransferState, Transfers
  <2>3. CountingInv'
    <3>1. Pending' = Pending \ {t}
      BY <1>11 DEF Cancelled, TypeOK, Pending, TransferState
    <3>2. Cardinality(Pending') = Cardinality(Pending) - 1
      BY <2>0, <3>1, PendingRemoved
    <3> QED  BY <1>11, <3>2, PendingFinite DEF Cancelled, Retire, counters, CountingInv
  <2>4. CompleteInv' /\ FrameInv'
    BY <1>11 DEF Cancelled, Retire, counters, TypeOK
  <2>5. FullPipeline' /\ AllCancelled'
    BY <1>11 DEF Cancelled, Retire, counters, TypeOK, TransferState, Transfers
  <2> QED  BY <2>1, <2>2, <2>3, <2>4, <2>5 DEF IInv
<1>12. ASSUME NEW t \in Transfers, Failed(t)  PROVE IInv'
  <2>0. t \in Pending
    BY <1>12 DEF Failed, Pending
  <2>6. active_transfers > 0
    BY <1>12, <2>0, PendingPositive, PendingFinite DEF Failed, CountingInv
  <2>1. TypeOK'
    BY <1>12, <2>6 DEF Failed, Retire, counters, TypeOK, LoopState, TransferState
  <2>2. TransferInv'
    BY <1>12 DEF Failed, Retire, counters, TypeOK, TransferState, Transfers
  <2>3. CountingInv'
    <3>1. Pending' = Pending \ {t}
      BY <1>12 DEF Failed, TypeOK, Pending, TransferState
    <3>2. Cardinality(Pending') = Cardinality(Pending) - 1
      BY <2>0, <3>1, PendingRemoved
    <3> QED  BY <1>12, <3>2, PendingFinite DEF Failed, Retire, counters, CountingInv
  <2>4. CompleteInv' /\ FrameInv'
    BY <1>12 DEF Failed, Retire, counters, TypeOK
  <2>5. FullPipeline' /\ AllCancelled'
    BY <1>12 DEF Failed, Retire, counters, TypeOK, TransferState, Transfers
  <2> QED  BY <2>1, <2>2, <2>3, <2>4, <2>5 DEF IInv
<1>13. CASE NextFtdiPacket
  <2>1. TypeOK'
    BY <1>13, BufferPacketsAssumption
       DEF NextFtdiPacket, MoreToDecode, counters, TypeOK, LoopState
  <2>2. TransferInv'
    BY <1>13 DEF NextFtdiPacket, MoreToDecode, counters, TypeOK, TransferState, Transfers
  <2>3. CountingInv'
    <3>1. Pending' = Pending
      BY <1>13 DEF NextFtdiPacket, Pending
    <3> QED  BY <1>13, <3>1 DEF NextFtdiPacket, counters, CountingInv
  <2>4. CompleteInv' /\ FrameInv'
    BY <1>13 DEF NextFtdiPacket, MoreToDecode, counters, TypeOK
  <2>5. FullPipeline' /\ AllCancelled'
    BY <1>13 DEF NextFtdiPacket, MoreToDecode, counters, TypeOK, TransferState, Transfers
  <2> QED  BY <2>1, <2>2, <2>3, <2>4, <2>5 DEF IInv
<1>14. ASSUME NEW brk \in BOOLEAN, NEW last \in BOOLEAN, PacketDecoded(brk, last)
     PROVE  IInv'
  <2>1. TypeOK'
    BY <1>14, SMTT(30)
      DEF PacketDecoded, CancelTransfer, counters, TypeOK, LoopState, TransferState, Transfers
  <2>2. TransferInv'
    BY <1>14 DEF PacketDecoded, CancelTransfer, counters, TypeOK, TransferState, Transfers
  <2>3. CountingInv'
    <3>1. Pending' = Pending
      BY <1>14, CancelKeepsPending DEF PacketDecoded, TypeOK, Pending
    <3> QED  BY <1>14, <3>1 DEF PacketDecoded, CountingInv
  <2>4. CompleteInv' /\ FrameInv'
    BY <1>14 DEF PacketDecoded, CancelTransfer, counters, TypeOK
  <2>5. FullPipeline' /\ AllCancelled'
    BY <1>14 DEF PacketDecoded, CancelTransfer, counters, TypeOK, TransferState, Transfers
  <2> QED  BY <2>1, <2>2, <2>3, <2>4, <2>5 DEF IInv
<1>15. CASE HostReadOff
  <2>1. TypeOK'
    BY <1>15 DEF HostReadOff, counters, TypeOK, LoopState, TransferState, Transfers
  <2>2. TransferInv'
    BY <1>15 DEF HostReadOff, counters, TypeOK, TransferState, Transfers
  <2>3. CountingInv'
    <3>1. Pending' = Pending
      BY <1>15 DEF HostReadOff, Pending
    <3> QED  BY <1>15, <3>1 DEF HostReadOff, counters, CountingInv
  <2>4. CompleteInv' /\ FrameInv'
    BY <1>15 DEF HostReadOff, counters, TypeOK
  <2>5. FullPipeline' /\ AllCancelled'
    BY <1>15 DEF HostReadOff, counters, TypeOK, TransferState, Transfers
  <2> QED  BY <2>1, <2>2, <2>3, <2>4, <2>5 DEF IInv
<1>16. CASE FrameError
  <2>1. TypeOK'
    BY <1>16, BufferPacketsAssumption
       DEF FrameError, counters, TypeOK, LoopState
  <2>2. TransferInv'
    BY <1>16 DEF FrameError, counters, TypeOK, TransferState, Transfers
  <2>3. CountingInv'
    <3>1. Pending' = Pending
      BY <1>16 DEF FrameError, Pending
    <3> QED  BY <1>16, <3>1 DEF FrameError, counters, CountingInv
  <2>4. CompleteInv' /\ FrameInv'
    BY <1>16 DEF FrameError, counters, TypeOK
  <2>5. FullPipeline' /\ AllCancelled'
    BY <1>16 DEF FrameError, counters, TypeOK, TransferState, Transfers
  <2> QED  BY <2>1, <2>2, <2>3, <2>4, <2>5 DEF IInv
<1>17. CASE FtdiPacketEnd
  <2>1. TypeOK'
    BY <1>17, BufferPacketsAssumption
       DEF FtdiPacketEnd, counters, TypeOK, LoopState
  <2>2. TransferInv'
    BY <1>17 DEF FtdiPacketEnd, counters, TypeOK, TransferState, Transfers
  <2>3. CountingInv'
    <3>1. Pending' = Pending
      BY <1>17 DEF FtdiPacketEnd, Pending
    <3> QED  BY <1>17, <3>1 DEF FtdiPacketEnd, counters, CountingInv
  <2>4. CompleteInv' /\ FrameInv'
    BY <1>17 DEF FtdiPacketEnd, counters, TypeOK
  <2>5. FullPipeline' /\ AllCancelled'
    BY <1>17 DEF FtdiPacketEnd, counters, TypeOK, TransferState, Transfers
  <2> QED  BY <2>1, <2>2, <2>3, <2>4, <2>5 DEF IInv
<1>18. CASE Resubmit
  <2>1. TypeOK'
    BY <1>18 DEF Resubmit, MoreToDecode, counters, TypeOK, LoopState, TransferState, Transfers
  <2>2. TransferInv'
    BY <1>18 DEF Resubmit, MoreToDecode, counters, TypeOK, TransferState, Transfers
  <2>3. CountingInv'
    <3>1. cur \notin Pending /\ Pending' = Pending \cup {cur}
      BY <1>18 DEF Resubmit, TypeOK, Pending, TransferState
    <3>2. Cardinality(Pending') = Cardinality(Pending) + 1
      BY <3>1, PendingAdded
    <3> QED  BY <1>18, <3>2, PendingFinite DEF Resubmit, counters, CountingInv
  <2>4. CompleteInv' /\ FrameInv'
    BY <1>18 DEF Resubmit, MoreToDecode, counters, TypeOK
  <2>5. FullPipeline' /\ AllCancelled'
    BY <1>18 DEF Resubmit, MoreToDecode, counters, TypeOK, TransferState, Transfers
  <2> QED  BY <2>1, <2>2, <2>3, <2>4, <2>5 DEF IInv
<1>19. CASE RetireDecoded
  <2>0. active_transfers > 0
    BY <1>19, PendingFinite DEF RetireDecoded, CountingInv
  <2>1. TypeOK'
    <3>1. tx' \in [Transfers -> TransferState]
      BY <1>19, CancelKeepsPending DEF RetireDecoded, TypeOK
    <3> QED  BY <1>19, <2>0, <3>1, BufferPacketsAssumption
             DEF RetireDecoded, Retire, counters, TypeOK, LoopState, Transfers
  <2>2. TransferInv'
    BY <1>19 DEF RetireDecoded, Retire, CancelTransfer, MoreToDecode, counters, TypeOK, TransferState, Transfers
  <2>3. CountingInv'
    <3>1. Pending' = Pending
      BY <1>19, CancelKeepsPending DEF RetireDecoded, TypeOK
    <3> QED  BY <1>19, <3>1, PendingFinite DEF RetireDecoded, Retire, CountingInv
  <2>4. CompleteInv' /\ FrameInv'
    BY <1>19 DEF RetireDecoded, Retire, CancelTransfer, MoreToDecode, counters, TypeOK
  <2>5. FullPipeline' /\ AllCancelled'
    BY <1>19 DEF RetireDecoded, Retire, CancelTransfer, MoreToDecode, counters, TypeOK, TransferState, Transfers
  <2> QED  BY <2>1, <2>2, <2>3, <2>4, <2>5 DEF IInv
<1>20. CASE DispatchReturns
  <2>1. TypeOK'
    BY <1>20 DEF DispatchReturns, RunResult, counters, TypeOK, LoopState, TransferState, Transfers
  <2>2. TransferInv'
    <3>1. Pending = {}
      BY <1>20, PendingFinite, NothingPending DEF DispatchReturns, CountingInv
    <3> QED  BY <1>20, <3>1 DEF DispatchReturns, TypeOK, Pending, TransferState
  <2>3. CountingInv'
    BY <1>20 DEF DispatchReturns, CountingInv
  <2>4. CompleteInv' /\ FrameInv'
    BY <1>20 DEF DispatchReturns, RunResult, counters, TypeOK
  <2>5. FullPipeline' /\ AllCancelled'
    BY <1>20 DEF DispatchReturns, RunResult, counters, TypeOK, TransferState, Transfers
  <2> QED  BY <2>1, <2>2, <2>3, <2>4, <2>5 DEF IInv
<1>21. CASE StopReturns
  <2>1. TypeOK'
    BY <1>21 DEF StopReturns, RunResult, counters, TypeOK, LoopState, TransferState, Transfers
  <2>2. TransferInv'
    BY <1>21 DEF StopReturns, RunResult, counters, TypeOK, TransferState, Transfers
  <2>3. CountingInv'
    BY <1>21 DEF StopReturns, CountingInv
  <2>4. CompleteInv' /\ FrameInv'
    BY <1>21 DEF StopReturns, RunResult, counters, TypeOK
  <2>5. FullPipeline' /\ AllCancelled'
    BY <1>21 DEF StopReturns, RunResult, counters, TypeOK, TransferState, Transfers
  <2> QED  BY <2>1, <2>2, <2>3, <2>4, <2>5 DEF IInv
<1>22. CASE UNCHANGED vars
  BY <1>22 DEF vars, TypeOK, CountingInv, Pending
<1> QED
  BY <1>1, <1>2, <1>3, <1>4, <1>5, <1>6, <1>7, <1>8, <1>9, <1>10, <1>11, <1>12, <1>13, <1>14, <1>15, <1>16, <1>17, <1>18, <1>19, <1>20, <1>21, <1>22
  DEF Next, UserCall, Submit, Reported, Decode, Return

-----------------------------------------------------------------------------
\* IInv is an invariant; the properties that it contains follow.
LEMMA Invariance == Spec => []IInv
BY InitIInv, NextIInv, PTL DEF Spec

\* Every variable of the loop keeps its type: active_transfers, unsigned in
\* the code, never wraps below zero.
THEOREM TypeCorrect == Spec => []TypeOK
<1>1. IInv => TypeOK  BY DEF IInv
<1> QED  BY Invariance, <1>1, PTL

\* active_transfers is exact in a run, and between runs no transfer is in
\* flight whose callback could still come.
THEOREM ActiveIsPendingCorrect == Spec => []ActiveIsPending
<1>1. IInv => ActiveIsPending
  <2> SUFFICES ASSUME IInv  PROVE ActiveIsPending
      OBVIOUS
  <2>1. CASE pc \in InRun
    BY <2>1 DEF IInv, CountingInv, ActiveIsPending
  <2>2. CASE pc \notin InRun
    <3>1. \A t \in Transfers : tx[t] \in {"none", "idle"}
      BY <2>2 DEF IInv, TypeOK, TransferInv
    <3> QED  BY <2>2, <3>1 DEF ActiveIsPending, Pending
  <2> QED  BY <2>1, <2>2
<1> QED  BY Invariance, <1>1, PTL

\* libusb never fills the buffer that is being decoded, and only transfers
\* that are not in flight are freed.
THEOREM BufferNotSharedCorrect == Spec => []BufferNotShared
<1>1. IInv => BufferNotShared
  BY DEF IInv, TypeOK, TransferInv, BufferNotShared
<1> QED  BY Invariance, <1>1, PTL

\* A loop that is RUNNING has all its transfers in flight.
THEOREM FullPipelineCorrect == Spec => []FullPipeline
<1>1. IInv => FullPipeline  BY DEF IInv
<1> QED  BY Invariance, <1>1, PTL

\* A loop left without an error waits only for transfers it has cancelled.
THEOREM AllCancelledCorrect == Spec => []AllCancelled
<1>1. IInv => AllCancelled  BY DEF IInv
<1> QED  BY Invariance, <1>1, PTL

\* The assertions of cha_loop_run() and cha_loop_destroy() never fail.  The
\* first one needs FullPipeline: with none in flight the loop is not RUNNING.
THEOREM LoopAssertionsCorrect == Spec => []LoopAssertions
<1>1. IInv => LoopAssertions
  <2> SUFFICES ASSUME IInv, pc = "events", complete = 1
               PROVE  state # RUNNING /\ active_transfers = 0
      BY DEF LoopAssertions
  <2>1. active_transfers = 0
    BY DEF IInv, CompleteInv, InRun
  <2>2. Pending = {}
    BY <2>1, PendingFinite, NothingPending DEF IInv, CountingInv, InRun, InCallback
  <2>3. 0 \in Transfers
    BY DEF Transfers
  <2>4. tx[0] # "flight"
    BY <2>2, <2>3 DEF Pending
  <2> QED  BY <2>1, <2>3, <2>4 DEF IInv, FullPipeline, InRun, InCallback
<1> QED  BY Invariance, <1>1, PTL

-----------------------------------------------------------------------------
\* The count: CountInv is inductive relative to IInv.
LEMMA NextCountInv == IInv /\ CountInv /\ [Next]_vars => CountInv'
<1> SUFFICES ASSUME IInv, CountInv, [Next]_vars  PROVE CountInv'
    OBVIOUS
<1> USE DEF IInv, TypeOK, CountInv, LimitRespected, InRun
<1>1. CASE CaptureStart
  BY <1>1 DEF CaptureStart
<1>2. CASE SetCallback
  BY <1>2 DEF SetCallback
<1>3. CASE Break
  BY <1>3 DEF Break, counters
<1>4. CASE CaptureStop
  BY <1>4 DEF CaptureStop, RunHead
<1>5. ASSUME NEW n \in Counts, Dispatch(n)  PROVE CountInv'
  BY <1>5, CountsAssumption DEF Dispatch, RunHead
<1>6. CASE SubmitNext
  BY <1>6 DEF SubmitNext, counters
<1>7. CASE SubmitFails
  BY <1>7 DEF SubmitFails, counters
<1>8. CASE SubmitDone
  BY <1>8 DEF SubmitDone, counters
<1>9. CASE HandleEventsFails
  BY <1>9 DEF HandleEventsFails, counters
<1>10. ASSUME NEW t \in Transfers, Completed(t)  PROVE CountInv'
  BY <1>10 DEF Completed, counters
<1>11. ASSUME NEW t \in Transfers, Cancelled(t)  PROVE CountInv'
  BY <1>11 DEF Cancelled, counters
<1>12. ASSUME NEW t \in Transfers, Failed(t)  PROVE CountInv'
  BY <1>12 DEF Failed, counters
<1>13. CASE NextFtdiPacket
  BY <1>13 DEF NextFtdiPacket, counters
<1>14. ASSUME NEW brk \in BOOLEAN, NEW last \in BOOLEAN, PacketDecoded(brk, last)  PROVE CountInv'
  <2>1. state = RUNNING /\ pc = "frame" /\ pc' = pc
    BY <1>14 DEF PacketDecoded, Accepting
  <2>2. CASE max_count <= 0
    BY <1>14, <2>1, <2>2 DEF PacketDecoded, LimitReached
  <2>3. CASE max_count > 0 /\ callback = "NULL"
    BY <1>14, <2>1, <2>3 DEF PacketDecoded, LimitReached
  <2>4. CASE max_count > 0 /\ callback = "user"
    <3>1. /\ delivered = count /\ count <= max_count
          /\ delivered' = delivered + 1 /\ count' = count + 1
          /\ max_count' = max_count /\ callback' = callback
          /\ count \in Int /\ max_count \in Int
      BY <1>14, <2>1, <2>4 DEF PacketDecoded
    <3>2. state' # RUNNING \/ count < max_count
      BY <1>14, <2>1, <2>4, <3>1 DEF PacketDecoded, LimitReached
    <3>3. state' = COUNT_LIMIT => count >= max_count
      BY <1>14, <2>1, <2>4, <3>1 DEF PacketDecoded, LimitReached
    <3> HIDE DEF IInv, TypeOK
    <3> QED  BY <2>1, <2>4, <3>1, <3>2, <3>3
  <2> QED  BY <2>2, <2>3, <2>4
<1>15. CASE HostReadOff
  BY <1>15 DEF HostReadOff, counters
<1>16. CASE FrameError
  BY <1>16 DEF FrameError, counters
<1>17. CASE FtdiPacketEnd
  BY <1>17 DEF FtdiPacketEnd, counters
<1>18. CASE Resubmit
  BY <1>18 DEF Resubmit, counters
<1>19. CASE RetireDecoded
  BY <1>19 DEF RetireDecoded, counters
<1>20. CASE DispatchReturns
  BY <1>20 DEF DispatchReturns
<1>21. CASE StopReturns
  BY <1>21 DEF StopReturns
<1>22. CASE UNCHANGED vars
  BY <1>22 DEF vars
<1> QED
  BY <1>1, <1>2, <1>3, <1>4, <1>5, <1>6, <1>7, <1>8, <1>9, <1>10, <1>11, <1>12, <1>13, <1>14, <1>15, <1>16, <1>17, <1>18, <1>19, <1>20, <1>21, <1>22
  DEF Next, UserCall, Submit, Reported, Decode, Return

LEMMA CountInvariance == Spec => []CountInv
<1>1. Init => CountInv
  BY DEF Init, CountInv, LimitRespected, InRun
<1> QED  BY <1>1, NextCountInv, Invariance, PTL DEF Spec

\* No run gives the user more than one packet above its limit.
THEOREM LimitRespectedCorrect == Spec => []LimitRespected
<1>1. CountInv => LimitRespected  BY DEF CountInv
<1> QED  BY CountInvariance, <1>1, PTL

\* A non-negative result of dispatch is the number of packets delivered, and
\* it is the limit plus one or zero.
THEOREM CountReturnedCorrect == Spec => CountReturned
<1> DEFINE A == DispatchReturns /\ ret' >= 0
                => /\ callback = "user" => ret' = delivered
                   /\ ret' \in {0, max_count + 1}
<1>1. IInv /\ CountInv /\ LoopAssertions /\ [Next]_vars => [A]_vars
  <2> SUFFICES ASSUME IInv, CountInv, LoopAssertions, DispatchReturns, ret' >= 0
               PROVE  /\ callback = "user" => ret' = delivered
                      /\ ret' \in {0, max_count + 1}
      OBVIOUS
  <2>1. pc \in InRun /\ state # RUNNING
    BY DEF DispatchReturns, LoopAssertions, InRun
  <2>2. state = COUNT_LIMIT /\ ret' = count
    BY <2>1 DEF DispatchReturns, RunResult, IInv, TypeOK, LoopState
  <2> QED  BY <2>1, <2>2 DEF CountInv, IInv, TypeOK
<1> QED
  BY <1>1, Invariance, CountInvariance, LoopAssertionsCorrect, PTL
     DEF Spec, CountReturned

-----------------------------------------------------------------------------
\* A run that has left RUNNING is over for good: no packet reaches the user
\* and no transfer goes back to libusb.
THEOREM LeavingIsFinalCorrect == Spec => LeavingIsFinal
<1> DEFINE Final == /\ state' # RUNNING
                    /\ delivered' = delivered
                    /\ Pending' \subseteq Pending
           A == state # RUNNING /\ pc \in InRun \ {"submit"} => Final
<1>0. IInv /\ [Next]_vars => [A]_vars
  <2> SUFFICES ASSUME IInv, Next, state # RUNNING, pc \in InRun \ {"submit"}
               PROVE  Final
      OBVIOUS
  <2> USE DEF IInv, TypeOK, InRun, LoopState, Pending, TransferState, FrameInv
  <2>1. CASE CaptureStart
    BY <2>1 DEF CaptureStart
  <2>2. CASE SetCallback
    BY <2>2 DEF SetCallback
  <2>3. CASE Break
    BY <2>3 DEF Break, counters
  <2>4. CASE CaptureStop
    BY <2>4 DEF CaptureStop
  <2>5. ASSUME NEW n \in Counts, Dispatch(n)  PROVE Final
    BY <2>5 DEF Dispatch
  <2>6. CASE SubmitNext
    BY <2>6 DEF SubmitNext, counters
  <2>7. CASE SubmitFails
    BY <2>7 DEF SubmitFails, CancelTransfer, counters
  <2>8. CASE SubmitDone
    BY <2>8 DEF SubmitDone, CancelTransfer, counters
  <2>9. CASE HandleEventsFails
    BY <2>9 DEF HandleEventsFails, counters
  <2>10. ASSUME NEW t \in Transfers, Completed(t)  PROVE Final
    BY <2>10 DEF Completed, counters
  <2>11. ASSUME NEW t \in Transfers, Cancelled(t)  PROVE Final
    BY <2>11 DEF Cancelled, counters
  <2>12. ASSUME NEW t \in Transfers, Failed(t)  PROVE Final
    BY <2>12 DEF Failed, counters
  <2>13. CASE NextFtdiPacket
    BY <2>13 DEF NextFtdiPacket, counters
  <2>14. ASSUME NEW brk \in BOOLEAN, NEW last \in BOOLEAN, PacketDecoded(brk, last)  PROVE Final
    BY <2>14 DEF PacketDecoded, Accepting, CancelTransfer
  <2>15. CASE HostReadOff
    BY <2>15 DEF HostReadOff, counters
  <2>16. CASE FrameError
    BY <2>16 DEF FrameError, counters
  <2>17. CASE FtdiPacketEnd
    BY <2>17 DEF FtdiPacketEnd, counters
  <2>18. CASE Resubmit
    BY <2>18 DEF Resubmit, counters
  <2>19. CASE RetireDecoded
    BY <2>19 DEF RetireDecoded, CancelTransfer, counters
  <2>20. CASE DispatchReturns
    BY <2>20 DEF DispatchReturns
  <2>21. CASE StopReturns
    BY <2>21 DEF StopReturns
  <2> QED
    BY <2>1, <2>2, <2>3, <2>4, <2>5, <2>6, <2>7, <2>8, <2>9, <2>10, <2>11, <2>12, <2>13, <2>14, <2>15, <2>16, <2>17, <2>18, <2>19, <2>20, <2>21
    DEF Next, UserCall, Submit, Reported, Decode, Return
<1> QED  BY <1>0, Invariance, PTL DEF Spec, LeavingIsFinal

\* An error ends the run as an error, whatever is decoded or reported after.
THEOREM FatalSticksCorrect == Spec => FatalSticks
<1> DEFINE Sticks == state' = FATAL_ERROR /\ (pc' = "ready" => ret' = -1)
           A == state = FATAL_ERROR /\ pc \in InRun => Sticks
<1>0. IInv /\ [Next]_vars => [A]_vars
  <2> SUFFICES ASSUME IInv, Next, state = FATAL_ERROR, pc \in InRun
               PROVE  Sticks
      OBVIOUS
  <2> USE DEF IInv, InRun, FrameInv
  <2>1. CASE CaptureStart
    BY <2>1 DEF CaptureStart
  <2>2. CASE SetCallback
    BY <2>2 DEF SetCallback
  <2>3. CASE Break
    BY <2>3 DEF Break, counters
  <2>4. CASE CaptureStop
    BY <2>4 DEF CaptureStop
  <2>5. ASSUME NEW n \in Counts, Dispatch(n)  PROVE Sticks
    BY <2>5 DEF Dispatch
  <2>6. CASE SubmitNext
    BY <2>6 DEF SubmitNext, counters
  <2>7. CASE SubmitFails
    BY <2>7 DEF SubmitFails, counters
  <2>8. CASE SubmitDone
    BY <2>8 DEF SubmitDone, counters
  <2>9. CASE HandleEventsFails
    BY <2>9 DEF HandleEventsFails, counters
  <2>10. ASSUME NEW t \in Transfers, Completed(t)  PROVE Sticks
    BY <2>10 DEF Completed, counters
  <2>11. ASSUME NEW t \in Transfers, Cancelled(t)  PROVE Sticks
    BY <2>11 DEF Cancelled, counters
  <2>12. ASSUME NEW t \in Transfers, Failed(t)  PROVE Sticks
    BY <2>12 DEF Failed, counters
  <2>13. CASE NextFtdiPacket
    BY <2>13 DEF NextFtdiPacket, counters
  <2>14. ASSUME NEW brk \in BOOLEAN, NEW last \in BOOLEAN, PacketDecoded(brk, last)  PROVE Sticks
    BY <2>14 DEF PacketDecoded, Accepting
  <2>15. CASE HostReadOff
    BY <2>15 DEF HostReadOff, counters
  <2>16. CASE FrameError
    BY <2>16 DEF FrameError, counters
  <2>17. CASE FtdiPacketEnd
    BY <2>17 DEF FtdiPacketEnd, counters
  <2>18. CASE Resubmit
    BY <2>18 DEF Resubmit, counters
  <2>19. CASE RetireDecoded
    BY <2>19 DEF RetireDecoded, counters
  <2>20. CASE DispatchReturns
    BY <2>20 DEF DispatchReturns, RunResult
  <2>21. CASE StopReturns
    BY <2>21 DEF StopReturns
  <2> QED
    BY <2>1, <2>2, <2>3, <2>4, <2>5, <2>6, <2>7, <2>8, <2>9, <2>10, <2>11, <2>12, <2>13, <2>14, <2>15, <2>16, <2>17, <2>18, <2>19, <2>20, <2>21
    DEF Next, UserCall, Submit, Reported, Decode, Return
<1> QED  BY <1>0, Invariance, PTL DEF Spec, FatalSticks

\* While RUNNING all transfers work, and once the loop was left none goes on without
\* being asked to cancel, unless it was left for an error.
THEOREM AllOrNoneCorrect == Spec => []AllOrNone
BY FullPipelineCorrect, AllCancelledCorrect, PTL DEF AllOrNone

\* A run is left once and for all, and FATAL_ERROR is the last reason for it.
THEOREM LeftForGoodCorrect == Spec => LeftForGood
BY LeavingIsFinalCorrect, FatalSticksCorrect DEF LeftForGood
=============================================================================
