------------------------------ MODULE Session ------------------------------
(***************************************************************************)
(* A device session as src/ov.c conducts it: the device is opened, a       *)
(* capture is started, run and stopped, other firmware is loaded.  Host    *)
(* and device exchange whole messages here, requests one way, answers and  *)
(* stream data the other, and the device takes a request when it likes.    *)
(*                                                                         *)
(* A call is a plan of register accesses.  An access is a transaction that *)
(* reads one message for its answer, a "cast" whose answer is left in the  *)
(* stream for the loop, or a "sync" that searches the stream for its       *)
(* answer and flushes it.  The loop itself is in CaptureLoop; here it      *)
(* takes messages from the channel until one ends it, or an error does.    *)
(* What is then in its buffers is lost, and the decoder is out of step.    *)
(***************************************************************************)
EXTENDS Integers, Sequences

CONSTANTS
  Firmwares,  \* the firmware packages
  Own,        \* the one that ov_new() was given
  Addr,       \* for each package, the address of each register in its map
  MaxCalls,   \* bound: calls of the user
  MaxFaults,  \* bound: accesses that fail, errors of the loop, losses
  MaxChan     \* bound: messages under way to the host when the device sends data

Names == {"RING", "SINK_GO", "CSTREAM_CFG", "HOST_READ_GO"}

ASSUME OwnAssumption == Own \in Firmwares
ASSUME AddrAssumption == \A f \in Firmwares :
  /\ DOMAIN Addr[f] = Names
  /\ \A n, o \in Names : n # o => Addr[f][n] # Addr[f][o]

VARIABLES
  pc,      \* "idle", "send", "wait" or "loop"
  op,      \* the user's call
  todo,    \* the rest of its plan
  state,   \* loop->state
  ret,     \* what the last call returned, or what it will at least
  map,     \* the package whose register map the host uses
  \* the channel and the device
  reqs, chan,  \* requests and messages under way
  fw,      \* the package the FPGA runs, or "none"
  regs,    \* its registers: the names of those that are not 0
  \* history
  phase,   \* "new", "open" or "started"
  torn,    \* 1 if the loop has lost part of the stream since it was initialised
  halted,  \* 1 if the last call of ov_capture_stop() could send its request to halt
  failed,  \* what has gone wrong since the FPGA was configured: a "load", a "stop", or
           \* a "misread" of something else for the answer that a stop waits for
  calls, faults

device == <<reqs, chan, fw, regs>>
history == <<phase, torn, halted, failed, calls, faults>>
vars == <<pc, op, todo, state, ret, map, device, history>>

\* enum cha_loop_state
RUNNING == 0
FATAL_ERROR == 1
BREAK_LOOP == 2
COUNT_LIMIT == 3
END_OF_STREAM == 4
HOST_READ_OFF == 5

\* The register at address a of the firmware that runs
At(a) == {n \in Names : fw # "none" /\ Addr[fw][n] = a}

Data == [kind |-> "data", addr |-> 0, value |-> 0]
Last == [kind |-> "last", addr |-> 0, value |-> 0]
AnswerTo(r) == [kind |-> "answer", addr |-> r.addr, value |-> r.value]

-----------------------------------------------------------------------------
(***************************************************************************)
(* The plans of cha_start_stream(), cha_halt_stream(), cha_stop_stream(),  *)
(* and of a load behind the configuration of the FPGA.                     *)
(***************************************************************************)
Write(n, v) == [kind |-> "write", name |-> n, value |-> v]
Cast(n, v)  == [kind |-> "cast", name |-> n, value |-> v]

\* Mutant of StartStream: the source is switched on before the sink.
StartStreamReversed ==
  <<Write("RING", 1), Write("CSTREAM_CFG", 1), Write("SINK_GO", 1), Cast("HOST_READ_GO", 1)>>

\* The registers of the ring buffers are one here.
StartStream ==
  <<Write("RING", 1), Write("SINK_GO", 1), Write("CSTREAM_CFG", 1), Cast("HOST_READ_GO", 1)>>

\* Mutant of HaltStream: the sink is halted, the source not.
HaltSink == <<Cast("SINK_GO", 0)>>

HaltStream == <<Cast("HOST_READ_GO", 0)>>

\* Mutant of StopStream: the sink is left on.
StopStreamShort == <<Write("HOST_READ_GO", 0), Write("CSTREAM_CFG", 0)>>

StopStream ==
  <<Write("HOST_READ_GO", 0), Write("CSTREAM_CFG", 0), Write("SINK_GO", 0)>>

\* cha_switch_fifo_mode() synchronises the stream with a write to the register that
\* the map in use has; cha_set_reg() is no access, it replaces that map.
Sync      == [kind |-> "sync", name |-> "HOST_READ_GO", value |-> 0]
SetReg(f) == [kind |-> "set_reg", name |-> f, value |-> 0]

\* ov_load_firmware(), and ov_open(), which switches the mode once more behind the
\* load and stops the stream
LoadPlan(f) == <<Sync, SetReg(f)>>
SyncAndStop == <<Sync>> \o StopStream
OpenPlan    == <<Sync>> \o SyncAndStop

-----------------------------------------------------------------------------
Init ==
  /\ pc = "idle" /\ op = "new" /\ todo = << >> /\ state = RUNNING /\ ret = 0 /\ map = Own
  /\ reqs = << >> /\ chan = << >> /\ fw \in Firmwares \cup {"none"}
  /\ regs \in IF fw = "none" THEN {{}} ELSE {{}, Names}
  /\ phase = "new" /\ torn = 0 /\ halted = 0 /\ failed = {} /\ calls = 0 /\ faults = 0

Fault == faults < MaxFaults /\ faults' = faults + 1

\* A call of the user's
Calls(o) ==
  /\ pc = "idle" /\ calls < MaxCalls /\ calls' = calls + 1 /\ op' = o

\* The request of an access
Request(t) == [addr |-> Addr[map][t.name], value |-> t.value]

\* The FPGA is configured with f: it has lost its requests, and the switch of channel
\* A to another mode has flushed the channel.
Configured(f) ==
  /\ fw' = f /\ regs' = {} /\ reqs' = << >> /\ chan' = << >> /\ failed' = {}

\* On its way out a load that fails switches channel A to FIFO mode once more: that
\* may send no request, succeed, or fail with its request under way.
WayOut ==
  \/ UNCHANGED device
  \/ /\ fw # "none" /\ fw' = fw /\ regs' = regs \ At(Request(Sync).addr)
     /\ reqs' = << >> /\ chan' = << >>
  \/ /\ reqs' = Append(reqs, Request(Sync)) /\ chan' \in {chan, << >>}
     /\ UNCHANGED <<fw, regs>>

\* It fails before it resets the FPGA, or after, with the FPGA configured or not.
LoadFails(f) ==
  /\ \/ WayOut
     \/ /\ fw' \in {"none", f} /\ regs' = {} /\ chan' = << >>
        /\ reqs' \in {<< >>, <<Request(Sync)>>}
  /\ failed' = failed \cup {"load"}
  /\ pc' = "idle" /\ todo' = << >> /\ ret' = -1

\* ov_load_firmware_from_fwpkg() up to its last step, which is the first of the plan
Load(f, plan) ==
  /\ \/ /\ Configured(f) /\ pc' = "send" /\ todo' = plan /\ ret' = 0 /\ UNCHANGED faults
     \/ Fault /\ LoadFails(f)
  /\ UNCHANGED <<state, map, phase, torn, halted>>

\* ov_open() loads the package of ov_new(), synchronises and stops the stream.
Open == phase = "new" /\ Calls("open") /\ Load(Own, OpenPlan)

\* ov_load_firmware()
LoadFirmware(f) == phase = "open" /\ Calls("load") /\ Load(f, LoadPlan(f))

\* ov_capture_start(): the decoder and the loop are initialised.
CaptureStart ==
  /\ phase = "open" /\ Calls("start")
  /\ state' = RUNNING /\ torn' = 0
  /\ pc' = "send" /\ todo' = StartStream /\ ret' = 0
  /\ UNCHANGED <<map, device, phase, halted, failed, faults>>

\* ov_capture_dispatch(): after an error it returns at once.
Dispatch ==
  /\ phase = "started" /\ Calls("dispatch")
  /\ IF state = FATAL_ERROR THEN pc' = "idle" /\ ret' = -FATAL_ERROR
     ELSE pc' = "loop" /\ UNCHANGED ret
  /\ UNCHANGED <<todo, state, map, device, phase, torn, halted, failed, faults>>

\* ov_capture_stop(): the request to halt
CaptureStop ==
  /\ phase = "started" /\ Calls("stop")
  /\ state' = RUNNING /\ pc' = "send" /\ todo' = HaltStream /\ ret' = 0 /\ halted' = 0
  /\ UNCHANGED <<map, device, phase, torn, failed, faults>>

-----------------------------------------------------------------------------
(***************************************************************************)
(* Register accesses.                                                      *)
(***************************************************************************)
\* The call has done what it had to: r is its result.
Returns(r) ==
  /\ pc' = "idle" /\ ret' = r /\ todo' = << >>
  /\ phase' = CASE op = "open" /\ r = 0 -> "open"
                [] op = "start" /\ r = 0 -> "started"
                [] op = "stop" -> "open"
                [] OTHER -> phase
  /\ failed' = IF op \in {"load", "stop"} /\ r # 0 THEN failed \cup {op} ELSE failed

\* An access is done: on to the next, or from the halt to the loop.
Done ==
  IF Len(todo) > 1
    THEN pc' = "send" /\ todo' = Tail(todo) /\ UNCHANGED <<ret, phase, failed>>
  ELSE IF todo = HaltStream
    THEN pc' = "loop" /\ todo' = << >> /\ UNCHANGED <<ret, phase, failed>>
  ELSE Returns(ret)

\* An access fails, and with it the call; only ov_capture_stop() goes on when it
\* could not halt the stream.
Fails ==
  IF todo = HaltStream
    THEN pc' = "loop" /\ todo' = << >> /\ UNCHANGED <<ret, phase, failed>>
    ELSE Returns(-1)

Doing(kinds) == Head(todo).kind \in kinds

Send ==
  /\ pc = "send" /\ ~Doing({"set_reg"})
  /\ reqs' = Append(reqs, Request(Head(todo)))
  /\ halted' = IF todo = HaltStream THEN 1 ELSE halted
  /\ IF Doing({"cast"}) THEN Done ELSE pc' = "wait" /\ UNCHANGED <<todo, ret, phase, failed>>
  /\ UNCHANGED <<op, state, map, chan, fw, regs, torn, calls, faults>>

SendFails ==
  /\ pc = "send" /\ Doing({"write", "cast"}) /\ Fault /\ Fails
  /\ UNCHANGED <<op, state, map, device, torn, halted, calls>>

\* Any message that comes is taken for the answer; stream data has a wrong checksum.
Receive ==
  /\ pc = "wait" /\ Doing({"write"}) /\ chan # << >> /\ chan' = Tail(chan)
  /\ IF Head(chan).kind = "answer" THEN Done ELSE Fails
  /\ UNCHANGED <<op, state, map, reqs, fw, regs, torn, halted, calls, faults>>

ReceiveFails ==
  /\ pc = "wait" /\ Doing({"write"}) /\ Fault /\ Fails
  /\ UNCHANGED <<op, state, map, device, torn, halted, calls>>

\* cha_sync_stream() skips what is not its answer, and flushes what is behind it.
Synced ==
  /\ pc = "wait" /\ Doing({"sync"}) /\ chan # << >>
  /\ IF Head(chan) = AnswerTo(Request(Head(todo)))
       THEN chan' = << >> /\ Done
       ELSE chan' = Tail(chan) /\ UNCHANGED <<pc, todo, ret, phase, failed>>
  /\ UNCHANGED <<op, state, map, reqs, fw, regs, torn, halted, calls, faults>>

\* The switch to FIFO mode fails, in its search or before.  The second one of
\* ov_open() is no longer part of the load.
SyncFails ==
  /\ pc \in {"send", "wait"} /\ Doing({"sync"}) /\ Fault /\ Returns(-1)
  /\ IF todo = SyncAndStop THEN UNCHANGED device ELSE WayOut
  /\ UNCHANGED <<op, state, map, torn, halted, calls>>

\* The last thing that ov_load_firmware() does is to replace the register map.
ReplaceMap ==
  /\ pc = "send" /\ Doing({"set_reg"}) /\ map' = Head(todo).name /\ Done
  /\ UNCHANGED <<op, state, device, torn, halted, calls, faults>>

-----------------------------------------------------------------------------
(***************************************************************************)
(* The loop.                                                               *)
(***************************************************************************)
\* cha_loop_bus_frame_callback()
IsHostReadOff(m) ==
  m.kind = "answer" /\ m.addr = Addr[map]["HOST_READ_GO"] /\ m.value = 0

\* The loop decodes a message.  A packet may reach the limit or have the user break
\* the loop.
Decode ==
  /\ pc = "loop" /\ state = RUNNING /\ chan # << >> /\ chan' = Tail(chan)
  /\ \/ /\ IsHostReadOff(Head(chan)) /\ state' = HOST_READ_OFF
     \/ /\ Head(chan).kind = "last" /\ state' = END_OF_STREAM
     \/ /\ Head(chan).kind = "data" /\ op = "dispatch"
        /\ state' \in {RUNNING, BREAK_LOOP, COUNT_LIMIT}
     \/ /\ Head(chan).kind = "data" /\ op = "stop" /\ UNCHANGED state
     \/ /\ Head(chan).kind = "answer" /\ ~IsHostReadOff(Head(chan)) /\ UNCHANGED state
  /\ UNCHANGED <<pc, op, todo, ret, map, reqs, fw, regs, history>>

\* A decoder out of step takes what comes for data, for packets with whatever flags,
\* or for the answer that the stream is off: no checksum is compared.
Misread ==
  /\ pc = "loop" /\ state = RUNNING /\ torn = 1 /\ chan # << >> /\ chan' = Tail(chan)
  /\ \/ state' \in {RUNNING, END_OF_STREAM} /\ UNCHANGED failed
     \/ op = "dispatch" /\ state' \in {BREAK_LOOP, COUNT_LIMIT, HOST_READ_OFF}
        /\ UNCHANGED failed
     \/ op = "stop" /\ state' = HOST_READ_OFF /\ failed' = failed \cup {"misread"}
  /\ UNCHANGED <<pc, op, todo, ret, map, reqs, fw, regs, phase, torn, halted, calls, faults>>

\* A transfer fails, or the decoder finds an error.
LoopFails ==
  /\ pc = "loop" /\ state = RUNNING /\ Fault /\ state' = FATAL_ERROR
  /\ UNCHANGED <<pc, op, todo, ret, map, device, phase, torn, halted, failed, calls>>

\* The loop returns.  What its buffers still had is lost, and ov_capture_stop()
\* goes on to stop the stream.
LoopReturns ==
  /\ pc = "loop" /\ state # RUNNING
  /\ \/ UNCHANGED <<chan, torn, faults>>
     \/ /\ Fault /\ torn' = 1
        /\ \E k \in 1 .. Len(chan) : chan' = SubSeq(chan, k + 1, Len(chan))
  /\ IF op = "stop"
       THEN /\ ret' = IF state = HOST_READ_OFF THEN 0 ELSE -1
            /\ pc' = "send" /\ todo' = StopStream
       ELSE /\ ret' = IF state = COUNT_LIMIT THEN 0 ELSE -state
            /\ pc' = "idle" /\ UNCHANGED todo
  /\ UNCHANGED <<op, state, map, reqs, fw, regs, phase, halted, failed, calls>>

-----------------------------------------------------------------------------
(***************************************************************************)
(* The device.                                                             *)
(***************************************************************************)
Respond ==
  /\ reqs # << >> /\ fw # "none" /\ reqs' = Tail(reqs)
  /\ LET q == Head(reqs)
     IN  /\ regs' = IF q.value = 1 THEN regs \cup At(q.addr) ELSE regs \ At(q.addr)
         /\ chan' = Append(chan, AnswerTo(q))
  /\ UNCHANGED <<pc, op, todo, state, ret, map, fw, history>>

Streaming == {"HOST_READ_GO", "CSTREAM_CFG"} \subseteq regs

\* A packet, perhaps with the flag of the last one
Stream ==
  /\ Streaming /\ Len(chan) < MaxChan
  /\ \E m \in {Data, Last} : chan' = Append(chan, m)
  /\ UNCHANGED <<pc, op, todo, state, ret, map, reqs, fw, regs, history>>

UserCall == Open \/ CaptureStart \/ Dispatch \/ CaptureStop
            \/ \E f \in Firmwares : LoadFirmware(f)

HostStep ==
  Send \/ Receive \/ Synced \/ ReplaceMap \/ Decode \/ Misread \/ LoopReturns

Next == \/ UserCall \/ HostStep \/ SendFails \/ ReceiveFails \/ SyncFails \/ LoopFails
        \/ Respond \/ Stream

Spec == Init /\ [][Next]_vars

\* The host goes on and the device answers.  That it streams is not assumed, nor
\* that anything fails.
FairSpec == Spec /\ WF_vars(HostStep) /\ WF_vars(Respond)

-----------------------------------------------------------------------------
TypeOK ==
  /\ pc \in {"idle", "send", "wait", "loop"}
  /\ op \in {"new", "open", "load", "start", "dispatch", "stop"}
  /\ pc \in {"send", "wait"} <=> todo # << >>
  /\ state \in 0 .. 5 /\ ret \in -5 .. 0 /\ map \in Firmwares
  /\ fw \in Firmwares \cup {"none"} /\ regs \subseteq Names
  /\ phase \in {"new", "open", "started"} /\ {torn, halted} \subseteq 0 .. 1
  /\ failed \subseteq {"load", "stop", "misread"}

\* A device that was opened, loaded or stopped with success is silent: nothing
\* streams and nothing is under way, so that the next transaction reads its own
\* answer (src/src/ov.c:68-75, 262-288), although a load synchronises with the register
\* map of the firmware before.  Starts and dispatches may have failed before; but the
\* answer to the request of a stop that failed may be taken for that of the next, and a
\* decoder that is out of step after a loss may take something else for it.
SilentWhenStopped ==
  pc = "idle" /\ ret = 0 /\ failed = {} /\ op \in {"open", "load", "stop"} =>
    regs \cap {"HOST_READ_GO", "CSTREAM_CFG", "SINK_GO"} = {} /\ reqs = << >> /\ chan = << >>

\* With that map the source of the stream is on only while there is a sink for it,
\* and the sink only with its ring buffer set up, whatever fails on the way and
\* whichever call comes next (src/src/cha.c:404-489).
SinkBeforeSource ==
  phase # "new" /\ fw = map =>
    /\ "CSTREAM_CFG" \in regs => "SINK_GO" \in regs
    /\ "SINK_GO" \in regs => "RING" \in regs

\* ov_capture_stop() ends its run of the loop (src/src/ov.c:273), unless the request to
\* halt could not be sent, a part of the stream was lost since the capture started (the
\* answer with it, or the decoder is out of step and does not see it), or the register
\* map is not that of the firmware.
StopEnds ==
  pc = "loop" /\ op = "stop" ~>
    pc # "loop" \/ halted = 0 \/ torn = 1 \/ fw # map
=============================================================================
