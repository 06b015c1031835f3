# libopenvizsla in TLA+

A specification of [libopenvizsla](../src), the host library of the OpenVizsla
USB analyser, and of `ovextcap`, the tool that feeds its captures to Wireshark.
TLC checks the modules on small instances, TLAPS proves theorems about them for
all values of their constants.

## The system

The device has an FPGA behind an FTDI chip with two channels. The host uploads
a bitstream, writes registers over channel A, and then reads one stream of
bytes in which bus frames (answers to register accesses) and SDRAM frames
(pieces of the stream of captured USB packets) follow one another.

```
 ov_open ──> fwpkg, bit, chb      configure the FPGA
    │
    └──────> cha_transaction      registers, ULPI
 ov_capture_start/dispatch/stop
    │                    libusb: 3 transfers
    ▼                          │ completion callbacks
 cha_loop_run  <───────────────┘
    │ frame_decoder_proc(buffer)
    ▼
 frame decoder ──bus frame──> HOST_READ_OFF
    │ SDRAM data
    ▼
 packet decoder ──packet──> user callback
                               │ ovextcap: packet_handler
                               ▼
                     pcap clock, NAK filter ──> pipe to Wireshark
```

| component | state | operations | what makes it correct | hard because of |
|---|---|---|---|---|
| capture loop (`cha.c:507-724`, `ov.c:216-288`) | state, active_transfers, complete, count, max_count, callback; 3 transfers of libusb | run, completion callback, packet and bus frame callbacks, break, set_callback | each transfer is counted until its last callback; buffers are not read and written at once; nothing reaches the user after the loop has left RUNNING; the run ends | completions in any order, cancellation racing completion, failures, a callback that breaks the loop, leftovers |
| stream decoder (`decoder.c`) | two state machines, offsets, a cumulative timestamp | a call per FTDI packet, which delivers packets and bus frames | the packets are those of the device, in order and whole, wherever the stream is cut | boundaries, packets without data, lost buffers |
| ovextcap's filter (`main.c:161-277`) | st, queue, the pipe | a call per packet, the end | exactly the NAKed transactions and the uninteresting SOFs are missing, in order; two packets held back at most | transactions interrupted at any point, a pipe that breaks at any write |
| ovextcap's clock (`main.c:279-290`, `353-361`) | utc_ts, ts_offset, last_ov_ts | a call per packet | no drift, never back, nanoseconds below a second | rounding, 32-bit fields |
| register bus (`cha.c:92-214`, `244-402`) | the bytes in the channel, the bridge to the PHY | read and write of 8 and 32 bits, ULPI access by polling, speed | an answer belongs to its request; what was written is read back; the bridge is not disturbed while busy | short and failed reads, addresses that are not compared |
| synchronisation (`cha.c:42-90`, `216-242`) | the matcher | one search for the answer in a running stream | the answer is found and nothing of it is left | a stream that is still sending, bytes that look like an answer |
| session (`ov.c:94-180`, `216-330`, `cha.c:404-489`) | mode, register map, whether the device streams | open, start, dispatch, stop, load firmware | while the map is that of the firmware the source has its sink; stop ends and leaves the device silent | failures half-way, requests still under way, late answers |
| what the library holds (`ov.c`, `cha.c`, `chb.c`, `reg.c`, `fwpkg.c`) | memory, archives, contexts, handles, transfers | new, open, load, start, stop, free | all is given back, once | a failure at any step, labels that share a cleanup |
| FPGA configuration (`ov.c:25-92`, `bit.c`, `chb.c`) | two buffers in turn, the DONE pin, the mode of channel A | parse, reset, upload, back to FIFO mode | exactly well-formed files are taken; each block once and in order; success only with DONE; FIFO mode whatever fails | transfers in flight, the last block, late answers, failures at any step, lengths read from a file |
| register map (`reg.c`, `ov.c:290-330`) | addresses by name | read map.txt, validate, bring into use | all names are known; never a mixture of two maps | a bad line in the middle, a size that is not known |
| firmware package (`fwpkg.c`) | an archive and the places of two files | open, read | closed once | failures |
| ovextcap's protocol (`main.c:313-609`) | speed and link type; device, pipe, file | announce, capture | link type, speed and announcement agree; stopped and freed on every path | several processes, failures at any step |

`PROJECT.json` lists the hazards one by one, each at its line.

## Modules

| module | models | composes |
|---|---|---|
| `CaptureLoop` | the capture loop and libusb's side of its transfers | |
| `MCCaptureLoop` | instances for TLC | `CaptureLoop` |
| `CaptureLoopProofs` | theorems | `CaptureLoop` |
| `Decoder` | `frame_decoder_proc()` and `packet_decoder_proc()`, byte by byte | |
| `OrderedDelivery` | abstract: what is put in comes out in order | |
| `DecoderStream` | the device's encoder, the wire, the host's buffers | `Decoder`; implements `OrderedDelivery` twice |
| `MCDecoder` | instances for TLC | `DecoderStream` |
| `DecoderProofs` | theorems | `Decoder`, `DecoderStream` |
| `NakFilter` | `filter_packet()`, the queue, the pipe | |
| `PcapTime` | the clock of `packet_handler()` | |
| `MCPcapTime` | instances for TLC | `PcapTime` |
| `FirmwareUpload` | loading firmware: channel A, channel B, the upload, the error path | |
| `BitParser` | the parser of .bit files and the reversal of bits | |
| `ChaMessage` | the five bytes of a message on channel A | |
| `SyncStream` | `cha_sync_stream()` and the device that answers in a stream | `ChaMessage` |
| `SyncStreamProofs` | theorems | `SyncStream` |
| `RegBus` | `cha_transaction()`, 32-bit registers, ULPI | `ChaMessage` |
| `MCRegBus` | instances for TLC | `RegBus` |
| `RegBusProofs` | theorems | `RegBus` |
| `Session` | open, start, dispatch, stop and load against a device | |
| `MCSession` | two packages for TLC | `Session` |
| `SessionProofs` | theorems | `Session` |
| `Lifetime` | what is got and given back, label by label | |
| `OvProofs` | theorems | `FirmwareUpload`, `Lifetime` |
| `RegMap` | reading, checking and replacing the register map | |
| `Package` | a map and a bitstream in one load | `RegMap`, `BitParser` |
| `MCPackage` | texts and bitstreams for TLC | `Package` |
| `PackageProofs` | theorems | `Package`, `RegMap`, `BitParser` |
| `Extcap` | `main()` and `start_capture()` of ovextcap | |
| `MCExtcap` | versions of Wireshark | `Extcap` |
| `OvextcapProofs` | theorems | `NakFilter`, `PcapTime`, `Extcap` |

The levels are separate on purpose. `RegBus` has the bytes of a transaction and
`Session` takes a transaction for a step; `CaptureLoop` has the transfers of a
run, and `Session` a run for taking messages until one ends it; `FirmwareUpload`
has the steps of a load and `Session` its outcomes; `Lifetime` has every call
and only what it holds.

### CaptureLoop

`state`, `active_transfers`, `complete`, `count`, `max_count` and `callback` are
the fields of `struct cha_loop`. `tx` is what libusb knows of each transfer:
idle, pending, pending with a cancellation requested, or in its callback. `pc`,
`cur`, `left` and `op` say where the single thread of the host is: in the
submission loop, waiting for events, or in the callback of transfer `cur` with
`left` FTDI packets of its buffer still to decode. Actions are
* the calls of the API: `CaptureStart`, `SetCallback`, `Break`, `Dispatch`,
  `CaptureStop`;
* the submission loop: `SubmitNext`, `SubmitFails`, `SubmitDone`;
* what libusb delivers: `Completed`, `Cancelled`, `Failed` for any transfer that
  may get it, and `HandleEventsFails`;
* the decoding of a buffer: `NextFtdiPacket`, `PacketDecoded` (whose user callback
  may break the loop), `HostReadOff`, `FrameError`, `FtdiPacketEnd`, `Resubmit`,
  `RetireDecoded`;
* the returns: `DispatchReturns`, `StopReturns`.

libusb calls back one transfer at a time, from within
`libusb_handle_events_timeout_completed()`, so the steps of one callback are not
interleaved with those of another; what is free is which transfer is next, how
it ended, and whether a cancellation came too late. `complete` is 0 or 1. A
limit of n delivers n + 1 packets, because `count++ >= max_count` compares the
count before this packet: `LimitRespected` says what the code does.

### Decoder and DecoderStream

A turn of the loop of either decoder is a step; `proc` says which loop runs.
`pos` is the number of bytes consumed of the buffer `buf` of this call,
`data_start` and `data_end` are where the buffer of `packet_decoder_proc()` starts
and ends. What that consumes is subtracted from `required_length` when it returns,
and not at all when it fails (`decoder.c:134-140`); `frame_left` is what the SDRAM
frame really still has, and `frame_failed` says that a call has failed within it.
A call behind a failed one is a `Feed` like any other, as `ov_capture_stop()` runs
the loop, and with it the decoder, once more after an error (`ov.c:271-273`): the
decoder then takes more for the data of that frame than the frame has, which
`ReadsWithinFrame` excepts by `frame_failed`.

The clock `cumulative_ts` starts again at 0 behind `ClockMod`, 2^64 in the code;
`wrapped` remembers that it did. `buf_length`, the caller's room for a packet, is
never compared with a length in the code, as its FIXME says (`decoder.c:63`):
`WritesWithinPacket` promises to stay within the captured size, and within
`buf_length` only if there is room for that. Constants are the sizes that make the
state space, not the logic: `MAX_PACKET_SIZE` is 1027 in the code, 3 in the runs;
`ClockMod` is 16 in the runs, so that the clock does wrap; `Shifted(b, k)` is
`b << 8 * k`, and `b * 8^k` in the runs, as TLC's integers have 32 bits. The proofs
hold for any.

`DecoderStream` has a device that encodes packets, cuts their stream into SDRAM
frames with filler, and puts bus frames between them, and a host that cuts the
wire into buffers of any of a few sizes. The device sends all before the host
reads the first byte, which loses no behaviour of the decoder. Whether the host
loses a buffer, as the completion callback does once the loop is not RUNNING, is
chosen at the start (`lossy`), so that the refinement of `OrderedDelivery` can be
stated of the streams that arrive intact; of the others the decoder reads from
the middle of a frame, and its calls may fail. The host goes on behind such a call
as long as no more than `MaxFailures` have failed.

### NakFilter

The branches of `filter_packet()` are actions, in their order, each guarded by
the failure of the ones before it. PIDs the code does not name are `OTHER`,
except SETUP, which the finding is about. A write may fail at any record, after
which `out` is NULL (`"broken"`); the first write is that of the pcap header,
before the capture starts (`main.c:369`), so that the first packet may come to a
pipe that is broken already. The properties compare what is written with
`Kept`, a definition of what is to be written that mentions packets only and
none of the filter's states.

### PcapTime

With the frequency of the code. Only the sums and quotients are modelled; that
timestamps do not decrease is `TimestampsOrdered` of `Decoder`.

### FirmwareUpload

`pc` is the place in `ov_load_firmware_from_fwpkg()` and the functions it calls;
the other variables are theirs. The bitstream is a sequence of blocks of 4 KiB,
numbered from 1, so that a buffer has a number and the order of arrival can be
seen. `tc` is the transfer submitted last, and `Transmit`, libusb's side, reads
the buffer when it makes the transfer, not when that is submitted. Each call has
an action for its failure (or a disjunct, where it fails in the same step);
`cha_switch_mode()` may fail behind any of its four calls to libftdi and leaves
the mode it has come to. `chb_get_high()` may read no byte, which is no error to
`chb_get()`: the byte stays in `answers` and is taken for the answer to the next
question. A read that fails behind the command (`chb.c:186-194`) leaves its answer
just so. `late` counts both. `Sync` is the search for the device's answer, which only a configured
FPGA gives.

### BitParser

A field of the file is a step of `bit_init()`; `pos` is how far `bit->data` has
gone, `size` is `bit->size`, reduced as the code reduces it. A length that the
file does not have is refused after the length itself was passed over. The data
is taken to the end of the file, not for the declared length, as
`bit_load_firmware()` sends `bit->size` bytes. The table of `bitreverse8()` is
built by the four macros of the code. `PackageProofs` shows that its entry for a
byte is the byte with the order of its bits reversed.

### SyncStream

The device sends stray bytes (drawn from values that occur in the answer, so
that they may look like the start of one) and, some time after it was asked, the
answer. The host flushes, asks, and reads pieces of up to `Chunk` bytes, a step
per byte in the matcher. A failed call leaves its answer for the next. `NotMissed`
says when an answer may be missed: right behind bytes that are the start of an
answer themselves, which the matcher resets on without looking again.

The opposite happens too: bytes of the stream may spell the answer, by themselves
or together with the start of the real one. The search then succeeds early, and
the answer, or its rest, is left to the next transaction. `AnswersConsumed` is
about streams in which only answers look like one (`OnlyAnswers`), and counts
from what the matcher has looked at (`Unread`), so that the rest of a buffer it
leaves counts as read, as in the code.

### RegBus

A call is a plan of transactions, a read that returns n of 5 bytes puts them
over the first n bytes of the request in `msg`, and the checksum is taken of the
mixture: that is how a short read is refused, or not. The device takes the
requests in order, writes its registers and answers; the bridge to the PHY works
by itself and clears GO when done. `faults = 0` in the properties says
"as long as each read has returned its answer": with a short read the rest is
taken for the next answer, because neither its address nor the request's is
looked at again. `cut = 0` says that no call to set or get the speed has given up
half-way: one whose poll could not be sent leaves the bridge busy, and the next
call writes its registers all the same (`cha.c:322-328`, `339-343`). What an answer
that belongs to another request does to the values read is therefore in no
property; `WordWritten` looks at the requests only.

### Session

A call of the user's is a plan of register accesses: a transaction, a cast, whose
answer is left in the stream, or a sync, which searches the stream for its answer
and flushes what is behind it. Of `ov_load_firmware_from_fwpkg()` the configuration
of the FPGA is one step (`Configured`; `FirmwareUpload` has the others), and what
follows are steps of the plan: the sync with the register map that is in use then,
which is that of the firmware before (`ov.c:71`), and, at the end of
`ov_load_firmware()`, the replacement of the map (`ReplaceMap`, `ov.c:313`).
`LoadFails` and `WayOut` are the ways a load fails, with the request of the second
sync on the error path (`ov.c:82`) possibly under way. The registers of the ring buffers are one,
`RING`. Requests and messages are queues; the device takes a request when it
likes, so requests of a call that failed may be carried out in the next. `torn`
says that the loop has lost a part of the stream, after which the decoder is out of
step (`Misread`): it may take an answer for data, data for the last packet, and,
as no checksum is compared (`decoder.c:158-164`, `cha.c:536`), captured bytes for
the answer that the stream is off. If that ends the loop of a stop, the real answer
is still to come (`"misread"` in `failed`). `At(a)` is the register at an address of the firmware
that runs: with the map of another package a request reaches another register or
none.

What is held over from a failed stop was a surprise: the answer to its request
to halt may come late, be taken for the end of the next capture's stop, and that
returns success with a device that still streams. `SilentWhenStopped` therefore
is about sessions in which no stop and no load has failed since the FPGA was
configured, and no stop has taken something else for its answer; it needs six calls
and three failures to be violated otherwise.

### Lifetime

A function of the code is the sequence of its elementary steps: getting an object,
something else that may fail, a release. Each step has the releases that follow
if it fails. `On(undo, steps)` stands for what lies behind a call whose label
releases `undo`: it adds that to each of its steps, behind what the functions they
belong to release themselves, as control falls through the labels and on in the
caller. A call of the user's is run one step at a time; when one fails, its
releases are run instead (`failed`), and the call returns behind the last of them.
Three losses of the code are named in `AllReleased`, and excluded by what caused
them: the source of an archive that could not be opened (`fwpkg.c:102`), the
transfers of a capture whose start failed (`ov.c:224`), the handles of channel A
and B that `ov_open()` opens again after it had failed (`ov.c:176`, which has a
FIXME). The string that libzip may allocate for an error (`fwpkg.c:116-124`, where
`ze` is never finished) is no object of the model.

### RegMap

A line is empty, without a `=`, or a pair; a step reads one. An empty key or a
value of 0xffff and more meets an assertion. If the archive does not know the
size of the text, the buffer has no byte (`(size_t)-1 + 1`) and nothing is read;
that the terminator is then written behind it is not modelled.

### Package

`ov_load_firmware()` as a whole: `RegMap` reads and checks the map of the package,
`BitParser` then parses and sends the bitstream, and only behind that is the map
brought into use (`RegMap`'s `Load`, here guarded by the bitstream's fate). The
steps of the FPGA's configuration are those of `FirmwareUpload`; here it may fail
before or behind the sending. Where `bit_load_firmware()` would pass NULL to
`ftdi_transfer_data_done()`, for a bitstream without data, the model stops.

### Extcap

Each capture is a process that got its arguments from what earlier processes
announced: which interfaces there are depends on Wireshark's version, and so
does whether a speed may be chosen. The device and a file for debugging outlive
the process.

## Runs

| run | shows | bounds |
|---|---|---|
| `capture_loop` | the accounting of transfers, the end of delivery and the result, under all interleavings; a run that was left ends | 3 transfers as in the code, 2 FTDI packets in a buffer, 3 packets delivered, limits -1, 0, 1, 2 |
| `decoder_stream` | an intact stream is delivered whole, in order, with its timestamps; with a lost buffer too, and behind a failed call, the decoder keeps within its bounds, every call returns, and timestamps do not go back until the clock wraps | 2 packets of 3 kinds, a bus frame, frames of 1 and 3 words, buffers of 1 and 12 bytes, one buffer lost, 2 failed calls, a clock that wraps at 16 |
| `nak_filter` | what is written is what is to be written | all sequences of 5 packets of 10 PIDs, all filters, the pipe may break at any write, that of the header included |
| `sof_tooltip` | a divergence, see below | 2 packets |
| `firmware_upload` | blocks once and in order, no transfer left, success with DONE only, FIFO mode restored, loads end | 3 blocks, so that both buffers are used again, 3 loads, 2 answers left unread by a late or a failed read |
| `sync_stream` | the answer is found, missed only when shadowed, and the call ends | 3 calls, 5 stray bytes of the 3 values that the answer 55 80 80 00 55 is made of, pieces of 4 bytes, failures anywhere |
| `register_bus` | words and speeds are read back, the bridge is not disturbed, calls return | 3 calls, 2 short or failed reads, sends that fail |
| `session` | the device is silent when stopped, a source has its sink, stop ends unless what it waits for was lost | 6 calls, 3 failures, 3 messages under way, 2 packages that share addresses |
| `lifetime` | all is given back once, but for three named losses | 8 calls, each of which may fail at any step |
| `package` | exactly well-formed bitstreams are accepted and sent to the bit; a map in use is whole, and its bitstream was sent | `ov_new()` and a load; all texts of up to 3 lines of 9 kinds for 2 registers, 1068 bitstreams with mistakes in any fields, cut off anywhere, with more or less data than declared, and every byte as data |
| `extcap` | link type, announcement and speed agree; stopped and freed on every path | 3 captures by any of 5 versions |
| `pcap_time` | no drift, never back | starts at both ends of a second and where the quotients round, 6 seconds |

Why these are enough. Two transfers in flight beside the one in its callback are
the interesting case of `CaptureLoop`, and the theorems hold for any number.
Buffers of 1 byte put a boundary behind every byte, and bring one of 12 bytes to
any place, so that it holds a whole header or parts of three frames; two packets are
the least with a packet after another (the carried offset, relative timestamps). Two
failed calls are the run that ends with an error and the one of `ov_capture_stop()`
behind it. Three loads let the answers that failed reads of two loads have left reach
a third one.
In `session` six calls are the least in which an answer of one capture can be
taken for that of another; eight calls and four failures were also run, without
another result, and the order of writes is proved for any number. Three calls of
the register bus are one to write, one that fails, one to read. Four stray bytes
are the least that spell an answer together with the start of one, and five spell
it by themselves. The longest transaction the filter knows has 3 packets; 5 allow
one before and one behind it. Runs of the finite histories stop, so deadlock is
not checked there; in `capture_loop` it is.

### Fairness

`capture_loop` assumes of libusb that a transfer that is pending comes to
its callback at last: each has a timeout of 1000 ms (`cha.c:634`), and cancelled
ones are reported. It assumes of the host's thread that it goes on, and nothing
of the user: that packets arrive, that the user breaks the loop, or that a run
leaves RUNNING is not assumed. `RunEnds` says "if a transfer is in flight": when
the first submission of a run fails there is none, no callback comes, and
`cha_loop_run()` waits forever (`cha.c:669-691`). `decoder_stream` assumes that a
call of the decoder runs to its end if its steps do, and that the host reads on.

`firmware_upload` assumes that the host goes on, that libusb makes a transfer or
reports its failure, and that a configured FPGA answers; not that any call
fails. `LoadEnds` leaves out one case, which really is without an end: the error
path calls `cha_switch_fifo_mode()` also if the FPGA could not be configured, and
`cha_sync_stream()` repeats empty reads until it has an answer (`ov.c:82`,
`cha.c:60-77`). That the search may miss the answer of a configured FPGA is not in
`FirmwareUpload`: `Sync` succeeds in one step. It is in `SyncStream`.

`sync_stream` assumes that the host goes on and that the device answers what it
was asked. `SyncReturns` leaves out one case, in which the call really does not
end: every answer came right behind bytes that are the start of an answer, and
the matcher missed it. `register_bus` assumes besides that the bridge carries out
its commands, since `cha_write_ulpi()` and `cha_read_ulpi()` poll GO without a
limit; no read has to fail or to succeed. `session` assumes that the host goes
on and that the device takes its requests; not that it streams. `StopEnds` leaves
out what the code waits for without a limit: the device was not told to halt
(`halted = 0`), a part of the stream was lost since the capture started (`torn = 1`:
the answer may be in it, and a decoder out of step may not see an answer that
comes), or the registers are not those of the map (`fw # map`). The other specifications state safety only.

`SuccessMeansConfigured` promises that all of the bitstream was sent, and a
configured FPGA under a precondition, `late = 0`: with an answer of channel B that
came late, or that a failed read has left, in this load or an earlier one, an old
level of DONE is taken for the new one, and a load may succeed with an FPGA that is
not configured. `FifoModeRestored` has the precondition that
the switches of mode themselves succeeded: `cha_switch_config_mode()` may fail
behind the switch, and nothing is undone then (`ov.c:50-54`).

### The divergence

`sof_tooltip`: the tooltip of `--filter-sof` (`main.c:454`) says "Only SOFs that
do not interrupt any transaction will be filtered". The filter follows IN, OUT
and PING, to find NAKs. A SETUP token leaves it in the default state, in which
SOFs are filtered (`main.c:239`, `272-276`): of SETUP, SOF the SOF is not written.

## Proofs

All theorems are `Spec => []Inv` or `Spec => [][A]_vars`, and one is a refinement
(`OrderedDeliveredCorrect`), without bounds, for all values of the constants under
the named assumptions of the modules. The type
invariants of the components that are proved about, and a few plain invariants
the others rest on (such as `LimitRespected`, `SizeIsRest`, `QueueMatchesState`),
are proved and not checked again in the runs; some properties of the runs are the
conjunction of two or more that are proved one by one (`AllOrNone`, `LeftForGood`,
`WithinBounds`, `BuffersHeld`, `SearchExact`).

* `CaptureLoopProofs` (any number of transfers). The accounting is not inductive
  by itself: `active_transfers` equals the number of transfers that owe a
  callback only if one also knows which transfers have been submitted while the
  submission loop runs, and which one is in its callback. `IInv` adds that,
  `CountInv` adds the relation of `count` to the packets delivered.
* `DecoderProofs` (any bytes, any buffers). `ControlInv` joins the types with the
  relation of the two state machines (the packet decoder runs only in
  NEED_SDRAM_FRAME_DATA), the offset into the packet (0 outside its data, at most
  the captured size within) and the timestamp counters, and is inductive.
  `CallInv` relates the frame to the buffer of this call. `HistoryInv`, about the
  packets passed on, needs them: until the clock wraps no packet is later than
  `cumulative_ts`, which only grows.

  Of `DecoderStream` (any packets the fields of the wire can hold, any SDRAM
  frames, any buffers, any number of losses) the theorems are that a stream that
  loses nothing implements `OrderedDelivery`, for packets and for bus frames
  (`OrderedDeliveredCorrect`), that nothing of it is held back at its end
  (`NothingHeldBackCorrect`), and that the decoder keeps to its bounds on the
  others too, also behind calls that failed (`StreamBoundsCorrect`). What the stream is to be decoded to is
  defined by appending encodings, and a proof from that definition needs
  induction over the packets. `StreamIInv` does without: it says that there is a
  stream of packets (`stream`), cut into frames by the wire, with marks in it where
  packets end (`pm`), each with the number of packets before, and marks on the
  wire where frames end (`wm`), each with the number of bus frames and of bytes of
  `stream` before. What lies between two marks is one frame, one encoded packet or
  a filler. The device's steps only add to the three (`Extends`); each is
  existentially quantified, as the code keeps none of them. The host's half
  (`AtFrame`, `AtPacket`) says that the place of the frame decoder on the wire and
  that of the packet decoder in `stream` agree, and that either is at a mark when it
  waits for a magic, or as far behind one as its state and its offsets tell: the header
  fields are those of the packet at hand, the timestamp is that of the bytes read
  so far (`TimestampUpTo`), `data` begins with the bytes copied so far. The packets
  passed on are then as many of those sent as the last mark says. Before it was
  proved the invariant was checked by TLC, with the three as history variables,
  on the instance of `decoder_stream`.
* `OvProofs`.
  * `FirmwareUpload` (any number of blocks, any number of loads). `Uploading`
    relates what has arrived to what has been copied at each place of
    `bit_load_firmware()`, and the transfer in flight has the buffer that is not
    the next to be filled: with both, order and stability are inductive. `ModeInv`
    follows the mode through the error paths; `DoneInv` adds that no answer is
    outstanding unless one was late or its read had failed.
  * `Lifetime` (any number of calls, any step of which fails). Each function has a
    contract, a lemma: from what is held before it (`Holds`: how many of each kind,
    which handles may be open, what was lost by which cause) to what is held behind
    it, and what is held if it fails and its labels have been through (`Runs`,
    `Releases`). Contracts compose as the functions do: that of a concatenation
    from those of its parts (`RunsConcat`), that of `On` from that of what lies
    behind the label and that of the label (`RunsOn`), so that no plan of steps is
    ever unfolded. The invariant, `LifetimeInv`, is that between calls the phase
    says what is held, and during a call what is left of it, or of its cleanup,
    still has the contract that leads from what is held now to the phase behind
    it; a step of the call takes the first step of that contract
    (`RunsFirst`, `ReleasesFirst`).
* `SyncStreamProofs` (any register, any stray bytes, any size of the buffer).
  `MatcherInv`: the last `sync_state` bytes looked at are the start of the answer.
  `FollowInv` looks at it from the answer's side: unless it is shadowed, the
  matcher is in step with the answer from its first byte on. The second needs
  the first: a matcher that is not at 0 when the answer begins says what the bytes
  before it were, and that they shadow it. `AnswersConsumed` needs `LeftInv`: while
  the call reads, at most one answer more than calls have failed is asked for or
  unread; when the matcher succeeds, `MatcherInv` says that the five bytes before
  it are an answer, `OnlyAnswers` that they are one of the device's, and so one
  less is left.
* `RegBusProofs` (any addresses, words and speeds, any number of calls and faults).
  `PlanInv`: the rest of a call is a suffix of its plan. `WordInv` gives
  `WordWritten` for every fault: each byte of the word `Settles`, that is, its
  register has the value and no request on its way will change it, or the last
  request for it will write it. `SyncInv` holds while no read has been short or
  failed: at most one request or one whole answer is on its way (`InStep`), and at
  each transaction of the four plans it says what the registers, the bridge and
  the bytes read so far are; of the bridge (`BridgeInv`) only as long as no call to set
  or get the speed has failed. `ReadsBack` and `BridgeNotDisturbed` follow.
* `SessionProofs` (any packages, any number of calls and failures). `LoadInv`: until
  its map is in use a load has nothing set in the FPGA, and at most the request of
  its sync, or that request's answer, is under way, whatever register the old map
  makes of it. `MapInv` follows the map through the loads: it is that of the firmware
  unless a load has failed or is not at its end. `CallInv` says which call is at which
  plan. `QueueInv` says of each request on its way
  that what it needs, the sink before the source, was requested before it or is
  so already, and not undone between: `Holds`. That is kept when the host appends
  a request of its plan and when the device takes the first one. For
  `SilentWhenStopped` that is not enough: `SilentInv` says where the messages of a
  stop can be. Outside a stop no request and no answer to halt is on its way
  (`NoHalt`); during it they are the last ones (`HaltLast`), so that the loop
  leaves with nothing behind them (`Quiet`); and the accesses behind it find the
  channel empty (`Stopping`).
* `PackageProofs` (any texts, any bitstreams). `FormatInv`: for each field, how far
  the parser has come is how far the file has the format; so what is accepted is
  exactly what `WellFormed` describes. `DataSent` rests on a lemma about the table:
  its macros place the four pairs of bits with each pair swapped, hence the eight
  bits in reverse order, and `Bit` of the entry is `Bit` of the byte at the
  mirrored place. `MapInv`: while the lines are read, the address of each register
  is that of the last line for it so far, or missing (`LastBefore`); when the map
  is complete, all are of this one text, which is what may come into use. The
  theorems are about `PackageSpec`; the parser's are also stated for `BitParser`
  alone (`BitParserCorrect`).
* `OvextcapProofs`.
  * `NakFilter` (captures of any length). The state says how many packets are held
    back and that they are the last ones; a broken pipe implies that the loop is
    being left, once a packet has been handled. `OutputExact` needs the other direction: `StateMatchesArrived`
    reads off the state what the last packets were, and `OutputInv` says that what
    is written, with what is held back, is what is to be written of all that has
    arrived and is decided (`Kept`).
  * `PcapTime` (any start, any timestamps). `NoDrift` is inductive with the types;
    the rest is arithmetic on it.
  * `Extcap` (any versions, any number of captures). `ChoiceInv`: link type, speed
    and what is in the file are functions of interface and option, and those were
    announced. `HeldInv`: what is held at each place of the error paths.

The assumptions: a bitstream has a block at least, the caller has some room for a
packet and the clock some range, `Shifted` yields naturals for
the 8 places of a timestamp, the device sends packets and bus frames that the
fields of the wire can hold (8 bits of flags, 13 of size, 1 to 8 bytes of
timestamp, 16 bits of address) with as much data as the captured size says, in
SDRAM frames of 1 to 256 words, buffers and files are sequences of bytes, a text is
a sequence of lines and has one at least, a register of the session has an address
of 16 bits and different registers of a package have different ones, the
registers of the bus have different addresses without the bit that marks a
write, a word has four bytes and a speed is one of the code's, the versions are
pairs of naturals, the number of transfers and the sizes are naturals.

Only model-checked is liveness, which is beyond the prover: `RunEnds`,
`CallsReturn`, `LoadEnds`, `SyncReturns`, `CallReturns`, `StopEnds`.

## Not modelled

* Text: what ovextcap, `load` and `sample` print, the wording of errors, options.
  The order of their calls and what they hold is in `Lifetime` and `Extcap`.
* Of `map.txt` the blanks and the formats of numbers (a line is empty, bad or a
  pair), of a firmware package the format of the archive, which is libzip's.
* The pins of channel B other than reset and DONE, and the bits of the commands to
  the FTDI chip: `FirmwareUpload` has what they do.
* Error strings, which outlive some of what they point into: `fwpkg_init()` takes
  that of a file it has closed (`fwpkg.c:40`).
* `cha_loop_break()` from another thread, which the library does not promise to
  support.

## Further work

Every invariant and every action property of the runs is proved. What could
follow:

1. `NakFilter` and `PcapTime` as one handler behind `CaptureLoop`, with a pipe that
   breaks while transfers are in flight.
2. `DecoderStream` behind `CaptureLoop`: buffers of the transfers in the order of
   their callbacks, in place of the sequence of buffers the host now reads.
