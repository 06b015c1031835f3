------------------------------- MODULE RegBus -------------------------------
(***************************************************************************)
(* Register access over channel A: cha_transaction() and what src/cha.c    *)
(* builds from it, the 32-bit registers and the registers of the USB PHY   *)
(* behind the ULPI bridge, down to the bytes of the messages.              *)
(*                                                                         *)
(* A call is a plan of transactions, worked off one by one.  An answer     *)
(* comes in pieces: a read may return fewer bytes than it asked for, or    *)
(* fail while the answer is still on its way.                              *)
(***************************************************************************)
EXTENDS Integers, ChaMessage

CONSTANTS
  WDATA, WCMD, RDATA, RCMD,  \* addresses of the UCFG_ registers
  Word,       \* address of a 32-bit register
  Speeds,     \* the speeds that are set
  Words,      \* the words that are written, as four bytes
  MaxCalls,   \* bound: calls
  MaxFaults   \* bound: reads that are short or fail

ASSUME AddressAssumption ==
  /\ Word \in Nat
  /\ {WDATA, WCMD, RDATA, RCMD} \cup Word .. Word + 3 \subseteq 0 .. WriteBit - 1
  /\ WDATA \notin {WCMD, RDATA, RCMD} /\ WCMD \notin {RDATA, RCMD} /\ RDATA # RCMD
  /\ {WDATA, WCMD, RDATA, RCMD} \cap Word .. Word + 3 = {}

\* enum ov_usb_speed, and 32 bits
ASSUME ArgumentsAssumption ==
  /\ Speeds \subseteq {"low", "full", "high"}
  /\ Words \subseteq [1 .. 4 -> Byte]

Addresses == {WDATA, WCMD, RDATA, RCMD} \cup Word .. Word + 3

VARIABLES
  pc,      \* "idle", "send" or "wait"
  op, arg, \* the call, "set", "get", "write" or "read", and its argument
  todo,    \* the rest of its plan
  msg,     \* the message of cha_transaction()
  val,     \* the last four values read
  ret,     \* what the last call returned
  \* the device
  reqs,    \* requests it has not taken yet
  fifo,    \* bytes of its answers that have not been read
  regs, phy,  \* its registers, and the PHY's register 4
  \* history
  speed, word,  \* what calls have set and written, "unknown" and <<>> when not known
  calls, faults,
  cut      \* 1 if a transaction of "set" or "get" has failed, and the call with it

call == <<op, arg>>
device == <<reqs, fifo, regs, phy>>
history == <<speed, word, calls, faults, cut>>
vars == <<pc, call, todo, msg, val, ret, device, history>>

\* UCFG_REG_GO, the bit that starts a command of the bridge and ends with it
Go == 128
Busy(r) == r >= Go

-----------------------------------------------------------------------------
(***************************************************************************)
(* The plans of the calls.                                                 *)
(***************************************************************************)
Write(a, v) == [kind |-> "write", addr |-> a, data |-> v]
Get(a)      == [kind |-> "read", addr |-> a, data |-> 0]
Poll(a)     == [kind |-> "poll", addr |-> a, data |-> 0]

\* Mutant of WriteReg32: the low byte at the low address.
WriteReg32Little(w) ==
  <<Write(Word, w[4]), Write(Word + 1, w[3]), Write(Word + 2, w[2]), Write(Word + 3, w[1])>>

\* cha_write_reg32() and cha_read_reg32(): the high byte has the low address.
WriteReg32(w) ==
  <<Write(Word + 3, w[4]), Write(Word + 2, w[3]), Write(Word + 1, w[2]), Write(Word, w[1])>>

ReadReg32 == <<Get(Word), Get(Word + 1), Get(Word + 2), Get(Word + 3)>>

\* Mutant of WriteUlpi: the bridge is not waited for.
WriteUlpiNoWait(a, v) == <<Write(WDATA, v), Write(WCMD, Go + (a % 64))>>

\* cha_write_ulpi() and cha_read_ulpi()
WriteUlpi(a, v) == <<Write(WDATA, v), Write(WCMD, Go + (a % 64)), Poll(WCMD)>>

ReadUlpi(a) == <<Write(RCMD, Go + (a % 64)), Poll(RCMD), Get(RDATA)>>

\* cha_set_usb_speed() and cha_get_usb_speed()
SpeedCode == [low |-> 74, full |-> 73, high |-> 72]

Plan(o, x) ==
  CASE o = "set"   -> WriteUlpi(4, SpeedCode[x])
    [] o = "get"   -> ReadUlpi(4)
    [] o = "write" -> WriteReg32(x)
    [] o = "read"  -> ReadReg32

Arguments(o) ==
  CASE o = "set" -> Speeds [] o = "write" -> Words [] o \in {"get", "read"} -> {<< >>}

-----------------------------------------------------------------------------
Init ==
  /\ pc = "idle" /\ op = "read" /\ arg = << >> /\ todo = << >> /\ msg = <<0, 0, 0, 0, 0>>
  /\ val = <<1, 1, 1, 1>> /\ ret = -1
  /\ reqs = << >> /\ fifo = << >>
  /\ regs = [a \in Addresses |-> 0] /\ phy = 65
  /\ speed = "unknown" /\ word = << >> /\ calls = 0 /\ faults = 0 /\ cut = 0

\* What a call may change is not known until it has returned with success.
Call(o) ==
  /\ pc = "idle" /\ calls < MaxCalls /\ calls' = calls + 1
  /\ op' = o /\ arg' \in Arguments(o)
  /\ todo' = Plan(o, arg') /\ pc' = "send"
  /\ speed' = IF o = "set" THEN "unknown" ELSE speed
  /\ word' = IF o = "write" THEN << >> ELSE word
  /\ UNCHANGED <<msg, val, ret, device, faults, cut>>

\* The call returns r.
Returns(r) ==
  /\ pc' = "idle" /\ todo' = << >> /\ ret' = r
  /\ speed' = IF op = "set" /\ r = 0 THEN arg ELSE speed
  /\ word' = IF op = "write" /\ r = 0 THEN arg ELSE word

\* A transaction has failed, and its call with it.
Fails ==
  /\ Returns(-1)
  /\ cut' = IF op \in {"set", "get"} THEN 1 ELSE cut

\* The first half of cha_transaction()
Send ==
  LET t == Head(todo)
      a == IF t.kind = "write" THEN t.addr + WriteBit ELSE t.addr
  IN  /\ pc = "send" /\ pc' = "wait"
      /\ msg' = Message(a, t.data)
      /\ reqs' = Append(reqs, msg')
      /\ UNCHANGED <<call, todo, val, ret, fifo, regs, phy, history>>

\* ftdi_write_data() fails.
SendFails ==
  /\ pc = "send" /\ Fails
  /\ UNCHANGED <<call, msg, val, device, calls, faults>>

\* ftdi_read_data() returns the first n bytes of what has come into `msg', which
\* still has the request.
Fetched(n) ==
  /\ msg' = SubSeq(fifo, 1, n) \o SubSeq(msg, n + 1, 5)
  /\ fifo' = SubSeq(fifo, n + 1, Len(fifo))
  /\ faults' = IF n < 5 THEN faults + 1 ELSE faults

Accepted(m) == Checksum(m) = m[5]

\* cha_get_usb_speed() refuses other codes.
Result == IF op = "get" /\ val'[4] \notin {74, 73, 72} THEN -1 ELSE 0

\* *val = (*val << 8) | tmp in 32 bits; a single value is the last.
TakeValue(t) ==
  val' = IF t.kind = "read" THEN Append(Tail(val), msg'[4]) ELSE val

\* Mutants of Repeats: a poll is over with its first answer, or never.
RepeatsNever(t, m) == FALSE
RepeatsAlways(t, m) == t.kind = "poll"

\* A poll is repeated while the GO bit is set.
Repeats(t, m) == t.kind = "poll" /\ Busy(m[4])

\* The second half of cha_transaction(), and what its caller does with the answer
Receive ==
  /\ pc = "wait" /\ fifo # << >>
  /\ \E n \in 1 .. 5 :
       /\ n <= Len(fifo) /\ (n < 5 => faults < MaxFaults)
       /\ Fetched(n)
  /\ LET t == Head(todo)
     IN  IF ~Accepted(msg') THEN Fails /\ UNCHANGED val
         ELSE /\ TakeValue(t)
              /\ IF Repeats(t, msg')
                   THEN pc' = "send" /\ UNCHANGED <<todo, ret, speed, word, cut>>
                 ELSE IF Len(todo) > 1
                   THEN pc' = "send" /\ todo' = Tail(todo) /\ UNCHANGED <<ret, speed, word, cut>>
                 ELSE Returns(Result) /\ UNCHANGED cut
  /\ UNCHANGED <<call, reqs, regs, phy, calls>>

\* ftdi_read_data() fails; the answer will come all the same.
ReceiveFails ==
  /\ pc = "wait" /\ faults < MaxFaults /\ faults' = faults + 1
  /\ Fails
  /\ UNCHANGED <<call, msg, val, device, calls>>

HostStep == Send \/ Receive

-----------------------------------------------------------------------------
(***************************************************************************)
(* The device.                                                             *)
(***************************************************************************)
\* It takes a request, writes the register if the request says so, and answers
\* with the same message, or with the register's value in it.
Respond ==
  /\ reqs # << >> /\ reqs' = Tail(reqs)
  /\ LET q == Head(reqs)
         hi == q[2] * 256 + q[3]
         a == hi % WriteBit
     IN  IF hi >= WriteBit
           THEN regs' = [regs EXCEPT ![a] = q[4]] /\ fifo' = fifo \o q
           ELSE fifo' = fifo \o Message(a, regs[a]) /\ UNCHANGED regs
  /\ UNCHANGED <<pc, call, todo, msg, val, ret, phy, history>>

\* The bridge carries out a command and clears GO.
UlpiWrites ==
  /\ Busy(regs[WCMD]) /\ phy' = regs[WDATA]
  /\ regs' = [regs EXCEPT ![WCMD] = @ - Go]
  /\ UNCHANGED <<pc, call, todo, msg, val, ret, reqs, fifo, history>>

UlpiReads ==
  /\ Busy(regs[RCMD])
  /\ regs' = [regs EXCEPT ![RCMD] = @ - Go, ![RDATA] = phy]
  /\ UNCHANGED <<pc, call, todo, msg, val, ret, reqs, fifo, phy, history>>

Next ==
  \/ \E o \in {"set", "get", "write", "read"} : Call(o)
  \/ HostStep \/ SendFails \/ ReceiveFails
  \/ Respond \/ UlpiWrites \/ UlpiReads

Spec == Init /\ [][Next]_vars

\* The host goes on, and the device answers and carries out its commands.
FairSpec ==
  Spec /\ WF_vars(HostStep) /\ WF_vars(Respond) /\ WF_vars(UlpiWrites) /\ WF_vars(UlpiReads)

-----------------------------------------------------------------------------
\* Without a short or failed read what was set or written is what is read, the speed
\* through the bridge and the word through four registers: each transaction reads its
\* own answer, and all of it (src/src/cha.c:92-125, 277-288, 310-350).
ReadsBack ==
  pc = "idle" /\ ret = 0 /\ faults = 0 =>
    /\ op = "get" /\ speed # "unknown" => val[4] = SpeedCode[speed]
    /\ op = "read" /\ word # << >> => val = word

\* A word was written when the call says so, whatever happened to the answers: the
\* registers have it once the device has taken its requests.
WordWritten ==
  pc = "idle" /\ reqs = << >> /\ word # << >> =>
    \A i \in 0 .. 3 : regs[Word + i] = word[i + 1]

\* And without such a read, nor a call to set or get the speed that failed half-way,
\* the device takes no request to write, neither a command nor data, while the bridge
\* carries out a command, to write or to read (src/src/cha.c:277-288, 310-350).
BridgeNotDisturbed ==
  [][Respond /\ faults = 0 /\ cut = 0 /\ (Busy(regs[WCMD]) \/ Busy(regs[RCMD])) =>
       regs' = regs]_vars

\* Every call returns: an answer out of step with its request ends it too.
CallReturns == pc # "idle" ~> pc = "idle"
=============================================================================
