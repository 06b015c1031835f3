----------------------------- MODULE SyncStream -----------------------------
(***************************************************************************)
(* cha_sync_stream(): it flushes the channel, writes 0 to a register and   *)
(* looks for the answer in what the device sends, through a matcher of one *)
(* counter, `sync_state'.                                                  *)
(*                                                                         *)
(* All that the device ever sends is the sequence `sent'; what has not     *)
(* been read yet is the part after `rd'.  While its SDRAM host read is on  *)
(* the device sends other bytes too; a request turns that off.             *)
(***************************************************************************)
EXTENDS ChaMessage, FiniteSets

CONSTANTS
  Addr,      \* the register, 0x8000 | reg.addr[SDRAM_HOST_READ_GO] in the code
  Strays,    \* the bytes of the stream before the answer
  Chunk,     \* the size of `buf', 32 in the code
  MaxStray,  \* bound: bytes of the stream before the first answer
  MaxSyncs   \* bound: calls of cha_sync_stream()

ASSUME AddrAssumption   == Addr \in Nat /\ Addr < 65536
ASSUME StraysAssumption == Strays \subseteq Byte

VARIABLES
  pc,          \* "read", "found", or how the last call returned
  sent,        \* all bytes the device has sent
  rd,          \* the number of them that ftdi_read_data() has returned or a flush dropped
  pos,         \* the number of them the matcher has looked at
  sync_state,
  \* the device
  asked,       \* requests it has not answered yet
  answers,     \* where in `sent' its answers start
  \* history
  base,        \* what was flushed before this call
  syncs,
  aborted      \* calls that failed between their request and its answer

device == <<asked, answers>>
history == <<base, syncs, aborted>>
vars == <<pc, sent, rd, pos, sync_state, device, history>>

Returned == {"idle", "done", "failed"}

Msg == Message(Addr, 0)

Init ==
  /\ pc = "idle" /\ sent = << >> /\ rd = 0 /\ pos = 0 /\ sync_state = 0
  /\ asked = 0 /\ answers = {}
  /\ base = 0 /\ syncs = 0 /\ aborted = 0

-----------------------------------------------------------------------------
\* ftdi_tcioflush() drops what has come so far; the rest may be on its way.
Flushed(n) == n \in pos .. Len(sent) /\ rd' = n /\ pos' = n

\* The first flush and the request
Start ==
  /\ pc \in Returned /\ syncs < MaxSyncs
  /\ \E n \in pos .. Len(sent) : Flushed(n) /\ base' = n
  /\ syncs' = syncs + 1 /\ asked' = asked + 1 /\ sync_state' = 0
  /\ pc' = "read"
  /\ UNCHANGED <<sent, answers, aborted>>

\* One of the two fails.
StartFails ==
  /\ pc \in Returned /\ syncs < MaxSyncs
  /\ \E n \in pos .. Len(sent) : Flushed(n)
  /\ syncs' = syncs + 1 /\ pc' = "failed"
  /\ UNCHANGED <<sent, sync_state, device, base, aborted>>

\* Mutant of Read: the matcher starts over with every buffer.
ReadResets ==
  /\ pc = "read" /\ pos = rd
  /\ rd' \in rd + 1 .. Len(sent) /\ rd' <= rd + Chunk
  /\ sync_state' = 0
  /\ UNCHANGED <<pc, sent, pos, device, history>>

\* ftdi_read_data() with what has come; a read of nothing changes nothing.
Read ==
  /\ pc = "read" /\ pos = rd
  /\ rd' \in rd + 1 .. Len(sent) /\ rd' <= rd + Chunk
  /\ UNCHANGED <<pc, sent, pos, sync_state, device, history>>

ReadFails ==
  /\ pc = "read" /\ pos = rd
  /\ pc' = "failed" /\ aborted' = aborted + 1
  /\ UNCHANGED <<sent, rd, pos, sync_state, device, base, syncs>>

\* The matcher: after a mismatch it does not look at the byte again.
Matched(s, b) == IF b = Msg[s + 1] THEN s + 1 ELSE 0

\* Mutant of Complete: the checksum is not waited for.
CompleteEarly(s) == s = 4

Complete(s) == s = 5

\* One byte of `buf'
Scan ==
  /\ pc = "read" /\ pos < rd
  /\ pos' = pos + 1
  /\ sync_state' = Matched(sync_state, sent[pos + 1])
  /\ pc' = IF Complete(sync_state') THEN "found" ELSE "read"
  /\ UNCHANGED <<sent, rd, device, history>>

\* The second flush; the rest of `buf' is dropped as well.
Finish ==
  /\ pc = "found"
  /\ \/ pc' = "done" /\ \E n \in rd .. Len(sent) : Flushed(n)
     \/ pc' = "failed" /\ pos' = rd /\ UNCHANGED rd
  /\ UNCHANGED <<sent, sync_state, device, history>>

-----------------------------------------------------------------------------
\* The device streams until it has a request to turn that off.
Stream(b) ==
  /\ answers = {} /\ Len(sent) < MaxStray
  /\ sent' = Append(sent, b)
  /\ UNCHANGED <<pc, rd, pos, sync_state, device, history>>

Answer ==
  /\ asked > 0 /\ asked' = asked - 1
  /\ answers' = answers \cup {Len(sent) + 1}
  /\ sent' = sent \o Msg
  /\ UNCHANGED <<pc, rd, pos, sync_state, history>>

HostStep == Read \/ Scan \/ Finish

Next == Start \/ StartFails \/ HostStep \/ ReadFails
        \/ Answer \/ \E b \in Strays : Stream(b)

Spec == Init /\ [][Next]_vars

\* The host takes its steps, and the device answers a request.
FairSpec == Spec /\ WF_vars(HostStep) /\ WF_vars(Answer)

-----------------------------------------------------------------------------
\* The types; `sync_state' is an index of msg when it is used as one.
TypeOK ==
  /\ pc \in {"read", "found"} \cup Returned
  /\ sent \in Seq(Byte)
  /\ rd \in Nat /\ pos \in Nat /\ base \in Nat
  /\ base <= pos /\ pos <= rd /\ rd <= Len(sent)
  /\ sync_state \in Nat /\ sync_state <= 5
  /\ pc = "read" => sync_state < 5
  /\ asked \in Nat /\ syncs \in Nat /\ aborted \in Nat
  /\ answers \subseteq Nat

\* The k bytes before position a are the start of the answer.
PrefixBefore(a, k) ==
  a - k > base /\ \A j \in 1 .. 5 : j <= k => sent[a - k - 1 + j] = Msg[j]

\* When cha_sync_stream() has found its answer, the last five bytes it looked at
\* are that answer, all of them from after its first flush.
FoundIsAnswer ==
  pc = "found" => PrefixBefore(pos + 1, 5)

\* The part of an answer's start right before it on which the matcher misses it
Shadowed(a) == \E k \in 1 .. 4 : PrefixBefore(a, k)

\* An answer that came whole after the flush is not missed, unless the bytes right
\* before it are themselves the start of an answer, such as a lone 0x55.
NotMissed ==
  pc = "read" =>
    \A a \in answers : base < a /\ a + 4 <= pos => Shadowed(a)

\* The matcher finds the answer, nothing else and only there (src/src/cha.c:66-77).
SearchExact == FoundIsAnswer /\ NotMissed

\* The five bytes of the answer are at position i.
AnswerAt(i) == \A j \in 1 .. 5 : sent[i - 1 + j] = Msg[j]

\* Only answers look like one: no other bytes of the stream do, by themselves or
\* together with the start of an answer.
OnlyAnswers == \A i \in 1 .. Len(sent) : i + 4 <= Len(sent) /\ AnswerAt(i) => i \in answers

\* The answers of which the matcher has not looked at the last byte
Unread == {a \in answers : a + 4 > pos}

\* When the call has succeeded, no more answers are still to come than calls have
\* failed before: without a failure the next transaction reads its own answer, unless
\* other bytes of the stream were taken for this one (src/src/cha.c:66-88).
AnswersConsumed ==
  pc = "done" /\ OnlyAnswers => asked + Cardinality(Unread) <= aborted

\* Every call returns, or has looked at all answers and missed them because they
\* were shadowed: it then reads on without a limit.
SyncReturns ==
  pc = "read" ~> \/ pc \in Returned
                 \/ /\ asked = 0 /\ pos = Len(sent)
                    /\ \A a \in answers : base < a => Shadowed(a)
=============================================================================
