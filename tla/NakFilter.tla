----------------------------- MODULE NakFilter -----------------------------
(***************************************************************************)
(* The filter between the capture and Wireshark in tools/ovextcap/main.c.  *)
(* filter_packet() sees a packet at a time and must hold back a token, and *)
(* the data behind it, until it knows whether the device answered NAK.     *)
(* One of its ten branches is an action.  Each write to the pipe may fail, *)
(* which ends the capture.  Packets are known by their place in `arrived'; *)
(* of their contents only the packet ID matters.  A record that is cut     *)
(* short by a failing write counts as not written.                         *)
(***************************************************************************)
EXTENDS Naturals, Sequences

CONSTANT MaxArrived  \* bound: packets captured

Data  == {"DATA0", "DATA1"}
Token == {"IN", "PING"}
\* OTHER stands for the PIDs filter_packet() does not name, SETUP apart
PID == {"SOF", "SPLIT", "OUT", "NAK", "SETUP", "OTHER"} \cup Data \cup Token

VARIABLES
  filters,  \* the options chosen: filter_naks is "naks", filter_sofs is "sofs"
  st,       \* the state of the filter
  queue,    \* packets held back
  out,      \* the pipe: "open", or NULL because it is "broken"
  loop,     \* the capture: "running", "break" requested, or "ended" and out closed
  arrived,  \* history: the packet IDs of the packets captured
  written   \* history: the packets written

vars == <<filters, st, queue, out, loop, arrived, written>>

\* The capture has been started; the pipe may have broken with the pcap header.
Init ==
  /\ filters \in SUBSET {"naks", "sofs"}
  /\ st = "DEFAULT" /\ queue = << >> /\ out \in {"open", "broken"} /\ loop = "running"
  /\ arrived = << >> /\ written = << >>

-----------------------------------------------------------------------------
\* The packet at hand
Now == Len(arrived) + 1

\* write_data() closes the output when a write fails, and does nothing after
\* that: of several records the first few are written.
Write(records) ==
  IF out # "open" THEN UNCHANGED <<written, out>>
  ELSE \E k \in 0 .. Len(records) :
         /\ written' = written \o SubSeq(records, 1, k)
         /\ out' = IF k = Len(records) THEN out ELSE "broken"

\* forward_queued_packets() and forward_packet()
ForwardAll(next) ==
  /\ Write(Append(queue, Now))
  /\ queue' = << >> /\ st' = next

\* forward_queued_packets(), and the packet becomes the first one held back
HoldBack(next) ==
  /\ Write(queue)
  /\ queue' = <<Now>> /\ st' = next

-----------------------------------------------------------------------------
(***************************************************************************)
(* filter_packet(), a branch at a time                                     *)
(***************************************************************************)
UninterestingSof(pid) ==
  /\ pid = "SOF" /\ st = "DEFAULT"
  /\ Write(IF "sofs" \in filters THEN << >> ELSE <<Now>>)
  /\ UNCHANGED <<queue, st>>

InterruptingSof(pid) == pid = "SOF" /\ st # "DEFAULT" /\ ForwardAll("DEFAULT")

Split(pid) == pid = "SPLIT" /\ ForwardAll("SPLIT")

\* What follows SPLIT is not looked at.
AfterSplit(pid) ==
  /\ pid \notin {"SOF", "SPLIT"} /\ st = "SPLIT"
  /\ Write(<<Now>>) /\ st' = "DEFAULT"
  /\ UNCHANGED queue

OutToken(pid) == pid = "OUT" /\ st # "SPLIT" /\ HoldBack("OUT")

OutData(pid) ==
  /\ pid \in Data /\ st = "OUT"
  /\ queue' = Append(queue, Now) /\ st' = "EXPECT_NAK"
  /\ UNCHANGED <<written, out>>

InOrPing(pid) == pid \in Token /\ st # "SPLIT" /\ HoldBack("EXPECT_NAK")

\* Mutant of Nak: discard_queued_packets() where only SOFs are filtered.
NakAlwaysDiscards(pid) ==
  /\ pid = "NAK" /\ st = "EXPECT_NAK"
  /\ queue' = << >> /\ st' = "DEFAULT"
  /\ UNCHANGED <<written, out>>

\* The transaction is discarded, or forwarded if only SOFs are filtered.
Nak(pid) ==
  /\ pid = "NAK" /\ st = "EXPECT_NAK"
  /\ Write(IF "naks" \in filters THEN << >> ELSE Append(queue, Now))
  /\ queue' = << >> /\ st' = "DEFAULT"

AnyOther(pid) ==
  /\ pid \notin {"SOF", "SPLIT", "OUT"} \cup Token /\ st # "SPLIT"
  /\ pid = "NAK" => st # "EXPECT_NAK"
  /\ pid \in Data => st # "OUT"
  /\ ForwardAll("DEFAULT")

FilterPacket(pid) ==
  \/ UninterestingSof(pid) \/ InterruptingSof(pid) \/ Split(pid) \/ AfterSplit(pid)
  \/ OutToken(pid) \/ OutData(pid) \/ InOrPing(pid) \/ Nak(pid) \/ AnyOther(pid)

-----------------------------------------------------------------------------
\* Mutant of BreakIfBroken: the pipe is looked at before the packet is written.
BreakIfBrokenBefore == loop' = IF out # "open" THEN "break" ELSE loop

\* ov_capture_breakloop() if the pipe is broken
BreakIfBroken == loop' = IF out' # "open" THEN "break" ELSE loop

\* packet_handler() is called while the loop is RUNNING, as CaptureLoop shows.
\* A packet of size 0 does not come to the filter.
PacketHandler(pid) ==
  /\ loop = "running" /\ Len(arrived) < MaxArrived
  /\ FilterPacket(pid)
  /\ BreakIfBroken
  /\ arrived' = Append(arrived, pid)
  /\ UNCHANGED filters

\* Mutant of EndOfCapture: what is held back is discarded in either case.
EndOfCaptureDiscards ==
  /\ loop # "ended" /\ loop' = "ended"
  /\ queue' = << >>
  /\ UNCHANGED <<filters, st, out, arrived, written>>

\* ov_capture_dispatch() has returned, for whatever reason: what is held back is
\* discarded, or forwarded if only SOFs are filtered, and the pipe is closed.
EndOfCapture ==
  /\ loop # "ended" /\ loop' = "ended"
  /\ Write(IF "naks" \in filters THEN << >> ELSE queue)
  /\ queue' = << >>
  /\ UNCHANGED <<filters, st, arrived>>

Next == (\E pid \in PID : PacketHandler(pid)) \/ EndOfCapture

Spec == Init /\ [][Next]_vars

-----------------------------------------------------------------------------
(***************************************************************************)
(* What the filter promises, said of the packets captured and not of its   *)
(* states                                                                  *)
(***************************************************************************)
\* A token that filter_packet() follows: not one that belongs to a SPLIT
Follows(a) == a > 1 => arrived[a - 1] # "SPLIT"

\* A transaction that was NAKed: token and NAK, or OUT, data and NAK
Naked(a, b) ==
  /\ Follows(a) /\ arrived[b] = "NAK"
  /\ \/ b = a + 1 /\ arrived[a] \in Token
     \/ b = a + 2 /\ arrived[a] = "OUT" /\ arrived[a + 1] \in Data

\* An SOF in the middle of what may become a NAKed transaction, or of a SPLIT
Interrupting(p) ==
  \/ p > 1 /\ arrived[p - 1] = "SPLIT"
  \/ p > 1 /\ Follows(p - 1) /\ arrived[p - 1] \in Token \cup {"OUT"}
  \/ p > 2 /\ Follows(p - 2) /\ arrived[p - 2] = "OUT" /\ arrived[p - 1] \in Data

Filtered(p) ==
  \/ "naks" \in filters /\ \E a, b \in 1 .. Len(arrived) : a <= p /\ p <= b /\ Naked(a, b)
  \/ "sofs" \in filters /\ arrived[p] = "SOF" /\ ~Interrupting(p)

\* What is to be written of the packets captured
Kept == {p \in 1 .. Len(arrived) : ~Filtered(p)}

\* The elements of S up to n
UpTo(S, n) == {p \in S : p <= n}

\* The sequence s has the elements of S, once each and in the order of their arrival.
Lists(s, S) ==
  /\ \A i \in DOMAIN s : s[i] \in S
  /\ \A p \in S : \E i \in DOMAIN s : s[i] = p
  /\ \A i, j \in DOMAIN s : i < j => s[i] < s[j]

-----------------------------------------------------------------------------
\* The types of the filter's state; the comment on struct _record_list has it that
\* the list length is no greater than 2.
TypeOK ==
  /\ filters \subseteq {"naks", "sofs"}
  /\ st \in {"DEFAULT", "SPLIT", "OUT", "EXPECT_NAK"}
  /\ queue \in Seq(Nat) /\ Len(queue) <= 2 /\ written \in Seq(Nat)
  /\ out \in {"open", "broken"} /\ loop \in {"running", "break", "ended"}
  /\ arrived \in Seq(PID)

\* The assertions at the head of filter_packet() and more: the state says how many
\* packets are held back, and they are the last ones that arrived.
QueueMatchesState ==
  loop # "ended" =>
    /\ st \in {"DEFAULT", "SPLIT"} => queue = << >>
    /\ st = "OUT" => Len(queue) = 1
    /\ st = "EXPECT_NAK" => queue # << >>
    /\ \A i \in 1 .. Len(queue) : queue[i] = Len(arrived) - Len(queue) + i

\* Exactly the NAKed transactions and the SOFs that interrupt none of what the
\* filter follows are left out; all else is written, or held back and still to
\* be written, once and in order.  However the capture ends, Wireshark has the first
\* part of that (src/tools/ovextcap/main.c:189-277).
OutputExact ==
  /\ \E n \in 0 .. Len(arrived) : Lists(written, UpTo(Kept, n))
  /\ loop = "running" => Lists(written \o queue, Kept)

\* If NAKs are not filtered, no packet held back is lost at the end.
NothingLostAtEnd ==
  loop = "ended" /\ out = "open" /\ "naks" \notin filters => Lists(written, Kept)

\* No packet is handled after the pipe has broken, because the handler whose write
\* fails breaks the loop; except the first packet of all, which comes to the handler
\* also if the pipe broke with the pcap header (tools/ovextcap/main.c:302-308, 369).
BrokenPipeStops ==
  [][out = "broken" => arrived' = arrived \/ arrived = << >>]_vars

\* What the tooltip of --filter-sof says: "Only SOFs that do not interrupt any
\* transaction will be filtered".  An SOF right behind a token, whichever it is,
\* interrupts a transaction, as no transaction ends with its token.
InterruptingSofsKept ==
  loop = "running" =>
    \A p \in 2 .. Len(arrived) :
      /\ arrived[p] = "SOF"
      /\ arrived[p - 1] \in Token \cup {"OUT", "SETUP"}
      => \E i \in 1 .. Len(written) : written[i] = p
=============================================================================
