-------------------------- MODULE OvextcapProofs --------------------------
(***************************************************************************)
(* Proofs about the three modules of ovextcap: NakFilter, for captures of  *)
(* any length; PcapTime, for every start of a capture and all packets; and *)
(* Extcap, for any number of captures and every version of Wireshark.      *)
(***************************************************************************)
EXTENDS NakFilter, PcapTime, Extcap, SequenceTheorems, TLAPS

-----------------------------------------------------------------------------
(***************************************************************************)
(* NakFilter                                                               *)
(***************************************************************************)
\* A broken pipe has been noticed when packet_handler() returns; before its first
\* call it may be broken, with nothing written.
BreakInv ==
  out = "broken" /\ loop = "running" => arrived = << >> /\ written = << >>

IInv == TypeOK /\ QueueMatchesState /\ BreakInv

\* Writing appends records, and may break the pipe.
LEMMA WriteType ==
  ASSUME NEW records \in Seq(Nat), Write(records),
         written \in Seq(Nat), out \in {"open", "broken"}
  PROVE  written' \in Seq(Nat) /\ out' \in {"open", "broken"}
<1>1. CASE out # "open"
  BY <1>1 DEF Write
<1>2. CASE out = "open"
  <2>1. PICK k \in 0 .. Len(records) :
          /\ written' = written \o SubSeq(records, 1, k)
          /\ out' = IF k = Len(records) THEN out ELSE "broken"
    BY <1>2 DEF Write
  <2>2. \A i \in 1 .. k : i \in 1 .. Len(records)
    BY <2>1
  <2>3. SubSeq(records, 1, k) \in Seq(Nat)
    BY <2>2, SubSeqProperties
  <2> QED
    BY <1>2, <2>1, <2>3, ConcatProperties
<1> QED
  BY <1>1, <1>2

LEMMA NowFacts ==
  ASSUME TypeOK
  PROVE  /\ Now \in Nat /\ <<Now>> \in Seq(Nat) /\ << >> \in Seq(Nat)
         /\ Append(queue, Now) \in Seq(Nat)
         /\ Len(<<Now>>) = 1 /\ <<Now>>[1] = Now
         /\ Len(arrived) \in Nat /\ Now = Len(arrived) + 1
BY DEF TypeOK, Now

\* Each branch of filter_packet() keeps the types,
LEMMA FilterTypes ==
  ASSUME IInv, NEW pid \in PID, FilterPacket(pid)
  PROVE  /\ queue' \in Seq(Nat) /\ written' \in Seq(Nat)
         /\ st' \in {"DEFAULT", "SPLIT", "OUT", "EXPECT_NAK"}
         /\ out' \in {"open", "broken"}
<1>1. /\ queue \in Seq(Nat) /\ written \in Seq(Nat) /\ out \in {"open", "broken"}
      /\ st \in {"DEFAULT", "SPLIT", "OUT", "EXPECT_NAK"}
  BY DEF IInv, TypeOK
<1>2. /\ <<Now>> \in Seq(Nat) /\ << >> \in Seq(Nat) /\ Append(queue, Now) \in Seq(Nat)
  BY NowFacts DEF IInv
<1>3. CASE UninterestingSof(pid)
  <2>1. PICK records \in {<< >>, <<Now>>} : Write(records)
    BY <1>3 DEF UninterestingSof
  <2>2. UNCHANGED <<queue, st>>
    BY <1>3 DEF UninterestingSof
  <2> QED
    BY <1>1, <1>2, <2>1, <2>2, WriteType
<1>4. CASE InterruptingSof(pid) \/ Split(pid) \/ AnyOther(pid)
  <2>1. Write(Append(queue, Now)) /\ queue' = << >> /\ st' \in {"DEFAULT", "SPLIT"}
    BY <1>4 DEF InterruptingSof, Split, AnyOther, ForwardAll
  <2> QED
    BY <1>1, <1>2, <2>1, WriteType
<1>5. CASE AfterSplit(pid)
  <2>1. Write(<<Now>>) /\ queue' = queue /\ st' = "DEFAULT"
    BY <1>5 DEF AfterSplit
  <2> QED
    BY <1>1, <1>2, <2>1, WriteType
<1>6. CASE OutToken(pid) \/ InOrPing(pid)
  <2>1. Write(queue) /\ queue' = <<Now>> /\ st' \in {"OUT", "EXPECT_NAK"}
    BY <1>6 DEF OutToken, InOrPing, HoldBack
  <2> QED
    BY <1>1, <1>2, <2>1, WriteType
<1>7. CASE OutData(pid)
  BY <1>1, <1>2, <1>7 DEF OutData
<1>8. CASE Nak(pid)
  <2>1. PICK records \in {<< >>, Append(queue, Now)} : Write(records)
    BY <1>8 DEF Nak
  <2>2. queue' = << >> /\ st' = "DEFAULT"
    BY <1>8 DEF Nak
  <2> QED
    BY <1>1, <1>2, <2>1, <2>2, WriteType
<1> QED
  BY <1>3, <1>4, <1>5, <1>6, <1>7, <1>8 DEF FilterPacket

\* and leaves a queue that matches the state, the packet it was called with being
\* the last one that arrived.
LEMMA FilterQueue ==
  ASSUME IInv, loop = "running", NEW pid \in PID, FilterPacket(pid)
  PROVE  /\ Len(queue') <= 2
         /\ st' \in {"DEFAULT", "SPLIT"} => queue' = << >>
         /\ st' = "OUT" => Len(queue') = 1
         /\ st' = "EXPECT_NAK" => queue' # << >>
         /\ \A i \in 1 .. Len(queue') : queue'[i] = Now - Len(queue') + i
<1>1. /\ Now \in Nat /\ Now = Len(arrived) + 1 /\ Len(arrived) \in Nat
      /\ queue \in Seq(Nat) /\ Len(<<Now>>) = 1 /\ <<Now>>[1] = Now
  BY NowFacts DEF IInv, TypeOK
<1>2. /\ st \in {"DEFAULT", "SPLIT"} => queue = << >>
      /\ st = "OUT" => Len(queue) = 1
      /\ \A i \in 1 .. Len(queue) : queue[i] = Len(arrived) - Len(queue) + i
  BY DEF IInv, QueueMatchesState
<1>3. CASE queue' = << >> /\ st' \in {"DEFAULT", "SPLIT"}
  BY <1>3, EmptySeq
<1>4. CASE UninterestingSof(pid) \/ AfterSplit(pid)
  <2>1. queue' = queue /\ queue = << >> /\ st' = "DEFAULT"
    BY <1>2, <1>4 DEF UninterestingSof, AfterSplit
  <2> QED
    BY <1>3, <2>1
<1>5. CASE InterruptingSof(pid) \/ Split(pid) \/ AnyOther(pid) \/ Nak(pid)
  BY <1>3, <1>5 DEF InterruptingSof, Split, AnyOther, Nak, ForwardAll
<1>6. CASE OutToken(pid) \/ InOrPing(pid)
  <2>1. queue' = <<Now>> /\ st' \in {"OUT", "EXPECT_NAK"}
    BY <1>6 DEF OutToken, InOrPing, HoldBack
  <2> QED
    BY <1>1, <2>1
<1>7. CASE OutData(pid)
  <2>1. queue' = Append(queue, Now) /\ st' = "EXPECT_NAK" /\ Len(queue) = 1
    BY <1>2, <1>7 DEF OutData
  <2>2. Len(queue') = 2 /\ queue'[1] = queue[1] /\ queue'[2] = Now
    <3>1. /\ Len(Append(queue, Now)) = Len(queue) + 1
          /\ \A i \in 1 .. Len(queue) : Append(queue, Now)[i] = queue[i]
          /\ Append(queue, Now)[Len(queue) + 1] = Now
      BY <1>1, AppendProperties
    <3>2. 1 \in 1 .. Len(queue) /\ Len(queue) + 1 = 2
      BY <2>1
    <3> QED
      BY <2>1, <3>1, <3>2
  <2>3. queue[1] = Len(arrived)
    BY <1>1, <1>2, <2>1
  <2>4. \A i \in 1 .. 2 : queue'[i] = Now - 2 + i
    BY <1>1, <2>2, <2>3
  <2> QED
    BY <2>1, <2>2, <2>4, EmptySeq
<1> QED
  BY <1>4, <1>5, <1>6, <1>7 DEF FilterPacket

LEMMA HandlerIInv ==
  ASSUME IInv, NEW pid \in PID, PacketHandler(pid)
  PROVE  IInv'
<1>1. /\ loop = "running" /\ FilterPacket(pid) /\ arrived' = Append(arrived, pid)
      /\ filters' = filters /\ loop' = IF out' # "open" THEN "break" ELSE loop
  BY DEF PacketHandler, BreakIfBroken
<1>2. arrived \in Seq(PID)
  BY DEF IInv, TypeOK
<1>3. arrived' \in Seq(PID) /\ Len(arrived') = Now
  BY <1>1, <1>2, AppendProperties DEF Now
<1>4. TypeOK'
  BY <1>1, <1>3, FilterTypes, FilterQueue DEF IInv, TypeOK
<1>5. QueueMatchesState'
  BY <1>1, <1>3, FilterQueue DEF QueueMatchesState
<1>6. BreakInv'
  BY <1>1 DEF BreakInv
<1> QED
  BY <1>4, <1>5, <1>6 DEF IInv

LEMMA EndIInv ==
  ASSUME IInv, EndOfCapture
  PROVE  IInv'
<1>1. PICK records \in {<< >>, queue} : Write(records)
  BY DEF EndOfCapture
<1>2. /\ loop' = "ended" /\ queue' = << >>
      /\ UNCHANGED <<filters, st, arrived>>
  BY DEF EndOfCapture
<1>3. /\ written \in Seq(Nat) /\ out \in {"open", "broken"} /\ queue \in Seq(Nat)
      /\ << >> \in Seq(Nat)
  BY NowFacts DEF IInv, TypeOK
<1>4. written' \in Seq(Nat) /\ out' \in {"open", "broken"}
  BY <1>1, <1>3, WriteType
<1> QED
  BY <1>2, <1>3, <1>4, EmptySeq DEF IInv, TypeOK, QueueMatchesState, BreakInv

LEMMA InitIInv == Init => IInv
BY EmptySeq DEF Init, IInv, TypeOK, QueueMatchesState, BreakInv

LEMMA NextIInv == IInv /\ [Next]_vars => IInv'
<1> SUFFICES ASSUME IInv, [Next]_vars PROVE IInv'
  OBVIOUS
<1>1. CASE \E pid \in PID : PacketHandler(pid)
  BY <1>1, HandlerIInv
<1>2. CASE EndOfCapture
  BY <1>2, EndIInv
<1>3. CASE UNCHANGED vars
  BY <1>3 DEF vars, IInv, TypeOK, QueueMatchesState, BreakInv
<1> QED
  BY <1>1, <1>2, <1>3 DEF Next

-----------------------------------------------------------------------------
(***************************************************************************)
(* What is written.                                                        *)
(***************************************************************************)
\* The packet p is a token that may be NAKed, an OUT, or the data of one.
TokenAt(p)   == p >= 1 /\ Follows(p) /\ arrived[p] \in Token
OutAt(p)     == p >= 1 /\ Follows(p) /\ arrived[p] = "OUT"
OutDataAt(p) == p >= 2 /\ OutAt(p - 1) /\ arrived[p] \in Data

\* What the state says of the packets that arrived last.
StateMatchesArrived ==
  LET L == Len(arrived) IN
  /\ st = "SPLIT" <=> L >= 1 /\ arrived[L] = "SPLIT"
  /\ st = "OUT" <=> OutAt(L)
  /\ st = "EXPECT_NAK" <=> TokenAt(L) \/ OutDataAt(L)
  /\ st = "EXPECT_NAK" => Len(queue) = IF TokenAt(L) THEN 1 ELSE 2

\* All that is to be written of the packets before those held back has been, and
\* those are to be written, as things stand; or the loop has been left and the pipe
\* has the first part, which is all unless it broke.
OutputInv ==
  /\ loop = "running" =>
       /\ StateMatchesArrived
       /\ \A i \in 1 .. Len(queue) : queue[i] \in Kept
       /\ Lists(written, UpTo(Kept, Len(arrived) - Len(queue)))
  /\ loop = "break" => out = "broken"
  /\ loop # "running" => \E n \in 0 .. Len(arrived) : Lists(written, UpTo(Kept, n))
  /\ NothingLostAtEnd

LEMMA ArrivedStep ==
  ASSUME TypeOK, NEW pid \in PID, arrived' = Append(arrived, pid)
  PROVE  /\ Len(arrived) \in Nat /\ Len(arrived') = Len(arrived) + 1 /\ Now = Len(arrived) + 1
         /\ \A p \in 1 .. Len(arrived) : arrived'[p] = arrived[p]
         /\ arrived'[Len(arrived) + 1] = pid
<1>1. arrived \in Seq(PID)
  BY DEF TypeOK
<1> QED BY <1>1, AppendProperties, LenProperties DEF Now

\* A list of the elements up to m is continued by those from m + 1 on.
LEMMA ListsMore ==
  ASSUME NEW w \in Seq(Nat), NEW K, K \subseteq Nat, NEW m \in Nat, NEW records \in Seq(Nat),
         Lists(w, UpTo(K, m)),
         \A i \in 1 .. Len(records) : records[i] = m + i /\ records[i] \in K,
         NEW k \in 0 .. Len(records)
  PROVE  Lists(w \o SubSeq(records, 1, k), UpTo(K, m + k))
<1> DEFINE r == SubSeq(records, 1, k)
           v == w \o r
<1>1. Len(w) \in Nat /\ Len(records) \in Nat /\ k \in Nat /\ DOMAIN w = 1 .. Len(w)
  BY LenProperties
<1>2. r \in Seq(Nat) /\ Len(r) = k /\ \A i \in 1 .. k : r[i] = records[i]
  <2>1. \A i \in 1 .. k : records[i] \in Nat
    BY <1>1
  <2> QED BY <1>1, <2>1, SubSeqProperties
<1>3. /\ v \in Seq(Nat) /\ Len(v) = Len(w) + k
      /\ \A i \in 1 .. Len(w) : v[i] = w[i]
      /\ \A i \in 1 .. k : v[Len(w) + i] = m + i /\ m + i \in K
  <2>1. /\ v \in Seq(Nat) /\ Len(v) = Len(w) + Len(r)
        /\ \A i \in 1 .. Len(w) + Len(r) : v[i] = IF i <= Len(w) THEN w[i] ELSE r[i - Len(w)]
    BY <1>2, ConcatProperties
  <2>2. ASSUME NEW i \in 1 .. k PROVE v[Len(w) + i] = m + i /\ m + i \in K
    <3>1. v[Len(w) + i] = r[i]
      <4> PICK j \in Int : j = Len(w) + i
        BY <1>1
      <4>1. j \in 1 .. Len(w) + Len(r) /\ ~(j <= Len(w)) /\ j - Len(w) = i
        BY <1>1, <1>2
      <4> HIDE DEF v, r
      <4> QED BY <2>1, <4>1
    <3>2. records[i] = m + i /\ records[i] \in K
      BY <1>1
    <3> QED BY <1>2, <3>1, <3>2
  <2> QED BY <1>1, <1>2, <2>1, <2>2, SMTT(30)
<1>4. DOMAIN v = 1 .. Len(w) + k
  BY <1>3, LenProperties
<1>5. /\ \A i \in 1 .. Len(w) : w[i] \in K /\ w[i] \in Nat /\ w[i] <= m
      /\ \A p \in K : p <= m => \E i \in 1 .. Len(w) : w[i] = p
      /\ \A i, j \in 1 .. Len(w) : i < j => w[i] < w[j]
  BY <1>1 DEF Lists, UpTo
<1> HIDE DEF v, r
<1>6. ASSUME NEW i \in 1 .. Len(w) + k
      PROVE  \/ i \in 1 .. Len(w)
             \/ \E a \in 1 .. k : i = Len(w) + a
  <2>0. i - Len(w) \in Int
    BY <1>1
  <2> PICK a \in Int : a = i - Len(w)
    BY <2>0
  <2>1. i \notin 1 .. Len(w) => a \in 1 .. k /\ i = Len(w) + a
    BY <1>1
  <2> QED BY <2>1
<1>7. \A i \in DOMAIN v : v[i] \in UpTo(K, m + k)
  <2> SUFFICES ASSUME NEW i \in 1 .. Len(w) + k PROVE v[i] \in K /\ v[i] <= m + k
    BY <1>4 DEF UpTo
  <2>1. CASE i \in 1 .. Len(w)
    BY <1>1, <1>3, <1>5, <2>1
  <2>2. ASSUME NEW a \in 1 .. k, i = Len(w) + a PROVE v[i] \in K /\ v[i] <= m + k
    <3>1. v[i] = m + a /\ m + a \in K
      BY <1>3, <2>2
    <3> QED BY <1>1, <3>1
  <2> QED BY <1>6, <2>1, <2>2
<1>8. \A p \in {q \in K : q <= m + k} : \E i \in DOMAIN v : v[i] = p
  <2> SUFFICES ASSUME NEW p \in K, p <= m + k PROVE \E i \in 1 .. Len(w) + k : v[i] = p
    BY <1>4
  <2>1. CASE p <= m
    BY <1>1, <1>3, <1>5, <2>1
  <2>2. CASE p > m
    <3>1. p - m \in 1 .. k /\ m + (p - m) = p
      BY <1>1, <2>2
    <3>2. PICK a \in 1 .. k : p = m + a
      BY <3>1
    <3>3. Len(w) + a \in 1 .. Len(w) + k /\ v[Len(w) + a] = p
      BY <1>1, <1>3, <3>2, SMTT(30)
    <3> QED BY <3>3
  <2>3. p \in Nat
    OBVIOUS
  <2> QED BY <2>1, <2>2, <2>3
<1>9. \A i, j \in DOMAIN v : i < j => v[i] < v[j]
  <2> SUFFICES ASSUME NEW i \in 1 .. Len(w) + k, NEW j \in 1 .. Len(w) + k, i < j
               PROVE  v[i] < v[j]
    BY <1>4
  <2>1. CASE i \in 1 .. Len(w) /\ j \in 1 .. Len(w)
    BY <1>3, <1>5, <2>1
  <2>2. ASSUME i \in 1 .. Len(w), NEW a \in 1 .. k, j = Len(w) + a PROVE v[i] < v[j]
    <3>1. v[i] = w[i] /\ w[i] <= m /\ w[i] \in Nat /\ v[j] = m + a
      BY <1>3, <1>5, <2>2
    <3> QED BY <3>1, <1>1, SMTT(30)
  <2>3. ASSUME NEW a \in 1 .. k, i = Len(w) + a PROVE v[i] < v[j]
    <3>1. j \notin 1 .. Len(w)
      BY <1>1, <2>3
    <3>2. PICK b \in 1 .. k : j = Len(w) + b
      BY <1>6, <3>1
    <3>3. v[i] = m + a /\ v[j] = m + b
      BY <1>3, <2>3, <3>2
    <3>4. a < b
      BY <1>1, <2>3, <3>2
    <3> QED BY <3>3, <3>4, <1>1
  <2> QED BY <1>6, <2>1, <2>2, <2>3
<1> QED BY <1>7, <1>8, <1>9 DEF Lists, UpTo, v, r

\* Writing continues the list, to its end if the pipe does not break.
LEMMA WriteLists ==
  ASSUME NEW K, K \subseteq Nat, NEW m \in Nat, NEW records \in Seq(Nat), written \in Seq(Nat),
         out = "open", Write(records), Lists(written, UpTo(K, m)),
         \A i \in 1 .. Len(records) : records[i] = m + i /\ records[i] \in K
  PROVE  \E n \in Nat : /\ n <= m + Len(records)
                        /\ Lists(written', UpTo(K, n))
                        /\ out' = "open" => n = m + Len(records)
<1>1. PICK k \in 0 .. Len(records) :
        /\ written' = written \o SubSeq(records, 1, k)
        /\ out' = IF k = Len(records) THEN out ELSE "broken"
  BY DEF Write
<1>2. Lists(written', UpTo(K, m + k))
  BY <1>1, ListsMore
<1>3. PICK n \in Nat : n = m + k
  BY LenProperties
<1>4. n <= m + Len(records) /\ (k = Len(records) => n = m + Len(records))
  BY <1>3, LenProperties, SMTT(30)
<1> QED BY <1>1, <1>2, <1>3, <1>4
\* The state is in step with the packets.
LEMMA StateStep ==
  ASSUME IInv, loop = "running", StateMatchesArrived,
         NEW pid \in PID, FilterPacket(pid), arrived' = Append(arrived, pid)
  PROVE  StateMatchesArrived'
<1>0. PICK L \in Nat : L = Len(arrived)
  BY DEF IInv, TypeOK
<1>1. /\ L \in Nat /\ Len(arrived') = L + 1 /\ arrived'[L + 1] = pid
      /\ \A p \in 1 .. L : arrived'[p] = arrived[p]
  BY <1>0, ArrivedStep DEF IInv
<1>2. /\ st \in {"DEFAULT", "SPLIT", "OUT", "EXPECT_NAK"}
      /\ st \in {"DEFAULT", "SPLIT"} => queue = << >>
      /\ st = "OUT" => Len(queue) = 1
      /\ queue \in Seq(Nat)
  BY DEF IInv, TypeOK, QueueMatchesState
<1>3. /\ st = "SPLIT" <=> L >= 1 /\ arrived[L] = "SPLIT"
      /\ st = "OUT" <=> OutAt(L)
      /\ st = "EXPECT_NAK" <=> TokenAt(L) \/ OutDataAt(L)
  BY <1>0 DEF StateMatchesArrived
<1>4. Follows(L + 1)' <=> st # "SPLIT"
  BY <1>1, <1>3 DEF Follows
<1>5. OutAt(L)' <=> OutAt(L)
  BY <1>1 DEF OutAt, Follows
<1>6. /\ TokenAt(L + 1)' <=> st # "SPLIT" /\ pid \in Token
      /\ OutAt(L + 1)' <=> st # "SPLIT" /\ pid = "OUT"
  BY <1>1, <1>4 DEF TokenAt, OutAt
<1>7. OutDataAt(L + 1)' <=> st = "OUT" /\ pid \in Data
  <2>1. (L + 1) - 1 = L /\ (L + 1 >= 2 <=> L >= 1)
    BY <1>1
  <2>2. OutAt(L) => L >= 1
    BY DEF OutAt
  <2>3. OutDataAt(L + 1)' <=> L + 1 >= 2 /\ OutAt(L)' /\ arrived'[L + 1] \in Data
    BY <2>1 DEF OutDataAt
  <2> QED BY <1>1, <1>3, <1>5, <2>1, <2>2, <2>3
<1>8. /\ st' = "SPLIT" <=> pid = "SPLIT"
      /\ st' = "OUT" <=> st # "SPLIT" /\ pid = "OUT"
      /\ st' = "EXPECT_NAK" <=> \/ st # "SPLIT" /\ pid \in Token
                                \/ st = "OUT" /\ pid \in Data
      /\ st' = "EXPECT_NAK" /\ pid \in Token => Len(queue') = 1
      /\ st' = "EXPECT_NAK" /\ pid \in Data => Len(queue') = 2
  <2>1. Len(<<Now>>) = 1 /\ Len(Append(queue, Now)) = Len(queue) + 1 /\ Len(queue) \in Nat
    BY <1>2, NowFacts DEF IInv
  <2>2. CASE UninterestingSof(pid)
    BY <2>2 DEF UninterestingSof, Token, Data
  <2>3. CASE InterruptingSof(pid) \/ Split(pid) \/ AfterSplit(pid)
    BY <1>2, <2>3 DEF InterruptingSof, Split, AfterSplit, ForwardAll, Token, Data
  <2>4. CASE OutToken(pid) \/ InOrPing(pid)
    BY <2>1, <2>4 DEF OutToken, InOrPing, HoldBack, Token, Data
  <2>5. CASE OutData(pid)
    <3>1. pid \in Data /\ st = "OUT" /\ queue' = Append(queue, Now) /\ st' = "EXPECT_NAK"
      BY <2>5 DEF OutData
    <3>2. Len(queue') = Len(queue) + 1 /\ Len(queue) = 1
      BY <1>2, <2>1, <3>1
    <3>3. pid \notin Token /\ pid # "OUT" /\ pid # "SPLIT"
      BY <3>1 DEF Token, Data
    <3> QED BY <3>1, <3>2, <3>3
  <2>6. CASE Nak(pid) \/ AnyOther(pid)
    BY <2>6 DEF Nak, AnyOther, ForwardAll, Token, Data
  <2> QED BY <2>2, <2>3, <2>4, <2>5, <2>6 DEF FilterPacket
<1>9. Token \cap Data = {}
  BY DEF Token, Data
<1> QED BY <1>1, <1>6, <1>7, <1>8, <1>9 DEF StateMatchesArrived

\* A NAK takes from the packets that are to be written those held back; of the new
\* packet it depends on the state, as was to be shown.
LEMMA KeptStep ==
  ASSUME IInv, loop = "running", StateMatchesArrived,
         NEW pid \in PID, arrived' = Append(arrived, pid), filters' = filters
  PROVE  LET naked == "naks" \in filters /\ pid = "NAK" /\ st = "EXPECT_NAK"
             sof == "sofs" \in filters /\ pid = "SOF" /\ st = "DEFAULT"
         IN  Kept' = {p \in Kept : naked => p <= Len(arrived) - Len(queue)}
                     \cup {p \in {Now} : ~naked /\ ~sof}
<1>0. PICK L \in Nat : L = Len(arrived)
  BY DEF IInv, TypeOK
<1> DEFINE naked == "naks" \in filters /\ pid = "NAK" /\ st = "EXPECT_NAK"
           sof == "sofs" \in filters /\ pid = "SOF" /\ st = "DEFAULT"
<1>1. /\ L \in Nat /\ Len(arrived') = L + 1 /\ arrived'[L + 1] = pid /\ Now = L + 1
      /\ \A p \in 1 .. L : arrived'[p] = arrived[p]
  BY <1>0, ArrivedStep DEF IInv
<1>2. /\ st \in {"DEFAULT", "SPLIT", "OUT", "EXPECT_NAK"}
      /\ st = "SPLIT" <=> L >= 1 /\ arrived[L] = "SPLIT"
      /\ st = "OUT" <=> OutAt(L)
      /\ st = "EXPECT_NAK" <=> TokenAt(L) \/ OutDataAt(L)
      /\ st = "EXPECT_NAK" => Len(queue) = IF TokenAt(L) THEN 1 ELSE 2
  BY <1>0 DEF StateMatchesArrived, IInv, TypeOK
<1>20. /\ TokenAt(L) => L >= 1 /\ ~OutDataAt(L)
       /\ OutDataAt(L) => L >= 2
  BY DEF TokenAt, OutDataAt, Token, Data
<1>21. PICK c \in Nat :
         st = "EXPECT_NAK" => /\ c \in 1 .. L /\ Len(queue) \in Nat /\ L - Len(queue) = c - 1
                              /\ c = IF TokenAt(L) THEN L ELSE L - 1
  <2>1. CASE TokenAt(L)
    <3>1. st = "EXPECT_NAK" /\ Len(queue) = 1 /\ L >= 1
      BY <1>2, <1>20, <2>1
    <3>2. L \in 1 .. L /\ Len(queue) \in Nat /\ L - Len(queue) = L - 1
      BY <3>1
    <3> QED BY <2>1, <3>2
  <2>2. CASE OutDataAt(L)
    <3>1. st = "EXPECT_NAK" /\ ~TokenAt(L) /\ L >= 2
      BY <1>2, <1>20, <2>2
    <3>2. Len(queue) = 2
      BY <1>2, <3>1
    <3>3. PICK d \in Nat : d = L - 1
      BY <3>1
    <3>4. d \in 1 .. L /\ Len(queue) \in Nat /\ L - Len(queue) = d - 1
      BY <3>1, <3>2, <3>3
    <3> QED BY <3>1, <3>3, <3>4
  <2> QED BY <1>2, <2>1, <2>2
<1>3. \A p \in 1 .. L : Follows(p)' <=> Follows(p)
  BY <1>1 DEF Follows
<1>4. ASSUME NEW a \in 1 .. L, NEW b \in 1 .. L PROVE Naked(a, b)' <=> Naked(a, b)
  BY <1>1, <1>3 DEF Naked
<1>5. ASSUME NEW a \in 1 .. L + 1
      PROVE  Naked(a, L + 1)' <=> pid = "NAK" /\ st = "EXPECT_NAK" /\ a = c
  <2>1. Naked(a, L + 1)' <=> /\ Follows(a)' /\ pid = "NAK"
                             /\ \/ a = L /\ arrived'[a] \in Token
                                \/ a = L - 1 /\ arrived'[a] = "OUT" /\ arrived'[a + 1] \in Data
    BY <1>1 DEF Naked
  <2>2. CASE a = L + 1
    <3>1. ~(L + 1 = L) /\ ~(L + 1 = L - 1) /\ (st = "EXPECT_NAK" => a # c)
      BY <1>21, <2>2
    <3>2. ~Naked(a, L + 1)'
      BY <2>1, <2>2, <3>1
    <3> QED BY <3>1, <3>2
  <2>3. CASE a = L
    <3>1. (Follows(a)' <=> Follows(a)) /\ arrived'[a] = arrived[a] /\ a # L - 1 /\ a >= 1
      BY <1>1, <1>3, <2>3
    <3>2. Naked(a, L + 1)' <=> pid = "NAK" /\ TokenAt(L)
      BY <2>1, <2>3, <3>1 DEF TokenAt
    <3>3. TokenAt(L) <=> st = "EXPECT_NAK" /\ c = L
      BY <1>2, <1>21
    <3> QED BY <2>3, <3>2, <3>3
  <2>4. CASE a = L - 1
    <3>1. /\ Follows(a)' <=> Follows(a)
          /\ arrived'[a] = arrived[a] /\ arrived'[a + 1] = arrived[L] /\ a # L
          /\ L >= 2 /\ L - 1 >= 1
      BY <1>1, <1>3, <2>4
    <3>2. Naked(a, L + 1)' <=> pid = "NAK" /\ OutDataAt(L)
      BY <2>1, <2>4, <3>1 DEF OutDataAt, OutAt
    <3>3. OutDataAt(L) <=> st = "EXPECT_NAK" /\ c = L - 1
      BY <1>2, <1>20, <1>21
    <3> QED BY <2>4, <3>2, <3>3
  <2>5. CASE a < L - 1
    <3>1. ~(a = L) /\ ~(a = L - 1) /\ (st = "EXPECT_NAK" => a # c)
      BY <1>21, <2>5
    <3> QED BY <2>1, <3>1
  <2> QED BY <2>2, <2>3, <2>4, <2>5
<1>6. ASSUME NEW p \in 1 .. L PROVE Interrupting(p)' <=> Interrupting(p)
  BY <1>1, <1>3 DEF Interrupting
<1>7. Interrupting(L + 1)' <=> st # "DEFAULT"
  <2>1. Interrupting(L + 1)' <=>
          \/ L >= 1 /\ arrived[L] = "SPLIT"
          \/ L >= 1 /\ Follows(L) /\ arrived[L] \in Token \cup {"OUT"}
          \/ L >= 2 /\ Follows(L - 1) /\ arrived[L - 1] = "OUT" /\ arrived[L] \in Data
    BY <1>1, <1>3 DEF Interrupting
  <2>2. Interrupting(L + 1)' <=>
          \/ L >= 1 /\ arrived[L] = "SPLIT"
          \/ TokenAt(L) \/ OutAt(L) \/ OutDataAt(L)
    BY <1>1, <2>1 DEF TokenAt, OutAt, OutDataAt
  <2> QED BY <1>2, <2>2
<1>8. ASSUME NEW p \in 1 .. L
      PROVE  Filtered(p)' <=> Filtered(p) \/ (naked /\ p > L - Len(queue))
  <2>1. (\E a, b \in 1 .. L + 1 : a <= p /\ p <= b /\ Naked(a, b)')
          <=> \/ \E a, b \in 1 .. L : a <= p /\ p <= b /\ Naked(a, b)
              \/ \E a \in 1 .. L + 1 : a <= p /\ Naked(a, L + 1)'
    BY <1>1, <1>4, SMTT(30)
  <2>2. (\E a \in 1 .. L + 1 : a <= p /\ Naked(a, L + 1)')
          <=> pid = "NAK" /\ st = "EXPECT_NAK" /\ p > L - Len(queue)
    <3>1. st = "EXPECT_NAK" => (c <= p <=> p > L - Len(queue)) /\ c \in 1 .. L + 1
      BY <1>21
    <3> QED BY <1>5, <3>1
  <2>3. Filtered(p)' <=>
          \/ "naks" \in filters /\ \E a, b \in 1 .. L + 1 : a <= p /\ p <= b /\ Naked(a, b)'
          \/ "sofs" \in filters /\ arrived[p] = "SOF" /\ ~Interrupting(p)
    BY <1>1, <1>6 DEF Filtered
  <2>4. Filtered(p) <=>
          \/ "naks" \in filters /\ \E a, b \in 1 .. L : a <= p /\ p <= b /\ Naked(a, b)
          \/ "sofs" \in filters /\ arrived[p] = "SOF" /\ ~Interrupting(p)
    BY <1>0 DEF Filtered
  <2> QED BY <2>1, <2>2, <2>3, <2>4
<1>9. Filtered(L + 1)' <=> naked \/ sof
  <2>1. (\E a, b \in 1 .. L + 1 : a <= L + 1 /\ L + 1 <= b /\ Naked(a, b)')
          <=> \E a \in 1 .. L + 1 : Naked(a, L + 1)'
    BY <1>1
  <2>2. (\E a \in 1 .. L + 1 : Naked(a, L + 1)') <=> pid = "NAK" /\ st = "EXPECT_NAK"
    <3>1. st = "EXPECT_NAK" => c \in 1 .. L + 1
      BY <1>21
    <3> QED BY <1>5, <3>1
  <2>3. Filtered(L + 1)' <=>
          \/ "naks" \in filters /\ \E a, b \in 1 .. L + 1 : a <= L + 1 /\ L + 1 <= b /\ Naked(a, b)'
          \/ "sofs" \in filters /\ pid = "SOF" /\ ~Interrupting(L + 1)'
    BY <1>1 DEF Filtered
  <2> QED BY <1>7, <2>1, <2>2, <2>3
<1>10. Kept' = {p \in 1 .. L + 1 : ~Filtered(p)'}
  BY <1>1 DEF Kept
<1>11. Len(queue) \in Nat
  BY DEF IInv, TypeOK
<1> HIDE DEF naked, sof
<1>12. Kept' = {p \in Kept : naked => p <= L - Len(queue)} \cup {p \in {L + 1} : ~naked /\ ~sof}
  BY <1>1, <1>8, <1>9, <1>10, <1>0, <1>11 DEF Kept
<1> QED BY <1>0, <1>1, <1>12 DEF naked, sof

LEMMA HandlerOutputOpen ==
  ASSUME IInv, OutputInv, out = "open", NEW pid \in PID, PacketHandler(pid)
  PROVE  OutputInv'
<1>1. /\ loop = "running" /\ FilterPacket(pid) /\ arrived' = Append(arrived, pid)
      /\ filters' = filters /\ loop' = IF out' # "open" THEN "break" ELSE loop
  BY DEF PacketHandler, BreakIfBroken
<1>2. /\ StateMatchesArrived /\ StateMatchesArrived'
      /\ \A i \in 1 .. Len(queue) : queue[i] \in Kept
      /\ Lists(written, UpTo(Kept, Len(arrived) - Len(queue)))
  BY <1>1, StateStep DEF OutputInv
<1>3. PICK L \in Nat : L = Len(arrived)
  BY DEF IInv, TypeOK
<1>4. PICK q \in Nat : q = Len(queue)
  BY DEF IInv, TypeOK
<1>5. /\ Len(arrived') = L + 1 /\ Now = L + 1 /\ out = "open" /\ written \in Seq(Nat)
      /\ queue \in Seq(Nat) /\ out' \in {"open", "broken"}
      /\ st \in {"DEFAULT", "SPLIT"} => q = 0 /\ queue = << >>
      /\ st = "OUT" => q = 1
      /\ \A i \in 1 .. q : queue[i] = L - q + i /\ queue[i] \in Kept
  <2>1. out = "open" /\ out' \in {"open", "broken"}
    BY <1>1, FilterTypes
  <2>2. st \in {"DEFAULT", "SPLIT"} => queue = << >>
    BY <1>1 DEF IInv, QueueMatchesState
  <2> QED BY <1>1, <1>2, <1>3, <1>4, <2>1, <2>2, ArrivedStep, EmptySeq DEF IInv, QueueMatchesState, TypeOK
<1> DEFINE naked == "naks" \in filters /\ pid = "NAK" /\ st = "EXPECT_NAK"
           sof == "sofs" \in filters /\ pid = "SOF" /\ st = "DEFAULT"
<1>6. Kept' = {p \in Kept : naked => p <= L - q} \cup {p \in {L + 1} : ~naked /\ ~sof}
  BY <1>1, <1>2, <1>3, <1>4, <1>5, KeptStep
<1>7. Kept \subseteq 1 .. L
  BY <1>3 DEF Kept
<1>8. q <= L
  <2>1. q > 0 => queue[1] = L - q + 1 /\ queue[1] \in 1 .. L
    BY <1>5, <1>7
  <2> QED BY <2>1
<1>9. PICK m \in Nat : m = L - q
  BY <1>8
<1>10. Lists(written, UpTo(Kept', m))
  <2>1. UpTo(Kept', m) = UpTo(Kept, L - q)
    BY <1>6, <1>7, <1>9 DEF UpTo
  <2> QED BY <1>2, <1>3, <1>4, <2>1
<1>11. ASSUME NEW p \in Kept' PROVE p \in 1 .. L + 1 /\ p \in Nat
  <2>1. CASE p \in Kept
    BY <1>7, <2>1
  <2>2. CASE p = L + 1
    BY <2>2
  <2> QED BY <1>6, <2>1, <2>2
<1> HIDE DEF naked, sof
\* What must be shown of each branch
<1>12. ASSUME NEW n \in Nat, n <= L + 1, Lists(written', UpTo(Kept', n)),
              out' = "open" => /\ Len(queue') \in Nat /\ n = L + 1 - Len(queue')
                               /\ \A i \in 1 .. Len(queue') : queue'[i] \in Kept'
       PROVE  OutputInv'
  <2>1. n \in 0 .. Len(arrived')
    BY <1>5, <1>12
  <2>2. loop' \in {"running", "break"} /\ (loop' = "running" <=> out' = "open")
    BY <1>1, <1>5
  <2>3. loop' = "running" => Lists(written', UpTo(Kept', Len(arrived') - Len(queue')))
    <3> SUFFICES ASSUME loop' = "running"
                 PROVE  Lists(written', UpTo(Kept', Len(arrived') - Len(queue')))
      OBVIOUS
    <3>1. n = Len(arrived') - Len(queue')
      BY <1>5, <1>12, <2>2
    <3> QED BY <1>12, <3>1
  <2> QED BY <1>2, <1>5, <1>12, <2>1, <2>2, <2>3 DEF OutputInv, NothingLostAtEnd
\* A branch that writes records
<1>13. ASSUME NEW records \in Seq(Nat), Write(records),
              \A i \in 1 .. Len(records) : records[i] = m + i /\ records[i] \in Kept',
              Len(queue') \in Nat, m + Len(records) = L + 1 - Len(queue'),
              \A i \in 1 .. Len(queue') : queue'[i] \in Kept'
       PROVE  OutputInv'
  <2>1. PICK n \in Nat : /\ n <= m + Len(records)
                         /\ Lists(written', UpTo(Kept', n))
                         /\ out' = "open" => n = m + Len(records)
    <3>1. PICK K : K = Kept'
      OBVIOUS
    <3>2. K \subseteq Nat /\ Lists(written, UpTo(K, m))
      BY <1>10, <1>11, <3>1
    <3>3. \A i \in 1 .. Len(records) : records[i] = m + i /\ records[i] \in K
      BY <1>13, <3>1
    <3>4. \E n \in Nat : /\ n <= m + Len(records)
                         /\ Lists(written', UpTo(K, n))
                         /\ out' = "open" => n = m + Len(records)
      BY <1>5, <1>13, <3>2, <3>3, WriteLists
    <3>5. PICK n \in Nat : /\ n <= m + Len(records)
                           /\ Lists(written', UpTo(K, n))
                           /\ out' = "open" => n = m + Len(records)
      BY <3>4
    <3>6. UpTo(K, n) = UpTo(Kept', n)
      BY <3>1
    <3>7. Lists(written', UpTo(Kept', n))
      BY <3>5, <3>6
    <3> QED BY <3>5, <3>7
  <2> QED BY <1>12, <1>13, <2>1
\* and one that writes nothing
<1>14. ASSUME UNCHANGED <<written, out>>, Len(queue') \in Nat, m <= L + 1 - Len(queue'),
              \A p \in Kept' : p > m => p > L + 1 - Len(queue'),
              \A i \in 1 .. Len(queue') : queue'[i] \in Kept'
       PROVE  OutputInv'
  <2>1. PICK n \in Nat : n = L + 1 - Len(queue')
    BY <1>14
  <2>2. UpTo(Kept', n) = UpTo(Kept', m)
    <3>1. m \in Nat /\ n \in Nat /\ m <= n /\ \A p \in Kept' : p \in Nat /\ (p > m => p > n)
      BY <1>11, <1>14, <2>1
    <3>2. ASSUME NEW p \in Kept' PROVE p <= n <=> p <= m
      BY <3>1
    <3> QED BY <3>2 DEF UpTo
  <2>3. n <= L + 1
    BY <1>14, <2>1
  <2> QED BY <1>10, <1>12, <1>14, <2>1, <2>2, <2>3
<1>15. /\ <<Now>> \in Seq(Nat) /\ Len(<<Now>>) = 1 /\ <<Now>>[1] = L + 1
       /\ Append(queue, Now) \in Seq(Nat) /\ Len(Append(queue, Now)) = q + 1
       /\ \A i \in 1 .. q : Append(queue, Now)[i] = queue[i]
       /\ Append(queue, Now)[q + 1] = L + 1
       /\ << >> \in Seq(Nat) /\ Len(<< >>) = 0
  BY <1>4, <1>5, NowFacts, AppendProperties, EmptySeq DEF IInv
\* The packets held back and this one follow on what is written.
<1>16. ASSUME ~naked, ~sof
       PROVE  /\ L + 1 \in Kept' /\ Kept \subseteq Kept'
              /\ \A i \in 1 .. q + 1 : Append(queue, Now)[i] = m + i /\ Append(queue, Now)[i] \in Kept'
  <2>1. L + 1 \in Kept' /\ Kept \subseteq Kept'
    BY <1>6, <1>16
  <2>2. ASSUME NEW i \in 1 .. q + 1
        PROVE  Append(queue, Now)[i] = m + i /\ Append(queue, Now)[i] \in Kept'
    <3>1. CASE i \in 1 .. q
      BY <1>5, <1>9, <1>15, <2>1, <3>1
    <3>2. CASE i = q + 1
      BY <1>9, <1>15, <2>1, <3>2
    <3>3. i \in 1 .. q \/ i = q + 1
      BY <1>4
    <3> QED BY <3>1, <3>2, <3>3
  <2> QED BY <2>1, <2>2
<1>17. ASSUME ~naked, ~sof, Write(Append(queue, Now)), queue' = << >> PROVE OutputInv'
  <2>1. PICK records \in Seq(Nat) : records = Append(queue, Now)
    BY <1>15
  <2>2. Len(records) = q + 1 /\ Len(queue') = 0 /\ m + (q + 1) = L + 1 - 0
    BY <1>9, <1>15, <1>17, <2>1
  <2>3. \A i \in 1 .. Len(records) : records[i] = m + i /\ records[i] \in Kept'
    BY <1>16, <1>17, <2>1, <2>2
  <2>4. /\ Write(records) /\ Len(queue') \in Nat /\ m + Len(records) = L + 1 - Len(queue')
        /\ \A i \in 1 .. Len(queue') : queue'[i] \in Kept'
    BY <1>17, <2>1, <2>2
  <2> QED BY <1>13, <2>3, <2>4
<1>17b. ASSUME ~naked, ~sof, q = 0, queue' = << >>, Write(<<Now>>) PROVE OutputInv'
  <2>1. PICK records \in Seq(Nat) : records = <<Now>>
    BY <1>15
  <2>2. Len(records) = 1 /\ Len(queue') = 0 /\ m + 1 = L + 1 - 0
    BY <1>9, <1>15, <1>17b, <2>1
  <2>3. \A i \in 1 .. Len(records) : records[i] = m + i /\ records[i] \in Kept'
    BY <1>9, <1>15, <1>16, <1>17b, <2>1, <2>2
  <2>4. /\ Write(records) /\ Len(queue') \in Nat /\ m + Len(records) = L + 1 - Len(queue')
        /\ \A i \in 1 .. Len(queue') : queue'[i] \in Kept'
    BY <1>17b, <2>1, <2>2
  <2> QED BY <1>13, <2>3, <2>4
<1>18. CASE UninterestingSof(pid)
  <2>1. queue' = << >> /\ q = 0 /\ m = L /\ ~naked /\ queue = << >>
        /\ Write(IF "sofs" \in filters THEN << >> ELSE <<Now>>) /\ pid = "SOF" /\ st = "DEFAULT"
    BY <1>5, <1>9, <1>18 DEF UninterestingSof, naked, sof
  <2>2. CASE sof
    <3>1. UNCHANGED <<written, out>>
      <4>1. Write(<< >>)
        BY <2>1, <2>2 DEF naked, sof
      <4>2. PICK k \in 0 .. Len(<< >>) : /\ written' = written \o SubSeq(<< >>, 1, k)
                                         /\ out' = IF k = Len(<< >>) THEN out ELSE "broken"
        BY <1>5, <4>1 DEF Write
      <4>3. k = 0 /\ SubSeq(<< >>, 1, 0) = << >> /\ written \o << >> = written
        BY <1>5, <1>15, <4>2, ConcatEmptySeq, SubSeqEmpty
      <4> QED BY <1>5, <1>15, <4>2, <4>3
    <3>2. \A p \in Kept' : ~(p > m)
      BY <1>6, <1>7, <2>1, <2>2
    <3> QED BY <1>14, <1>15, <2>1, <3>1, <3>2
  <2>3. CASE ~sof
    <3>1. Write(<<Now>>)
      BY <2>1, <2>3 DEF sof
    <3> QED BY <1>17b, <2>1, <2>3, <3>1
  <2> QED BY <2>2, <2>3
<1>19. CASE InterruptingSof(pid) \/ Split(pid) \/ AnyOther(pid)
  <2>1. ~naked /\ ~sof /\ Write(Append(queue, Now)) /\ queue' = << >>
    BY <1>19 DEF InterruptingSof, Split, AnyOther, ForwardAll, naked, sof
  <2> QED BY <1>17, <2>1
<1>20. CASE AfterSplit(pid)
  <2>1. queue' = << >> /\ q = 0 /\ m = L /\ ~naked /\ ~sof /\ Write(<<Now>>)
    BY <1>5, <1>9, <1>20 DEF AfterSplit, naked, sof
  <2> QED BY <1>17b, <2>1
<1>21. CASE OutToken(pid) \/ InOrPing(pid)
  <2>1. ~naked /\ ~sof /\ Write(queue) /\ queue' = <<Now>>
    BY <1>21 DEF OutToken, InOrPing, HoldBack, Token, naked, sof
  <2>2. L + 1 \in Kept' /\ Kept \subseteq Kept'
    BY <1>16, <2>1
  <2>3. \A i \in 1 .. Len(queue) : queue[i] = m + i /\ queue[i] \in Kept'
    BY <1>4, <1>5, <1>9, <2>2
  <2>4. m + Len(queue) = L + 1 - Len(queue')
    BY <1>4, <1>9, <1>15, <2>1
  <2> QED BY <1>5, <1>13, <1>15, <2>1, <2>2, <2>3, <2>4
<1>22. CASE OutData(pid)
  <2>1. /\ ~naked /\ ~sof /\ UNCHANGED <<written, out>> /\ queue' = Append(queue, Now) /\ q = 1
    BY <1>5, <1>22 DEF OutData, Data, naked, sof
  <2>2. \A i \in 1 .. q + 1 : queue'[i] \in Kept'
    BY <1>16, <2>1
  <2>3. Len(queue') = q + 1 /\ m = L + 1 - (q + 1)
    BY <1>9, <1>15, <2>1
  <2> QED BY <1>14, <2>1, <2>2, <2>3
<1>23. CASE Nak(pid)
  <2>1. /\ pid = "NAK" /\ st = "EXPECT_NAK" /\ queue' = << >> /\ ~sof
        /\ Write(IF "naks" \in filters THEN << >> ELSE Append(queue, Now))
    BY <1>23 DEF Nak, sof
  <2>2. CASE naked
    <3>1. UNCHANGED <<written, out>>
      <4>1. Write(<< >>)
        BY <2>1, <2>2 DEF naked, sof
      <4>2. PICK k \in 0 .. Len(<< >>) : /\ written' = written \o SubSeq(<< >>, 1, k)
                                         /\ out' = IF k = Len(<< >>) THEN out ELSE "broken"
        BY <1>5, <4>1 DEF Write
      <4>3. k = 0 /\ SubSeq(<< >>, 1, 0) = << >> /\ written \o << >> = written
        BY <1>5, <1>15, <4>2, ConcatEmptySeq, SubSeqEmpty
      <4> QED BY <1>5, <1>15, <4>2, <4>3
    <3>2. \A p \in Kept' : ~(p > m)
      BY <1>6, <1>7, <1>9, <2>2
    <3>3. m <= L + 1 - 0
      BY <1>9
    <3> QED BY <1>14, <1>15, <2>1, <3>1, <3>2, <3>3
  <2>3. CASE ~naked
    BY <1>17, <2>1, <2>3 DEF naked
  <2> QED BY <2>2, <2>3
<1> QED BY <1>1, <1>18, <1>19, <1>20, <1>21, <1>22, <1>23 DEF FilterPacket

\* The first packet, with the pipe broken by the header, is not written.
LEMMA HandlerOutputBroken ==
  ASSUME IInv, out # "open", NEW pid \in PID, PacketHandler(pid)
  PROVE  OutputInv'
<1>1. loop = "running" /\ FilterPacket(pid) /\ loop' = IF out' # "open" THEN "break" ELSE loop
  BY DEF PacketHandler, BreakIfBroken
<1>2. UNCHANGED <<written, out>>
  BY <1>1 DEF FilterPacket, UninterestingSof, InterruptingSof, Split, AfterSplit, OutToken,
     OutData, InOrPing, Nak, AnyOther, ForwardAll, HoldBack, Write
<1>3. written = << >> /\ loop' = "break" /\ out' = "broken"
  BY <1>1, <1>2 DEF IInv, TypeOK, BreakInv
<1>4. PICK L \in Nat : L = Len(arrived')
  BY HandlerIInv DEF IInv, TypeOK
<1>5. PICK K : K = Kept' /\ K \subseteq 1 .. L
  BY <1>4 DEF Kept
<1>6. Lists(<< >>, UpTo(K, 0))
  BY <1>5 DEF Lists, UpTo
<1>7. \E n \in 0 .. L : Lists(<< >>, UpTo(K, n))
  BY <1>6
<1>8. \E n \in 0 .. Len(arrived') : Lists(written', UpTo(Kept', n))
  BY <1>2, <1>3, <1>4, <1>5, <1>7
<1> QED
  BY <1>3, <1>8 DEF OutputInv, NothingLostAtEnd

LEMMA HandlerOutput ==
  ASSUME IInv, OutputInv, NEW pid \in PID, PacketHandler(pid)
  PROVE  OutputInv'
BY HandlerOutputOpen, HandlerOutputBroken

LEMMA EndOutput ==
  ASSUME IInv, OutputInv, EndOfCapture
  PROVE  OutputInv'
<1>1. /\ loop # "ended" /\ loop' = "ended" /\ queue' = << >>
      /\ UNCHANGED <<filters, st, arrived>>
      /\ Write(IF "naks" \in filters THEN << >> ELSE queue)
  BY DEF EndOfCapture
<1>2. Kept' = Kept
  BY <1>1 DEF Kept, Filtered, Naked, Interrupting, Follows
<1>3. PICK L \in Nat : L = Len(arrived) /\ L = Len(arrived')
  BY <1>1 DEF IInv, TypeOK
<1>4. Kept \subseteq 1 .. L /\ Kept \subseteq Nat
  BY <1>3 DEF Kept
<1>5. CASE out # "open"
  <2>1. UNCHANGED <<written, out>>
    BY <1>1, <1>5 DEF Write
  <2>2. \E n \in 0 .. Len(arrived) : Lists(written, UpTo(Kept, n))
    <3>1. CASE loop # "running"
      BY <3>1 DEF OutputInv
    <3>2. CASE loop = "running"
      <4>1. written = << >>
        BY <1>5, <3>2 DEF IInv, TypeOK, BreakInv
      <4>2. Lists(<< >>, UpTo(Kept, 0))
        BY <1>4 DEF Lists, UpTo
      <4> QED
        BY <1>3, <4>1, <4>2
    <3> QED
      BY <3>1, <3>2
  <2> QED BY <1>1, <1>2, <1>5, <2>1, <2>2 DEF OutputInv, NothingLostAtEnd
<1>6. CASE out = "open"
  <2>1. loop = "running"
    BY <1>1, <1>6 DEF OutputInv, IInv, TypeOK
  <2>2. /\ \A i \in 1 .. Len(queue) : queue[i] \in Kept
        /\ Lists(written, UpTo(Kept, L - Len(queue)))
    BY <1>3, <2>1 DEF OutputInv
  <2>3. /\ \A i \in 1 .. Len(queue) : queue[i] = L - Len(queue) + i
        /\ Len(queue) \in Nat /\ queue \in Seq(Nat) /\ written \in Seq(Nat) /\ << >> \in Seq(Nat)
        /\ Len(<< >>) = 0
    BY <1>3, <2>1, EmptySeq DEF IInv, TypeOK, QueueMatchesState
  <2>4. Len(queue) <= L
    <3>1. Len(queue) > 0 => queue[1] = L - Len(queue) + 1 /\ queue[1] \in 1 .. L
      BY <1>4, <2>2, <2>3
    <3> QED BY <2>3, <3>1
  <2>5. PICK m \in Nat : m = L - Len(queue)
    <3>1. L - Len(queue) \in Nat
      BY <2>3, <2>4
    <3> QED BY <3>1
  <2>6. PICK records \in {<< >>, queue} :
          /\ Write(records)
          /\ "naks" \notin filters => records = queue
    BY <1>1
  <2>7. \A i \in 1 .. Len(records) : records[i] = m + i /\ records[i] \in Kept
    BY <2>2, <2>3, <2>5, <2>6
  <2>8. PICK n \in Nat : /\ n <= m + Len(records)
                         /\ Lists(written', UpTo(Kept, n))
                         /\ out' = "open" => n = m + Len(records)
    <3>1. records \in Seq(Nat) /\ Lists(written, UpTo(Kept, m))
      BY <2>2, <2>3, <2>5, <2>6
    <3>2. PICK K : K = Kept
      OBVIOUS
    <3>3. /\ K \subseteq Nat /\ Lists(written, UpTo(K, m))
          /\ \A i \in 1 .. Len(records) : records[i] = m + i /\ records[i] \in K
      BY <1>4, <2>7, <3>1, <3>2
    <3>4. \E n \in Nat : /\ n <= m + Len(records)
                         /\ Lists(written', UpTo(K, n))
                         /\ out' = "open" => n = m + Len(records)
      BY <1>6, <2>3, <2>6, <3>1, <3>3, WriteLists
    <3>5. PICK n \in Nat : /\ n <= m + Len(records)
                           /\ Lists(written', UpTo(K, n))
                           /\ out' = "open" => n = m + Len(records)
      BY <3>4
    <3>6. UpTo(K, n) = UpTo(Kept, n)
      BY <3>2
    <3>7. Lists(written', UpTo(Kept, n))
      BY <3>5, <3>6
    <3> QED BY <3>5, <3>7
  <2>9. n \in 0 .. L
    BY <2>3, <2>5, <2>6, <2>8
  <2>10. out' = "open" /\ "naks" \notin filters => Lists(written', Kept)
    <3> SUFFICES ASSUME out' = "open", "naks" \notin filters PROVE Lists(written', Kept)
      OBVIOUS
    <3>1. n = L
      BY <2>3, <2>5, <2>6, <2>8
    <3>2. UpTo(Kept, n) = Kept
      <4>1. \A p \in Kept : p <= n
        BY <1>4, <3>1
      <4> QED BY <4>1 DEF UpTo
    <3> QED BY <2>8, <3>2
  <2> QED BY <1>1, <1>2, <1>3, <2>8, <2>9, <2>10 DEF OutputInv, NothingLostAtEnd
<1> QED BY <1>5, <1>6

LEMMA OutputInit == Init => OutputInv
<1> SUFFICES ASSUME Init PROVE OutputInv
  OBVIOUS
<1>1. arrived = << >> /\ Len(arrived) = 0 /\ queue = << >> /\ Len(queue) = 0
      /\ written = << >> /\ st = "DEFAULT" /\ loop = "running" /\ DOMAIN written = {}
  BY EmptySeq DEF Init
<1>2. Kept = {}
  BY <1>1 DEF Kept
<1>3. StateMatchesArrived
  BY <1>1 DEF StateMatchesArrived, OutAt, TokenAt, OutDataAt
<1>4. Lists(written, UpTo(Kept, Len(arrived) - Len(queue)))
  BY <1>1, <1>2 DEF Lists, UpTo
<1> QED BY <1>1, <1>3, <1>4 DEF OutputInv, NothingLostAtEnd

LEMMA OutputStep == IInv /\ OutputInv /\ [Next]_vars => OutputInv'
<1> SUFFICES ASSUME IInv, OutputInv, [Next]_vars PROVE OutputInv'
  OBVIOUS
<1>1. CASE \E pid \in PID : PacketHandler(pid)
  BY <1>1, HandlerOutput
<1>2. CASE EndOfCapture
  BY <1>2, EndOutput
<1>3. CASE UNCHANGED vars
  <2>1. Kept' = Kept /\ (StateMatchesArrived' <=> StateMatchesArrived)
    BY <1>3 DEF vars, Kept, Filtered, Naked, Interrupting, Follows, StateMatchesArrived,
                TokenAt, OutAt, OutDataAt
  <2> QED BY <1>3, <2>1 DEF vars, OutputInv, NothingLostAtEnd
<1> QED BY <1>1, <1>2, <1>3 DEF Next

\* While packets arrive, what is written and then what is held back list what is to
\* be written.
LEMMA QueueCompletes ==
  ASSUME IInv, OutputInv, loop = "running"
  PROVE  /\ Lists(written \o queue, Kept)
         /\ \E n \in 0 .. Len(arrived) : Lists(written, UpTo(Kept, n))
<1>1. PICK L \in Nat : L = Len(arrived)
  BY DEF IInv, TypeOK
<1>2. /\ \A i \in 1 .. Len(queue) : queue[i] \in Kept
      /\ Lists(written, UpTo(Kept, L - Len(queue)))
  BY <1>1 DEF OutputInv
<1>3. /\ \A i \in 1 .. Len(queue) : queue[i] = L - Len(queue) + i
      /\ Len(queue) \in Nat /\ queue \in Seq(Nat) /\ written \in Seq(Nat)
  BY <1>1 DEF IInv, TypeOK, QueueMatchesState
<1>4. Kept \subseteq 1 .. L /\ Kept \subseteq Nat
  BY <1>1 DEF Kept
<1>5. Len(queue) <= L
  <2>1. Len(queue) > 0 => queue[1] = L - Len(queue) + 1 /\ queue[1] \in 1 .. L
    BY <1>2, <1>3, <1>4
  <2> QED BY <1>3, <2>1
<1>6. PICK m \in Nat : m = L - Len(queue)
  <2>1. L - Len(queue) \in Nat
    BY <1>3, <1>5
  <2> QED BY <2>1
<1>7. SubSeq(queue, 1, Len(queue)) = queue
  BY <1>3, SubSeqFull
<1>8. UpTo(Kept, m + Len(queue)) = Kept
  <2>1. m + Len(queue) = L
    BY <1>3, <1>6
  <2>2. \A p \in Kept : p <= L
    BY <1>4
  <2> QED BY <2>1, <2>2 DEF UpTo
<1>9. Lists(written \o SubSeq(queue, 1, Len(queue)), UpTo(Kept, m + Len(queue)))
  <2>1. \A i \in 1 .. Len(queue) : queue[i] = m + i /\ queue[i] \in Kept
    BY <1>2, <1>3, <1>6
  <2>2. Len(queue) \in 0 .. Len(queue)
    BY <1>3
  <2>3. PICK K : K = Kept
    OBVIOUS
  <2>4. /\ K \subseteq Nat /\ Lists(written, UpTo(K, m))
        /\ \A i \in 1 .. Len(queue) : queue[i] = m + i /\ queue[i] \in K
    BY <1>2, <1>4, <1>6, <2>1, <2>3
  <2>5. Lists(written \o SubSeq(queue, 1, Len(queue)), UpTo(K, m + Len(queue)))
    <3>1. PICK k \in 0 .. Len(queue) : k = Len(queue)
      BY <2>2
    <3>2. Lists(written \o SubSeq(queue, 1, k), UpTo(K, m + k))
      BY <1>3, <2>4, ListsMore
    <3> QED BY <3>1, <3>2
  <2> QED BY <2>3, <2>5
<1>10. m \in 0 .. Len(arrived)
  BY <1>1, <1>3, <1>6
<1> QED BY <1>2, <1>6, <1>7, <1>8, <1>9, <1>10

\* The types of the filter's state, for a capture of any length: no more than two
\* packets are ever held back.
THEOREM FilterTypeCorrect == Spec => []TypeOK
<1>1. IInv => TypeOK
  BY DEF IInv
<1> QED
  BY <1>1, InitIInv, NextIInv, PTL DEF Spec

\* The assertions of filter_packet() never fail: what is held back are the packets
\* that arrived last, as many as the state says.
THEOREM QueueMatchesStateCorrect == Spec => []QueueMatchesState
<1>1. IInv => QueueMatchesState
  BY DEF IInv
<1> QED
  BY <1>1, InitIInv, NextIInv, PTL DEF Spec

\* With a broken pipe no packet is handled, or only the first of all.
THEOREM BrokenPipeStopsCorrect == Spec => BrokenPipeStops
<1>1. IInv /\ [Next]_vars
        => [out = "broken" => arrived' = arrived \/ arrived = << >>]_vars
  BY DEF IInv, BreakInv, Next, PacketHandler, EndOfCapture
<1> QED
  BY <1>1, InitIInv, NextIInv, PTL DEF Spec, BrokenPipeStops

\* Whatever is captured, and however the capture ends, exactly what is to be written
\* of it is written or held back, in order, or its first part.
THEOREM OutputExactCorrect == Spec => []OutputExact
<1>1. IInv /\ OutputInv => OutputExact
  <2> SUFFICES ASSUME IInv, OutputInv PROVE OutputExact
    OBVIOUS
  <2> QED BY QueueCompletes DEF OutputExact, OutputInv
<1> QED
  BY <1>1, InitIInv, NextIInv, OutputInit, OutputStep, PTL DEF Spec

\* If NAKs are not filtered all that is to be written has been, when a capture ends
\* whose pipe did not break.
THEOREM NothingLostAtEndCorrect == Spec => []NothingLostAtEnd
<1>1. OutputInv => NothingLostAtEnd
  BY DEF OutputInv
<1> QED
  BY <1>1, InitIInv, NextIInv, OutputInit, OutputStep, PTL DEF Spec

-----------------------------------------------------------------------------
(***************************************************************************)
(* PcapTime                                                                *)
(***************************************************************************)
\* What the division by FREQ of the ticks that have passed leaves and carries
LEMMA Carry ==
  ASSUME NEW n \in Nat
  PROVE  /\ n \div FREQ \in Nat /\ (n % FREQ) \in Nat /\ n % FREQ < FREQ
         /\ n = (n \div FREQ) * FREQ + (n % FREQ)
BY SMT DEF FREQ

\* The offset at the start is less than a second.
LEMMA StartWithinSecond ==
  ASSUME NEW n \in Nat, n < NSEC
  PROVE  StartOffset(n) \in Nat /\ StartOffset(n) < FREQ
BY SMT DEF StartOffset, FREQ, NSEC

\* The conversion to nanoseconds keeps the order of ticks.
LEMMA NanosecondsMonotone ==
  ASSUME NEW a \in Nat, NEW b \in Nat, a <= b
  PROVE  Nanoseconds(a) <= Nanoseconds(b)
BY DEF Nanoseconds

LEMMA NanosecondsBound ==
  ASSUME NEW a \in Nat, a < FREQ
  PROVE  Nanoseconds(a) \in Nat /\ Nanoseconds(a) < NSEC /\ a * 17 < INT_MAX
BY SMT DEF Nanoseconds, FREQ, NSEC, INT_MAX

ClockInv == ClockTypeOK /\ NoDrift

\* The host's clock
LEMMA HostTime ==
  ASSUME NEW t \in HostTimes
  PROVE  t.sec \in Nat /\ t.nsec \in Nat /\ t.nsec < NSEC
<1>1. t.sec \in Nat /\ t.nsec \in 0 .. NSEC - 1
  BY DEF HostTimes
<1>2. NSEC \in Int
  BY SMT DEF NSEC
<1> QED
  BY <1>1, <1>2

LEMMA ClockStart == ClockInit => ClockInv
<1> SUFFICES ASSUME ClockInit PROVE ClockInv
  OBVIOUS
<1>1. ts.sec \in Nat /\ ts.nsec \in Nat /\ ts.nsec < NSEC
  BY HostTime DEF ClockInit
<1>2. StartOffset(ts.nsec) \in Nat /\ StartOffset(ts.nsec) < FREQ
  BY <1>1, StartWithinSecond
<1>3. ClockTypeOK
  BY <1>1, <1>2 DEF ClockInit, ClockTypeOK
<1>4. NoDrift
  <2>1. utc_ts - ts.sec = 0 /\ ts_offset = StartOffset(ts.nsec) /\ last_ov_ts = 0
    BY <1>1 DEF ClockInit
  <2>2. 0 * FREQ = 0
    BY SMT DEF FREQ
  <2> QED
    BY <1>2, <2>1, <2>2 DEF NoDrift
<1> QED
  BY <1>3, <1>4 DEF ClockInv

LEMMA ClockStep == ClockInv /\ [ClockNext]_clock_vars => ClockInv'
<1> SUFFICES ASSUME ClockInv, [ClockNext]_clock_vars PROVE ClockInv'
  OBVIOUS
<1>0. /\ utc_ts \in Nat /\ ts_offset \in Nat /\ last_ov_ts \in Nat
      /\ ts \in HostTimes /\ ts.sec \in Nat
  BY HostTime DEF ClockInv, ClockTypeOK
<1>1. CASE ClockNext
  <2>1. PICK passed \in Ticks \cap Nat : AdvanceClock(last_ov_ts + passed)
    BY <1>1 DEF ClockNext
  <2>2. passed \in Nat
    BY <2>1
  <2> DEFINE n == ts_offset + passed
  <2>3. /\ utc_ts' = utc_ts + (n \div FREQ) /\ ts_offset' = n % FREQ
        /\ last_ov_ts' = last_ov_ts + passed /\ ts' = ts
    <3>1. ts_offset + ((last_ov_ts + passed) - last_ov_ts) = n
      BY <1>0, <2>2
    <3> QED
      BY <2>1, <3>1 DEF AdvanceClock
  <2>4. /\ n \in Nat /\ n \div FREQ \in Nat /\ (n % FREQ) \in Nat /\ n % FREQ < FREQ
        /\ n = (n \div FREQ) * FREQ + (n % FREQ)
    BY <1>0, <2>2, Carry
  <2>5. ClockTypeOK'
    BY <1>0, <2>2, <2>3, <2>4 DEF ClockTypeOK
  <2>6. NoDrift'
    <3>1. (utc_ts - ts.sec) * FREQ + ts_offset = StartOffset(ts.nsec) + last_ov_ts
      BY DEF ClockInv, NoDrift
    <3>2. ((utc_ts + (n \div FREQ)) - ts.sec) * FREQ
            = (utc_ts - ts.sec) * FREQ + (n \div FREQ) * FREQ
      BY <1>0, <2>4, SMTT(30) DEF FREQ
    <3>3. StartOffset(ts.nsec) \in Int
      BY StartWithinSecond, HostTime, <1>0
    <3>4. (utc_ts - ts.sec) * FREQ \in Int /\ (n \div FREQ) * FREQ \in Int
      BY <1>0, <2>4, SMT DEF FREQ
    <3> DEFINE before == (utc_ts - ts.sec) * FREQ
               carried == (n \div FREQ) * FREQ
    <3>5. (before + carried) + (n % FREQ) = StartOffset(ts.nsec) + (last_ov_ts + passed)
      <4>1. before + ts_offset = StartOffset(ts.nsec) + last_ov_ts
        BY <3>1
      <4>2. ts_offset + passed = carried + (n % FREQ)
        BY <2>4
      <4>3. before \in Int /\ carried \in Int /\ (n % FREQ) \in Nat
        BY <2>4, <3>4
      <4> HIDE DEF before, carried, n
      <4> QED
        BY <1>0, <2>2, <3>3, <4>1, <4>2, <4>3
    <3>6. ((utc_ts + (n \div FREQ)) - ts.sec) * FREQ + (n % FREQ)
            = StartOffset(ts.nsec) + (last_ov_ts + passed)
      BY <3>2, <3>5
    <3> QED
      BY <2>3, <3>6 DEF NoDrift
  <2> QED
    BY <2>5, <2>6 DEF ClockInv
<1>2. CASE UNCHANGED clock_vars
  BY <1>2 DEF clock_vars, ClockInv, ClockTypeOK, NoDrift
<1> QED
  BY <1>1, <1>2

\* The ticks carried from packet to packet always are less than a second.
THEOREM ClockTypeCorrect == ClockSpec => []ClockTypeOK
<1>1. ClockInv => ClockTypeOK
  BY DEF ClockInv
<1> QED
  BY <1>1, ClockStart, ClockStep, PTL DEF ClockSpec

\* The clock of the records is exact, after any number of packets.
THEOREM NoDriftCorrect == ClockSpec => []NoDrift
<1>1. ClockInv => NoDrift
  BY DEF ClockInv
<1> QED
  BY <1>1, ClockStart, ClockStep, PTL DEF ClockSpec

\* ts_nsec never reaches a second, and the 32-bit product on the way to it never
\* overflows.
THEOREM NsecWithinSecondCorrect == ClockSpec => []NsecWithinSecond
<1>1. ClockTypeOK => NsecWithinSecond
  BY NanosecondsBound DEF ClockTypeOK, NsecWithinSecond
<1> QED
  BY <1>1, ClockTypeCorrect, PTL

\* At timestamp 0 the records have the host's time, to two ticks.
THEOREM StartsAtHostTimeCorrect == ClockSpec => []StartsAtHostTime
<1>1. ClockInv => StartsAtHostTime
  <2> SUFFICES ASSUME ClockInv, last_ov_ts = 0
               PROVE  /\ utc_ts = ts.sec
                      /\ Nanoseconds(ts_offset) - ts.nsec \in -34 .. 1
    BY DEF StartsAtHostTime
  <2>1. /\ ts.sec \in Nat /\ ts.nsec \in Nat /\ ts.nsec < NSEC
        /\ utc_ts \in Nat /\ ts_offset \in Nat /\ ts_offset < FREQ
    BY HostTime DEF ClockInv, ClockTypeOK
  <2>2. StartOffset(ts.nsec) \in Nat /\ StartOffset(ts.nsec) < FREQ
    BY <2>1, StartWithinSecond
  <2>3. (utc_ts - ts.sec) * FREQ + ts_offset = StartOffset(ts.nsec)
    BY <2>2 DEF ClockInv, NoDrift
  <2>4. utc_ts = ts.sec /\ ts_offset = StartOffset(ts.nsec)
    BY <2>1, <2>2, <2>3, SMT DEF FREQ
  <2> QED
    BY <2>1, <2>4 DEF StartOffset, Nanoseconds
<1> QED
  BY <1>1, ClockStart, ClockStep, PTL DEF ClockSpec

\* The records' times never go back.
THEOREM TimeNeverBackCorrect == ClockSpec => TimeNeverBack
<1> DEFINE Forward == \/ utc_ts' > utc_ts
                      \/ /\ utc_ts' = utc_ts
                         /\ Nanoseconds(ts_offset') >= Nanoseconds(ts_offset)
<1>1. ClockTypeOK /\ [ClockNext]_clock_vars => [Forward]_(clock_vars)
  <2> SUFFICES ASSUME ClockTypeOK, ClockNext PROVE Forward
    OBVIOUS
  <2>0. utc_ts \in Nat /\ ts_offset \in Nat /\ ts_offset < FREQ /\ last_ov_ts \in Nat
    BY DEF ClockTypeOK
  <2>1. PICK passed \in Ticks \cap Nat : AdvanceClock(last_ov_ts + passed)
    BY DEF ClockNext
  <2>2. passed \in Nat
    BY <2>1
  <2> DEFINE n == ts_offset + passed
  <2>3. utc_ts' = utc_ts + (n \div FREQ) /\ ts_offset' = n % FREQ
    <3>1. ts_offset + ((last_ov_ts + passed) - last_ov_ts) = n
      BY <2>0, <2>2
    <3> QED
      BY <2>1, <3>1 DEF AdvanceClock
  <2>4. n \div FREQ \in Nat /\ n = (n \div FREQ) * FREQ + (n % FREQ)
    BY <2>0, <2>2, Carry
  <2>5. CASE n \div FREQ = 0
    <3>1. ts_offset' = n /\ utc_ts' = utc_ts
      BY <2>0, <2>2, <2>3, <2>4, <2>5, SMT DEF FREQ
    <3>2. Nanoseconds(n) >= Nanoseconds(ts_offset)
      <4>1. ts_offset <= n /\ n \in Nat
        BY <2>0, <2>2
      <4> QED
        BY <2>0, <4>1, NanosecondsMonotone DEF Nanoseconds
    <3> QED
      BY <3>1, <3>2
  <2>6. CASE n \div FREQ > 0
    BY <2>0, <2>3, <2>4, <2>6
  <2> QED
    BY <2>4, <2>5, <2>6
<1> QED
  BY <1>1, ClockTypeCorrect, PTL DEF ClockSpec, TimeNeverBack

-----------------------------------------------------------------------------
(***************************************************************************)
(* Extcap                                                                  *)
(***************************************************************************)
\* What main() captures with follows from what Wireshark has asked for, and that is
\* something it was offered.
ChoiceInv ==
  /\ args.interface \in Interfaces
  /\ args.speed \in AnnouncedSpeeds(args.interface) \cup {None}
  /\ linktype = LinktypeFor(args.interface)
  /\ speed = SpeedFor(args.interface, args.speed)
  /\ header \in {None, linktype}

\* What the process holds at each step of start_capture(), and since when the device
\* has the speed
HeldInv ==
  /\ pc \in {"exit", "new", "open", "speed", "fifo", "header", "start", "dispatch", "stop"}
  /\ held \subseteq {"ov", "out", "debug"}
  /\ pc = "exit" => held \subseteq {"debug"}
  /\ pc \in {"new", "open", "speed", "fifo"} => "out" \notin held
  /\ pc \notin {"exit", "new"} => "ov" \in held
  /\ pc = "stop" => held \subseteq {"ov"}
  /\ pc \in {"fifo", "header", "start", "dispatch", "stop"} => deviceSpeed = speed
  /\ stream = 1 => pc \in {"dispatch", "stop"}

LEMMA ExtcapStart == ExtcapInit => ChoiceInv /\ HeldInv
BY DEF ExtcapInit, ChoiceInv, HeldInv, Interfaces, LinktypeFor, SpeedFor, None

LEMMA ChoiceStep == ChoiceInv /\ [ExtcapNext]_extcap_vars => ChoiceInv'
<1> SUFFICES ASSUME ChoiceInv, [ExtcapNext]_extcap_vars PROVE ChoiceInv'
  OBVIOUS
<1>1. CASE Capture
  <2>1. PICK v \in Versions : \E i \in AnnouncedInterfaces(v) :
          \E s \in AnnouncedSpeeds(i) \cup {None}, d \in 0 .. 1, o \in 0 .. 1 :
            /\ args' = [interface |-> i, speed |-> s, debug |-> d, overwrite |-> o]
            /\ speed' = SpeedFor(i, s) /\ linktype' = LinktypeFor(i)
    BY <1>1 DEF Capture
  <2>2. PICK i \in AnnouncedInterfaces(v) :
          \E s \in AnnouncedSpeeds(i) \cup {None}, d \in 0 .. 1, o \in 0 .. 1 :
            /\ args' = [interface |-> i, speed |-> s, debug |-> d, overwrite |-> o]
            /\ speed' = SpeedFor(i, s) /\ linktype' = LinktypeFor(i)
    BY <2>1
  <2>3. PICK s \in AnnouncedSpeeds(i) \cup {None}, d \in 0 .. 1, o \in 0 .. 1 :
            /\ args' = [interface |-> i, speed |-> s, debug |-> d, overwrite |-> o]
            /\ speed' = SpeedFor(i, s) /\ linktype' = LinktypeFor(i)
    BY <2>2
  <2>4. i \in Interfaces
    BY DEF AnnouncedInterfaces, Interfaces
  <2>5. args'.interface = i /\ args'.speed = s
    BY <2>3
  <2>6. header' = None
    BY <1>1 DEF Capture
  <2> QED BY <2>3, <2>4, <2>5, <2>6 DEF ChoiceInv
<1>2. CASE WriteHeader
  BY <1>2 DEF WriteHeader, locals, ChoiceInv
<1>3. CASE New \/ Open \/ Fifo
  BY <1>3 DEF New, Open, Fifo, Calls, locals, effects, ChoiceInv
<1>4. CASE SetSpeed \/ Start \/ Dispatch \/ Stop
  BY <1>4 DEF SetSpeed, Start, Dispatch, Stop, locals, effects, ChoiceInv
<1>5. CASE UNCHANGED extcap_vars
  BY <1>5 DEF extcap_vars, locals, effects, ChoiceInv
<1> QED BY <1>1, <1>2, <1>3, <1>4, <1>5 DEF ExtcapNext

LEMMA HeldStep == HeldInv /\ [ExtcapNext]_extcap_vars => HeldInv'
<1> SUFFICES ASSUME HeldInv, [ExtcapNext]_extcap_vars PROVE HeldInv'
  OBVIOUS
<1> USE DEF HeldInv, locals, effects
<1>1. CASE Capture
  BY <1>1 DEF Capture
<1>2. CASE New
  BY <1>2 DEF New, Calls, ReturnsEarly
<1>3. CASE Open
  BY <1>3 DEF Open, Calls, ReturnsEarly
<1>4. CASE SetSpeed
  BY <1>4 DEF SetSpeed, ReturnsEarly
<1>5. CASE Fifo
  BY <1>5 DEF Fifo, Calls, ReturnsEarly
<1>6. CASE WriteHeader
  <2>1. PICK broken \in SUBSET (held \cap {"out", "debug"}) : held' = held \ broken
    BY <1>6 DEF WriteHeader
  <2>2. /\ pc = "header" /\ pc' = "start"
        /\ UNCHANGED <<speed, stream, deviceSpeed>>
    BY <1>6 DEF WriteHeader
  <2> QED BY <2>1, <2>2
<1>7. CASE Start
  BY <1>7 DEF Start
<1>8. CASE Dispatch
  BY <1>8 DEF Dispatch
<1>9. CASE Stop
  BY <1>9 DEF Stop
<1>10. CASE UNCHANGED extcap_vars
  BY <1>10 DEF extcap_vars
<1> QED BY <1>1, <1>2, <1>3, <1>4, <1>5, <1>6, <1>7, <1>8, <1>9, <1>10 DEF ExtcapNext

\* Whatever Wireshark has offered and the user chosen, and whatever processes ran
\* before, while a capture runs the device has the speed that the link type in the
\* pipe stands for.
THEOREM DeviceSpeedFitsCorrect == ExtcapSpec => []DeviceSpeedFits
<1>1. ChoiceInv /\ HeldInv => DeviceSpeedFits
  <2> SUFFICES ASSUME ChoiceInv, HeldInv, stream = 1
               PROVE  /\ header # None => /\ header = AnnouncedDlt[args.interface]
                                               /\ deviceSpeed \in SpeedsOf[header]
                      /\ args.speed \in AnnouncedSpeeds(args.interface)
                           => deviceSpeed = args.speed
    BY DEF DeviceSpeedFits
  <2>1. deviceSpeed = SpeedFor(args.interface, args.speed)
    BY DEF ChoiceInv, HeldInv
  <2>2. /\ args.interface \in Interfaces
        /\ args.speed \in AnnouncedSpeeds(args.interface) \cup {None}
        /\ header # None => header = LinktypeFor(args.interface)
    BY DEF ChoiceInv
  <2>3. LinktypeFor(args.interface) = AnnouncedDlt[args.interface]
    BY <2>2 DEF LinktypeFor, AnnouncedDlt, Interfaces
  <2>4. LinktypeFor(args.interface) \in DOMAIN SpeedsOf
    BY <2>2, <2>3 DEF SpeedsOf
  <2>5. deviceSpeed \in SpeedsOf[LinktypeFor(args.interface)]
    BY <2>1, <2>2, <2>4 DEF SpeedFor, AnnouncedSpeeds, Speeds, Interfaces, SpeedsOf,
       LinktypeFor, LINKTYPE_USBLL, LINKTYPE_USBLL_LOW_SPEED,
       LINKTYPE_USBLL_FULL_SPEED, LINKTYPE_USBLL_HIGH_SPEED
  <2>6. args.speed \in AnnouncedSpeeds(args.interface) => deviceSpeed = args.speed
    BY <2>1 DEF SpeedFor, AnnouncedSpeeds, Speeds, None,
                OV_LOW_SPEED, OV_FULL_SPEED, OV_HIGH_SPEED
  <2> QED BY <2>2, <2>3, <2>5, <2>6
<1> QED
  BY <1>1, ExtcapStart, ChoiceStep, HeldStep, PTL DEF ExtcapSpec

\* On each of the ways out of start_capture(), after any number of captures, the
\* device is freed and the pipe closed, and a started stream has its device.
THEOREM ReleasedAtExitCorrect == ExtcapSpec => []ReleasedAtExit
<1>1. HeldInv => ReleasedAtExit
  BY DEF HeldInv, ReleasedAtExit
<1> QED
  BY <1>1, ExtcapStart, HeldStep, PTL DEF ExtcapSpec
=============================================================================
