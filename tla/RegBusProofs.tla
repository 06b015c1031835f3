---------------------------- MODULE RegBusProofs ----------------------------
(***************************************************************************)
(* Proofs about RegBus, for any addresses, words and number of calls, and  *)
(* however many reads are short or fail.                                   *)
(***************************************************************************)
EXTENDS RegBus, SequenceTheorems, TLAPS

\* The transactions that the calls are made of: the only command is that of PHY
\* register 4.
Transactions ==
  {t \in [kind : {"write", "read", "poll"}, addr : Addresses, data : Byte] :
     t.kind = "write" /\ t.addr \in {WCMD, RCMD} => t.data = Go + 4}

\* The message of a transaction
Request(t) == Message(IF t.kind = "write" THEN t.addr + WriteBit ELSE t.addr, t.data)

IsRequest(q) == \E t \in Transactions : q = Request(t)

\* A request that writes a
Writes(q, a) == q[2] * 256 + q[3] >= WriteBit /\ (q[2] * 256 + q[3]) % WriteBit = a

\* a has the value v, or will have when the device has taken the requests under way.
Settles(a, v) ==
  \/ regs[a] = v /\ \A k \in 1 .. Len(reqs) : ~Writes(reqs[k], a)
  \/ \E k \in 1 .. Len(reqs) :
       /\ Writes(reqs[k], a) /\ reqs[k][4] = v
       /\ \A j \in k + 1 .. Len(reqs) : ~Writes(reqs[j], a)

\* Which transaction of its plan a call is at
Step == Len(Plan(op, arg)) - Len(todo) + 1

TypeInv ==
  /\ pc \in {"idle", "send", "wait"}
  /\ op \in {"set", "get", "write", "read"} /\ arg \in Arguments(op)
  /\ msg \in Seq(Byte) /\ Len(msg) = 5 /\ val \in Seq(Byte) /\ Len(val) = 4 /\ ret \in {-1, 0}
  /\ reqs \in Seq(Seq(Byte)) /\ \A k \in 1 .. Len(reqs) : IsRequest(reqs[k])
  /\ fifo \in Seq(Byte)
  /\ regs \in [Addresses -> Byte] /\ phy \in Byte
  /\ speed \in Speeds \cup {"unknown"} /\ word \in Words \cup {<< >>}
  /\ faults \in Nat /\ cut \in {0, 1}

\* todo is the rest of the call's plan.
PlanInv ==
  pc # "idle" =>
    /\ Step \in 1 .. Len(Plan(op, arg))
    /\ todo = SubSeq(Plan(op, arg), Step, Len(Plan(op, arg)))

CommandsInv == regs[WCMD] \in {0, 4, Go + 4} /\ regs[RCMD] \in {0, 4, Go + 4}

WordInv ==
  /\ word # << >> => \A i \in 0 .. 3 : Settles(Word + i, word[i + 1])
  /\ op = "write" /\ pc # "idle" =>
       /\ word = << >>
       /\ \A i \in 0 .. 3 : 4 - i < Step \/ (4 - i = Step /\ pc = "wait") => Settles(Word + i, arg[i + 1])

Answered == pc = "wait" /\ reqs = << >>

InStep ==
  /\ pc # "wait" => reqs = << >> /\ fifo = << >>
  /\ pc = "wait" => \/ reqs = <<Request(Head(todo))>> /\ fifo = << >>
                    \/ reqs = << >> /\ Len(fifo) = 5

SetInv ==
  /\ speed # "unknown" => ~Busy(regs[WCMD]) /\ phy = SpeedCode[speed]
  /\ op = "set" /\ pc # "idle" =>
       /\ speed = "unknown"
       /\ Step >= 2 \/ Answered => regs[WDATA] = SpeedCode[arg]
       /\ Step = 3 \/ (Step = 2 /\ Answered) => Busy(regs[WCMD]) \/ phy = SpeedCode[arg]
       /\ Step = 3 /\ Answered => Busy(fifo[4]) \/ ~Busy(regs[WCMD])

GetInv ==
  op = "get" =>
    /\ pc # "idle" /\ (Step >= 2 \/ Answered) /\ speed # "unknown" =>
         Busy(regs[RCMD]) \/ regs[RDATA] = phy
    /\ pc # "idle" /\ Step = 2 /\ Answered => Busy(fifo[4]) \/ ~Busy(regs[RCMD])
    /\ pc # "idle" /\ Step = 3 => ~Busy(regs[RCMD])
    /\ Answered /\ Step = 3 /\ speed # "unknown" => fifo[4] = phy
    /\ pc = "idle" /\ ret = 0 /\ speed # "unknown" => val[4] = SpeedCode[speed]

ReadInv ==
  op = "read" /\ word # << >> =>
    /\ pc # "idle" => \A j \in 1 .. Step - 1 : val[(5 - Step) + j] = word[j]
    /\ Answered => fifo[4] = word[Step]
    /\ pc = "idle" /\ ret = 0 => \A j \in 1 .. 4 : val[j] = word[j]

BridgeInv ==
  cut = 0 =>
    /\ Busy(regs[WCMD]) => op = "set" /\ pc # "idle" /\ (Step = 3 \/ (Step = 2 /\ Answered))
    /\ Busy(regs[RCMD]) => op = "get" /\ pc # "idle" /\ (Step = 2 \/ (Step = 1 /\ Answered))

SyncInv == faults = 0 => InStep /\ SetInv /\ GetInv /\ ReadInv /\ BridgeInv

-----------------------------------------------------------------------------
(***************************************************************************)
(* Addresses, messages and plans                                           *)
(***************************************************************************)
\* The eight addresses are different.
LEMMA AddressesDiffer ==
  /\ WDATA # WCMD /\ WDATA # RDATA /\ WDATA # RCMD /\ WCMD # RDATA /\ WCMD # RCMD /\ RDATA # RCMD
  /\ \A i \in 0 .. 3 : Word + i \notin {WDATA, WCMD, RDATA, RCMD}
<1>1. \A i \in 0 .. 3 : Word + i \in Word .. Word + 3
  BY AddressAssumption
<1> QED BY <1>1, AddressAssumption

\* What is appended leaves the bytes before it.
LEMMA AppendKeeps ==
  ASSUME NEW h \in Seq(Byte), NEW c \in Byte, NEW i \in 1 .. Len(h)
  PROVE  Append(h, c)[i] = h[i]
OBVIOUS

\* A checksum makes five bytes of four.
LEMMA AppendChecksum ==
  ASSUME NEW h \in Seq(Byte), Len(h) = 4
  PROVE  /\ Append(h, Checksum(h)) \in Seq(Byte) /\ Len(Append(h, Checksum(h))) = 5
         /\ \A i \in 1 .. 4 : Append(h, Checksum(h))[i] = h[i]
<1>1. ASSUME NEW i \in 1 .. 4 PROVE h[i] \in Nat
  <2>1. h[i] \in Byte
    <3>1. i \in 1 .. Len(h)
      OBVIOUS
    <3> QED BY <3>1, ElementOfSeq, Zenon
  <2>2. \A b \in Byte : b \in Nat
    BY DEF Byte
  <2> QED BY <2>1, <2>2, Zenon
<1>2. 1 \in 1 .. 4 /\ 2 \in 1 .. 4 /\ 3 \in 1 .. 4 /\ 4 \in 1 .. 4
  OBVIOUS
<1>3. h[1] \in Nat /\ h[2] \in Nat /\ h[3] \in Nat /\ h[4] \in Nat
  BY <1>1, <1>2, Zenon
<1>4. PICK n \in Nat : n = h[1] + h[2] + h[3] + h[4]
  BY <1>3
<1>5. n % 256 \in Byte
  BY SMT DEF Byte
<1>6. PICK c \in Byte : c = Checksum(h)
  BY <1>4, <1>5 DEF Checksum
<1>7. Append(h, c) \in Seq(Byte) /\ Len(Append(h, c)) = Len(h) + 1
  BY AppendProperties, ZenonT(40)
<1>8. \A i \in 1 .. Len(h) : Append(h, c)[i] = h[i]
  BY AppendKeeps, Zenon
<1> QED BY <1>6, <1>7, <1>8

LEMMA WriteBitNat == WriteBit \in Nat
BY DEF WriteBit

\* The write bit and the address below it
LEMMA AboveAddress ==
  ASSUME NEW n \in Nat, n < WriteBit
  PROVE  /\ n < WriteBit + WriteBit /\ n + WriteBit \in Nat /\ n + WriteBit < WriteBit + WriteBit
         /\ ~(n >= WriteBit) /\ n + WriteBit >= WriteBit
         /\ (n + WriteBit) % WriteBit = n /\ n % WriteBit = n
BY SMT DEF WriteBit

\* What a message says
LEMMA MessageFacts ==
  ASSUME NEW a \in Nat, a < WriteBit + WriteBit, NEW v \in Byte
  PROVE  /\ Message(a, v) \in Seq(Byte) /\ Len(Message(a, v)) = 5
         /\ Message(a, v)[2] * 256 + Message(a, v)[3] = a
         /\ Message(a, v)[4] = v
<1> DEFINE head == <<85, a \div 256, a % 256, v>>
<1>1. /\ a \div 256 \in Nat /\ a \div 256 < 256 /\ (a % 256) \in Nat /\ a % 256 < 256
      /\ (a \div 256) * 256 + (a % 256) = a
  BY SMT DEF WriteBit
<1>2. 85 \in Byte /\ a \div 256 \in Byte /\ a % 256 \in Byte
  BY <1>1 DEF Byte
<1>3. /\ head \in Seq(Byte) /\ Len(head) = 4
      /\ head[2] = a \div 256 /\ head[3] = a % 256 /\ head[4] = v
  BY <1>2
<1>4. Message(a, v) = Append(head, Checksum(head))
  BY DEF Message
<1> HIDE DEF head
<1>5. /\ Append(head, Checksum(head)) \in Seq(Byte) /\ Len(Append(head, Checksum(head))) = 5
      /\ \A i \in 1 .. 4 : Append(head, Checksum(head))[i] = head[i]
  BY <1>3, AppendChecksum, Zenon
<1>6. 2 \in 1 .. 4 /\ 3 \in 1 .. 4 /\ 4 \in 1 .. 4
  OBVIOUS
<1>7. Message(a, v)[2] = head[2] /\ Message(a, v)[3] = head[3] /\ Message(a, v)[4] = head[4]
  BY <1>4, <1>5, <1>6
<1>8. Message(a, v) \in Seq(Byte) /\ Len(Message(a, v)) = 5
  BY <1>4, <1>5, Zenon
<1> QED BY <1>1, <1>3, <1>7, <1>8

LEMMA RequestFacts ==
  ASSUME NEW t \in Transactions
  PROVE  /\ Request(t) \in Seq(Byte) /\ Len(Request(t)) = 5
         /\ Request(t)[2] * 256 + Request(t)[3] = IF t.kind = "write" THEN t.addr + WriteBit ELSE t.addr
         /\ Request(t)[4] = t.data
         /\ t.addr \in 0 .. WriteBit - 1
         /\ \A a : Writes(Request(t), a) <=> t.kind = "write" /\ t.addr = a
<1>1. t.kind \in {"write", "read", "poll"} /\ t.addr \in Addresses /\ t.data \in Byte
  BY DEF Transactions
<1>2. t.addr \in 0 .. WriteBit - 1
  BY <1>1, AddressAssumption DEF Addresses
<1> DEFINE hi == IF t.kind = "write" THEN t.addr + WriteBit ELSE t.addr
<1>3. /\ hi \in Nat /\ hi < WriteBit + WriteBit
      /\ hi >= WriteBit <=> t.kind = "write"
      /\ t.kind = "write" => hi % WriteBit = t.addr
  <2>1. ASSUME NEW n \in 0 .. WriteBit - 1
        PROVE  /\ n \in Nat /\ n < WriteBit + WriteBit /\ n + WriteBit \in Nat /\ n + WriteBit < WriteBit + WriteBit
               /\ ~(n >= WriteBit) /\ n + WriteBit >= WriteBit /\ (n + WriteBit) % WriteBit = n
    <3>1. n \in Nat /\ n < WriteBit
      BY WriteBitNat
    <3> QED BY <3>1, AboveAddress, Zenon
  <2>2. /\ t.addr \in Nat /\ t.addr < WriteBit + WriteBit /\ t.addr + WriteBit \in Nat /\ t.addr + WriteBit < WriteBit + WriteBit
        /\ ~(t.addr >= WriteBit) /\ t.addr + WriteBit >= WriteBit
        /\ (t.addr + WriteBit) % WriteBit = t.addr
    BY <1>2, <2>1, Zenon
  <2>3. CASE t.kind = "write"
    BY <2>2, <2>3, Zenon
  <2>4. CASE t.kind # "write"
    BY <2>2, <2>4, Zenon
  <2> QED BY <2>3, <2>4
<1>4. Request(t) = Message(hi, t.data)
  BY DEF Request
<1> HIDE DEF hi
<1>5. /\ Request(t) \in Seq(Byte) /\ Len(Request(t)) = 5
      /\ Request(t)[2] * 256 + Request(t)[3] = hi /\ Request(t)[4] = t.data
  <2>1. /\ Message(hi, t.data) \in Seq(Byte) /\ Len(Message(hi, t.data)) = 5
        /\ Message(hi, t.data)[2] * 256 + Message(hi, t.data)[3] = hi
        /\ Message(hi, t.data)[4] = t.data
    BY <1>1, <1>3, MessageFacts, ZenonT(40)
  <2> QED BY <1>4, <2>1
<1>6. ASSUME NEW a PROVE Writes(Request(t), a) <=> t.kind = "write" /\ t.addr = a
  BY <1>3, <1>5, ZenonT(40) DEF Writes
<1> QED BY <1>2, <1>5, <1>6, Zenon DEF hi

\* What is left of a sequence
LEMMA RestFacts ==
  ASSUME NEW S, NEW p \in Seq(S), NEW k \in 1 .. Len(p)
  PROVE  /\ Len(SubSeq(p, k, Len(p))) = Len(p) - k + 1
         /\ Head(SubSeq(p, k, Len(p))) = p[k]
         /\ Tail(SubSeq(p, k, Len(p))) = SubSeq(p, k + 1, Len(p))
<1> DEFINE s == SubSeq(p, k, Len(p))
<1>1. Len(p) \in Nat /\ k \in Nat /\ k <= Len(p) /\ 1 <= k
  OBVIOUS
<1>2. s \in Seq(S) /\ Len(s) = Len(p) - k + 1 /\ \A i \in 1 .. Len(p) - k + 1 : s[i] = p[k + i - 1]
  <2>1. \A i \in k .. Len(p) : i \in 1 .. Len(p)
    BY <1>1
  <2>2. \A i \in k .. Len(p) : p[i] \in S
    BY <2>1
  <2>3. /\ s \in Seq(S) /\ Len(s) = IF k <= Len(p) THEN Len(p) - k + 1 ELSE 0
        /\ \A i \in 1 .. Len(p) - k + 1 : s[i] = p[k + i - 1]
    BY <1>1, <2>2, SubSeqProperties, SMTT(30)
  <2> QED BY <1>1, <2>3
<1>3. s # << >> /\ Head(s) = p[k]
  <2>1. Len(s) > 0 /\ 1 \in 1 .. Len(p) - k + 1 /\ k + 1 - 1 = k
    BY <1>1, <1>2
  <2>2. s[1] = p[k]
    BY <1>2, <2>1
  <2> HIDE DEF s
  <2> QED BY <1>2, <2>1, <2>2, EmptySeq
<1>4. /\ Tail(s) \in Seq(S) /\ Len(Tail(s)) = Len(p) - k
      /\ \A i \in 1 .. Len(p) - k : Tail(s)[i] = p[k + i]
  <2>1. /\ Tail(s) \in Seq(S) /\ Len(Tail(s)) = Len(s) - 1
        /\ \A i \in 1 .. Len(Tail(s)) : Tail(s)[i] = s[i + 1]
    BY <1>2, <1>3, HeadTailProperties
  <2> HIDE DEF s
  <2>2. Len(Tail(s)) = Len(p) - k
    BY <1>1, <1>2, <2>1
  <2>3. ASSUME NEW i \in 1 .. Len(p) - k PROVE Tail(s)[i] = p[k + i]
    <3>1. i + 1 \in 1 .. Len(p) - k + 1 /\ k + (i + 1) - 1 = k + i
      BY <1>1
    <3> QED BY <1>2, <2>1, <2>2, <3>1
  <2> QED BY <2>1, <2>2, <2>3
<1> DEFINE r == SubSeq(p, k + 1, Len(p))
<1>5. /\ r \in Seq(S) /\ Len(r) = Len(p) - k
      /\ \A i \in 1 .. Len(p) - k : r[i] = p[k + i]
  <2>1. \A i \in k + 1 .. Len(p) : i \in 1 .. Len(p)
    BY <1>1
  <2>2. PICK m \in Nat : m = k + 1
    BY <1>1
  <2>3. /\ r \in Seq(S) /\ Len(r) = IF m <= Len(p) THEN Len(p) - m + 1 ELSE 0
        /\ \A i \in 1 .. Len(p) - m + 1 : r[i] = p[m + i - 1]
    BY <1>1, <2>1, <2>2, SubSeqProperties, SMTT(30)
  <2> HIDE DEF r
  <2>4. Len(r) = Len(p) - k
    BY <1>1, <2>2, <2>3
  <2>5. ASSUME NEW i \in 1 .. Len(p) - k PROVE r[i] = p[k + i]
    <3>1. i \in 1 .. Len(p) - m + 1 /\ m + i - 1 = k + i
      BY <1>1, <2>2
    <3> QED BY <2>3, <3>1
  <2> QED BY <2>3, <2>4, <2>5
<1> HIDE DEF s, r
<1>6. Tail(s) = r
  BY <1>1, <1>4, <1>5, SeqEqual
<1> QED BY <1>2, <1>3, <1>6 DEF s, r

\* The transactions of the plans
LEMMA TransactionFacts ==
  /\ \A a \in Addresses \ {WCMD, RCMD}, v \in Byte : Write(a, v) \in Transactions
  /\ Write(WCMD, Go + 4) \in Transactions /\ Write(RCMD, Go + 4) \in Transactions
  /\ \A a \in Addresses : Get(a) \in Transactions /\ Poll(a) \in Transactions
<1>1. 0 \in Byte /\ Go + 4 \in Byte
  BY SMT DEF Byte, Go
<1>2. WCMD \in Addresses /\ RCMD \in Addresses
  BY DEF Addresses
<1> QED BY <1>1, <1>2 DEF Transactions, Write, Get, Poll

LEMMA AddressFacts ==
  /\ {WDATA, WCMD, RDATA, RCMD} \subseteq Addresses
  /\ \A i \in 0 .. 3 : Word + i \in Addresses \ {WDATA, WCMD, RDATA, RCMD}
<1>1. \A i \in 0 .. 3 : Word + i \in Word .. Word + 3
  BY AddressAssumption
<1> QED BY <1>1, AddressesDiffer DEF Addresses

LEMMA Three ==
  ASSUME NEW T, NEW a \in T, NEW b \in T, NEW c \in T
  PROVE  /\ <<a, b, c>> \in Seq(T) /\ Len(<<a, b, c>>) = 3
         /\ <<a, b, c>>[1] = a /\ <<a, b, c>>[2] = b /\ <<a, b, c>>[3] = c
OBVIOUS

LEMMA Four ==
  ASSUME NEW T, NEW a \in T, NEW b \in T, NEW c \in T, NEW d \in T
  PROVE  <<a, b, c, d>> \in Seq(T) /\ Len(<<a, b, c, d>>) = 4
OBVIOUS

LEMMA SetPlan ==
  ASSUME NEW x \in Speeds
  PROVE  /\ Plan("set", x) \in Seq(Transactions) /\ Len(Plan("set", x)) = 3
         /\ Plan("set", x)[1] = Write(WDATA, SpeedCode[x])
         /\ Plan("set", x)[2] = Write(WCMD, Go + 4)
         /\ Plan("set", x)[3] = Poll(WCMD)
         /\ SpeedCode[x] \in Byte
<1>1. x \in {"low", "full", "high"}
  BY ArgumentsAssumption
<1>2. SpeedCode[x] \in Byte
  BY <1>1 DEF SpeedCode, Byte
<1>3. 4 % 64 = 4
  BY SMT
<1>4. Plan("set", x) = <<Write(WDATA, SpeedCode[x]), Write(WCMD, Go + 4), Poll(WCMD)>>
  BY <1>3 DEF Plan, WriteUlpi
<1>5. /\ Write(WDATA, SpeedCode[x]) \in Transactions /\ Write(WCMD, Go + 4) \in Transactions
      /\ Poll(WCMD) \in Transactions
  BY <1>2, TransactionFacts, AddressFacts, AddressesDiffer
<1>6. PICK s : s = Plan("set", x)
  OBVIOUS
<1>7. PICK a \in Transactions, b \in Transactions, c \in Transactions :
        a = Write(WDATA, SpeedCode[x]) /\ b = Write(WCMD, Go + 4) /\ c = Poll(WCMD)
  BY <1>5
<1>8. s = <<a, b, c>>
  BY <1>4, <1>6, <1>7
<1>9. s \in Seq(Transactions) /\ Len(s) = 3 /\ s[1] = a /\ s[2] = b /\ s[3] = c
  BY <1>8, Three
<1> QED BY <1>2, <1>6, <1>7, <1>9

LEMMA GetPlan ==
  ASSUME NEW x
  PROVE  /\ Plan("get", x) \in Seq(Transactions) /\ Len(Plan("get", x)) = 3
         /\ Plan("get", x)[1] = Write(RCMD, Go + 4)
         /\ Plan("get", x)[2] = Poll(RCMD)
         /\ Plan("get", x)[3] = Get(RDATA)
<1>3. 4 % 64 = 4
  BY SMT
<1>4. Plan("get", x) = <<Write(RCMD, Go + 4), Poll(RCMD), Get(RDATA)>>
  BY <1>3 DEF Plan, ReadUlpi
<1>5. Write(RCMD, Go + 4) \in Transactions /\ Poll(RCMD) \in Transactions /\ Get(RDATA) \in Transactions
  BY TransactionFacts, AddressFacts
<1>6. PICK s : s = Plan("get", x)
  OBVIOUS
<1>7. PICK a \in Transactions, b \in Transactions, c \in Transactions :
        a = Write(RCMD, Go + 4) /\ b = Poll(RCMD) /\ c = Get(RDATA)
  BY <1>5
<1>8. s = <<a, b, c>>
  BY <1>4, <1>6, <1>7
<1>9. s \in Seq(Transactions) /\ Len(s) = 3 /\ s[1] = a /\ s[2] = b /\ s[3] = c
  BY <1>8, Three
<1> QED BY <1>6, <1>7, <1>9

LEMMA WritePlan ==
  ASSUME NEW x \in Words
  PROVE  /\ Plan("write", x) \in Seq(Transactions) /\ Len(Plan("write", x)) = 4
         /\ \A i \in 0 .. 3 : Plan("write", x)[4 - i] = Write(Word + i, x[i + 1])
         /\ \A i \in 0 .. 3 : x[i + 1] \in Byte
<1>1. x \in [1 .. 4 -> Byte]
  BY ArgumentsAssumption
<1>2. x[1] \in Byte /\ x[2] \in Byte /\ x[3] \in Byte /\ x[4] \in Byte
  BY <1>1
<1>3. Plan("write", x) = <<Write(Word + 3, x[4]), Write(Word + 2, x[3]), Write(Word + 1, x[2]), Write(Word, x[1])>>
  BY DEF Plan, WriteReg32
<1>4. Word = Word + 0
  BY AddressAssumption
<1>5. \A i \in 0 .. 3 : \A v \in Byte : Write(Word + i, v) \in Transactions
  BY TransactionFacts, AddressFacts
<1>6. /\ Write(Word + 3, x[4]) \in Transactions /\ Write(Word + 2, x[3]) \in Transactions
      /\ Write(Word + 1, x[2]) \in Transactions /\ Write(Word, x[1]) \in Transactions
  BY <1>2, <1>4, <1>5
<1>7. Plan("write", x) \in Seq(Transactions) /\ Len(Plan("write", x)) = 4
  BY <1>3, <1>6, Four, ZenonT(40)
<1>8. /\ Plan("write", x)[4] = Write(Word + 0, x[1]) /\ Plan("write", x)[3] = Write(Word + 1, x[2])
      /\ Plan("write", x)[2] = Write(Word + 2, x[3]) /\ Plan("write", x)[1] = Write(Word + 3, x[4])
  BY <1>3, <1>4
<1>9. ASSUME NEW i \in 0 .. 3
      PROVE  Plan("write", x)[4 - i] = Write(Word + i, x[i + 1]) /\ x[i + 1] \in Byte
  <2>1. i = 0 \/ i = 1 \/ i = 2 \/ i = 3
    OBVIOUS
  <2> QED BY <1>2, <1>8, <2>1
<1> QED BY <1>7, <1>9

LEMMA ReadPlan ==
  ASSUME NEW x
  PROVE  /\ Plan("read", x) \in Seq(Transactions) /\ Len(Plan("read", x)) = 4
         /\ \A s \in 1 .. 4 : Plan("read", x)[s] = Get(Word + (s - 1))
<1>1. Plan("read", x) = <<Get(Word), Get(Word + 1), Get(Word + 2), Get(Word + 3)>>
  BY DEF Plan, ReadReg32
<1>2. Word = Word + 0
  BY AddressAssumption
<1>3. \A i \in 0 .. 3 : Get(Word + i) \in Transactions
  BY TransactionFacts, AddressFacts
<1>4. /\ Get(Word) \in Transactions /\ Get(Word + 1) \in Transactions
      /\ Get(Word + 2) \in Transactions /\ Get(Word + 3) \in Transactions
  BY <1>2, <1>3
<1>5. Plan("read", x) \in Seq(Transactions) /\ Len(Plan("read", x)) = 4
  BY <1>1, <1>4, Four, ZenonT(40)
<1>6. /\ Plan("read", x)[1] = Get(Word + 0) /\ Plan("read", x)[2] = Get(Word + 1)
      /\ Plan("read", x)[3] = Get(Word + 2) /\ Plan("read", x)[4] = Get(Word + 3)
  BY <1>1, <1>2
<1>7. ASSUME NEW s \in 1 .. 4 PROVE Plan("read", x)[s] = Get(Word + (s - 1))
  <2>1. s = 1 \/ s = 2 \/ s = 3 \/ s = 4
    OBVIOUS
  <2> QED BY <1>6, <2>1
<1> QED BY <1>5, <1>7

\* A call in progress is at a transaction of its plan.
LEMMA Doing ==
  ASSUME TypeInv, PlanInv, pc # "idle"
  PROVE  /\ Plan(op, arg) \in Seq(Transactions) /\ Len(Plan(op, arg)) \in {3, 4}
         /\ Step \in 1 .. Len(Plan(op, arg))
         /\ Head(todo) = Plan(op, arg)[Step] /\ Head(todo) \in Transactions
         /\ Len(todo) = Len(Plan(op, arg)) - Step + 1
         /\ Tail(todo) = SubSeq(Plan(op, arg), Step + 1, Len(Plan(op, arg)))
<1>1. Plan(op, arg) \in Seq(Transactions) /\ Len(Plan(op, arg)) \in {3, 4}
  <2>1. op \in {"set", "get", "write", "read"} /\ arg \in Arguments(op)
    BY DEF TypeInv
  <2>2. CASE op = "set"
    BY <2>1, <2>2, SetPlan DEF Arguments
  <2>3. CASE op = "write"
    BY <2>1, <2>3, WritePlan DEF Arguments
  <2>4. CASE op = "get"
    BY <2>4, GetPlan
  <2>5. CASE op = "read"
    BY <2>5, ReadPlan
  <2> QED BY <2>1, <2>2, <2>3, <2>4, <2>5
<1>2. PICK p \in Seq(Transactions) : p = Plan(op, arg)
  BY <1>1
<1>3. PICK k \in 1 .. Len(p) : k = Step
  BY <1>2 DEF PlanInv
<1>4. todo = SubSeq(p, k, Len(p))
  BY <1>2, <1>3 DEF PlanInv
<1>5. /\ Len(todo) = Len(p) - k + 1 /\ Head(todo) = p[k]
      /\ Tail(todo) = SubSeq(p, k + 1, Len(p))
  BY <1>4, RestFacts
<1>6. p[k] \in Transactions
  BY ElementOfSeq
<1> QED BY <1>1, <1>2, <1>3, <1>5, <1>6

-----------------------------------------------------------------------------
(***************************************************************************)
(* Types, and the plan that is worked off                                  *)
(***************************************************************************)
\* What a read of n bytes makes of the message and leaves of the answers
LEMMA Splice ==
  ASSUME NEW f \in Seq(Byte), NEW m \in Seq(Byte), Len(m) = 5, NEW n \in 1 .. 5, n <= Len(f)
  PROVE  /\ SubSeq(f, 1, n) \o SubSeq(m, n + 1, 5) \in Seq(Byte)
         /\ Len(SubSeq(f, 1, n) \o SubSeq(m, n + 1, 5)) = 5
         /\ SubSeq(f, n + 1, Len(f)) \in Seq(Byte)
         /\ n = 5 => (SubSeq(f, 1, n) \o SubSeq(m, n + 1, 5))[4] = f[4]
         /\ n = 5 /\ Len(f) = 5 => SubSeq(f, n + 1, Len(f)) = << >>
<1>0. Len(f) \in Nat /\ n \in Nat /\ n >= 1 /\ n <= 5
  BY LenProperties
<1>1. /\ SubSeq(f, 1, n) \in Seq(Byte) /\ Len(SubSeq(f, 1, n)) = n
      /\ \A i \in 1 .. n : SubSeq(f, 1, n)[i] = f[i]
  <2>1. \A i \in 1 .. n : f[i] \in Byte
    BY <1>0, ElementOfSeq
  <2>2. /\ SubSeq(f, 1, n) \in Seq(Byte)
        /\ Len(SubSeq(f, 1, n)) = IF 1 <= n THEN n - 1 + 1 ELSE 0
        /\ \A i \in 1 .. n - 1 + 1 : SubSeq(f, 1, n)[i] = f[1 + i - 1]
    BY <2>1, SubSeqProperties
  <2> QED BY <1>0, <2>2
<1>2. PICK k \in Nat : k = n + 1
  BY <1>0
<1>3. SubSeq(m, k, 5) \in Seq(Byte) /\ Len(SubSeq(m, k, 5)) = 5 - n
  <2>1. \A i \in k .. 5 : i \in 1 .. Len(m)
    BY <1>0, <1>2
  <2>2. \A i \in k .. 5 : m[i] \in Byte
    BY <2>1, ElementOfSeq
  <2>3. SubSeq(m, k, 5) \in Seq(Byte) /\ Len(SubSeq(m, k, 5)) = IF k <= 5 THEN 5 - k + 1 ELSE 0
    BY <2>2, SubSeqProperties
  <2> QED BY <1>0, <1>2, <2>3
<1>4. SubSeq(f, k, Len(f)) \in Seq(Byte)
  <2>1. \A i \in k .. Len(f) : i \in 1 .. Len(f)
    BY <1>0, <1>2
  <2>2. \A i \in k .. Len(f) : f[i] \in Byte
    BY <2>1, ElementOfSeq
  <2> QED BY <1>0, <2>2, SubSeqProperties
<1>5. PICK a \in Seq(Byte), b \in Seq(Byte) :
        a = SubSeq(f, 1, n) /\ b = SubSeq(m, k, 5)
  BY <1>1, <1>3
<1>6. /\ a \o b \in Seq(Byte) /\ Len(a \o b) = Len(a) + Len(b)
      /\ \A i \in 1 .. Len(a) : (a \o b)[i] = a[i]
  BY ConcatProperties
<1>7. n = 5 => (a \o b)[4] = f[4]
  <2> SUFFICES ASSUME n = 5 PROVE (a \o b)[4] = f[4]
    OBVIOUS
  <2>1. 4 \in 1 .. n /\ 4 \in 1 .. Len(a)
    BY <1>1, <1>5
  <2> QED BY <1>1, <1>5, <1>6, <2>1
<1>8. n = 5 /\ Len(f) = 5 => SubSeq(f, k, Len(f)) = << >>
  BY <1>2, SubSeqEmpty
<1>9. Len(a \o b) = 5
  BY <1>0, <1>1, <1>3, <1>5, <1>6
<1> QED BY <1>2, <1>4, <1>5, <1>6, <1>7, <1>8, <1>9

\* A value is shifted in.
LEMMA Shift ==
  ASSUME NEW v \in Seq(Byte), Len(v) = 4, NEW x \in Byte
  PROVE  /\ Append(Tail(v), x) \in Seq(Byte) /\ Len(Append(Tail(v), x)) = 4
         /\ \A i \in 1 .. 3 : Append(Tail(v), x)[i] = v[i + 1]
         /\ Append(Tail(v), x)[4] = x
<1>1. v # << >>
  BY EmptySeq
<1>2. /\ Tail(v) \in Seq(Byte) /\ Len(Tail(v)) = 3
      /\ \A i \in 1 .. 3 : Tail(v)[i] = v[i + 1]
  <2>1. /\ Tail(v) \in Seq(Byte) /\ Len(Tail(v)) = Len(v) - 1
        /\ \A i \in 1 .. Len(Tail(v)) : Tail(v)[i] = v[i + 1]
    BY <1>1, HeadTailProperties
  <2>2. PICK r \in Seq(Byte) : r = Tail(v)
    BY <2>1
  <2>3. Len(r) = 3 /\ \A i \in 1 .. Len(r) : r[i] = v[i + 1]
    BY <2>1, <2>2
  <2> QED BY <2>2, <2>3
<1>3. PICK r \in Seq(Byte) : r = Tail(v)
  BY <1>2
<1>4. /\ Append(r, x) \in Seq(Byte) /\ Len(Append(r, x)) = Len(r) + 1
      /\ Append(r, x)[Len(r) + 1] = x
  BY AppendProperties, ZenonT(40)
<1>5. ASSUME NEW i \in 1 .. Len(r) PROVE Append(r, x)[i] = r[i]
  OBVIOUS
<1>6. Len(r) = 3 /\ Len(r) + 1 = 4
  BY <1>2, <1>3
<1> QED BY <1>2, <1>3, <1>4, <1>5, <1>6

\* The four ways a read goes
LEMMA ReceiveCases ==
  ASSUME TypeInv, PlanInv, Receive
  PROVE  /\ pc = "wait" /\ fifo # << >>
         /\ UNCHANGED <<op, arg, reqs, regs, phy, calls>>
         /\ msg' \in Seq(Byte) /\ Len(msg') = 5 /\ fifo' \in Seq(Byte) /\ faults' \in Nat
         /\ faults' = 0 => /\ faults = 0 /\ msg'[4] = fifo[4]
                           /\ Len(fifo) = 5 => fifo' = << >>
         /\ val' \in Seq(Byte) /\ Len(val') = 4
         /\ \/ Fails /\ val' = val
            \/ /\ val' = val /\ pc' = "send" /\ UNCHANGED <<todo, ret, speed, word, cut>>
               /\ Head(todo).kind = "poll" /\ Busy(msg'[4])
            \/ /\ TakeValue(Head(todo)) /\ ~(Head(todo).kind = "poll" /\ Busy(msg'[4]))
               /\ Step < Len(Plan(op, arg)) /\ Step' = Step + 1
               /\ todo' = SubSeq(Plan(op, arg), Step', Len(Plan(op, arg)))
               /\ pc' = "send" /\ UNCHANGED <<ret, speed, word, cut>>
            \/ /\ TakeValue(Head(todo)) /\ ~(Head(todo).kind = "poll" /\ Busy(msg'[4]))
               /\ Step = Len(Plan(op, arg)) /\ Returns(Result) /\ UNCHANGED cut
<1>1. /\ pc = "wait" /\ fifo # << >>
      /\ op' = op /\ arg' = arg /\ UNCHANGED <<reqs, regs, phy, calls>>
  BY DEF Receive, call
<1>2. PICK n \in 1 .. 5 : n <= Len(fifo) /\ Fetched(n)
  BY DEF Receive
<1>3. /\ fifo \in Seq(Byte) /\ msg \in Seq(Byte) /\ Len(msg) = 5 /\ faults \in Nat
      /\ val \in Seq(Byte) /\ Len(val) = 4
  BY DEF TypeInv
<1>4. /\ msg' = SubSeq(fifo, 1, n) \o SubSeq(msg, n + 1, 5)
      /\ fifo' = SubSeq(fifo, n + 1, Len(fifo))
      /\ faults' = IF n < 5 THEN faults + 1 ELSE faults
  BY <1>2 DEF Fetched
<1>5. /\ msg' \in Seq(Byte) /\ Len(msg') = 5 /\ fifo' \in Seq(Byte)
      /\ n = 5 => msg'[4] = fifo[4]
      /\ n = 5 /\ Len(fifo) = 5 => fifo' = << >>
  BY <1>2, <1>3, <1>4, Splice
<1>6. faults' \in Nat /\ (faults' = 0 => faults = 0 /\ n = 5)
  BY <1>3, <1>4
<1>7. msg'[4] \in Byte
  <2>1. 4 \in 1 .. Len(msg')
    BY <1>5
  <2> QED BY <1>5, <2>1, ElementOfSeq
<1>8. ASSUME TakeValue(Head(todo)) PROVE val' \in Seq(Byte) /\ Len(val') = 4
  <2>1. PICK x \in Byte : x = msg'[4]
    BY <1>7
  <2>2. val' = IF Head(todo).kind = "read" THEN Append(Tail(val), x) ELSE val
    BY <1>8, <2>1 DEF TakeValue
  <2> QED BY <1>3, <2>2, Shift
<1>9. /\ Plan(op, arg) \in Seq(Transactions) /\ Step \in 1 .. Len(Plan(op, arg))
      /\ Len(todo) = Len(Plan(op, arg)) - Step + 1
      /\ Tail(todo) = SubSeq(Plan(op, arg), Step + 1, Len(Plan(op, arg)))
  BY <1>1, Doing
<1>10. Len(todo) > 1 <=> Step < Len(Plan(op, arg))
  BY <1>9
<1>11. ASSUME Len(todo) > 1, todo' = Tail(todo)
       PROVE  Step' = Step + 1 /\ todo' = SubSeq(Plan(op, arg), Step', Len(Plan(op, arg)))
  <2>1. PICK p \in Seq(Transactions) : p = Plan(op, arg)
    BY <1>9
  <2>2. PICK k \in Nat : k = Step
    BY <1>9
  <2>3. PICK j \in Nat : j = k + 1
    OBVIOUS
  <2>4. j \in 1 .. Len(p)
    BY <1>9, <1>10, <1>11, <2>1, <2>2, <2>3
  <2>5. Len(SubSeq(p, j, Len(p))) = Len(p) - j + 1
    BY <2>4, RestFacts
  <2>6. Len(todo') = Len(p) - j + 1
    BY <1>9, <1>11, <2>1, <2>2, <2>3, <2>5
  <2>7. Step' = Len(p) - (Len(p) - j + 1) + 1
    BY <1>1, <2>1, <2>6 DEF Step
  <2>8. Len(p) \in Nat /\ j \in Nat
    BY LenProperties
  <2>9. Step' = j
    BY <2>7, <2>8
  <2> QED BY <1>9, <1>11, <2>1, <2>2, <2>3, <2>9
<1>12. \/ Fails /\ val' = val
       \/ /\ TakeValue(Head(todo)) /\ Repeats(Head(todo), msg')
          /\ pc' = "send" /\ UNCHANGED <<todo, ret, speed, word, cut>>
       \/ /\ TakeValue(Head(todo)) /\ ~Repeats(Head(todo), msg')
          /\ Len(todo) > 1 /\ pc' = "send" /\ todo' = Tail(todo) /\ UNCHANGED <<ret, speed, word, cut>>
       \/ /\ TakeValue(Head(todo)) /\ ~Repeats(Head(todo), msg')
          /\ ~(Len(todo) > 1) /\ Returns(Result) /\ UNCHANGED cut
  BY DEF Receive
<1>13. CASE Fails /\ val' = val
  BY <1>1, <1>2, <1>3, <1>5, <1>6, <1>13
<1>14. CASE /\ TakeValue(Head(todo)) /\ Repeats(Head(todo), msg')
            /\ pc' = "send" /\ UNCHANGED <<todo, ret, speed, word, cut>>
  <2>1. Head(todo).kind = "poll" /\ Busy(msg'[4])
    BY <1>14 DEF Repeats
  <2>2. val' = val
    BY <1>14, <2>1 DEF TakeValue
  <2> QED BY <1>1, <1>3, <1>5, <1>6, <1>14, <2>1, <2>2
<1>15. CASE /\ TakeValue(Head(todo)) /\ ~Repeats(Head(todo), msg')
            /\ Len(todo) > 1 /\ pc' = "send" /\ todo' = Tail(todo) /\ UNCHANGED <<ret, speed, word, cut>>
  BY <1>1, <1>5, <1>6, <1>8, <1>10, <1>11, <1>15 DEF Repeats
<1>16. CASE /\ TakeValue(Head(todo)) /\ ~Repeats(Head(todo), msg')
            /\ ~(Len(todo) > 1) /\ Returns(Result) /\ UNCHANGED cut
  <2>1. Step = Len(Plan(op, arg))
    BY <1>9, <1>10, <1>16
  <2> QED BY <1>1, <1>5, <1>6, <1>8, <1>16, <2>1 DEF Repeats
<1> QED BY <1>12, <1>13, <1>14, <1>15, <1>16

\* What the device does with a request
LEMMA RespondCases ==
  ASSUME TypeInv, Respond
  PROVE  /\ UNCHANGED <<pc, op, arg, todo, msg, val, ret, phy, speed, word, calls, faults, cut>>
         /\ reqs' \in Seq(Seq(Byte)) /\ Len(reqs') = Len(reqs) - 1 /\ Len(reqs) \in Nat /\ Len(reqs) >= 1
         /\ \A i \in 1 .. Len(reqs') : reqs'[i] = reqs[i + 1]
         /\ \E t \in Transactions :
              /\ reqs[1] = Request(t)
              /\ \/ /\ t.kind = "write" /\ regs' = [regs EXCEPT ![t.addr] = t.data]
                    /\ fifo' = fifo \o Request(t)
                 \/ /\ t.kind # "write" /\ regs' = regs
                    /\ fifo' = fifo \o Message(t.addr, regs[t.addr])
<1>1. reqs \in Seq(Seq(Byte)) /\ reqs # << >> /\ reqs' = Tail(reqs)
  BY DEF Respond, TypeInv
<1>2. /\ Len(reqs) \in Nat /\ Len(reqs) >= 1 /\ Head(reqs) = reqs[1] /\ 1 \in 1 .. Len(reqs)
  BY <1>1, EmptySeq
<1>3. /\ reqs' \in Seq(Seq(Byte)) /\ Len(reqs') = Len(reqs) - 1
      /\ \A i \in 1 .. Len(reqs') : reqs'[i] = reqs[i + 1]
  BY <1>1, HeadTailProperties
<1>4. PICK t \in Transactions : reqs[1] = Request(t)
  BY <1>2 DEF TypeInv, IsRequest
<1> DEFINE q == Head(reqs)
           hi == q[2] * 256 + q[3]
<1>5. q = Request(t)
  BY <1>2, <1>4, Zenon
<1>6. hi = q[2] * 256 + q[3]
  OBVIOUS
<1>7. IF hi >= WriteBit
        THEN regs' = [regs EXCEPT ![hi % WriteBit] = q[4]] /\ fifo' = fifo \o q
        ELSE fifo' = fifo \o Message(hi % WriteBit, regs[hi % WriteBit]) /\ regs' = regs
  BY Zenon DEF Respond
<1> HIDE DEF q, hi
<1>8. /\ hi = IF t.kind = "write" THEN t.addr + WriteBit ELSE t.addr
      /\ q[4] = t.data /\ t.addr \in 0 .. WriteBit - 1
  BY <1>5, <1>6, RequestFacts, ZenonT(40)
<1>9. (hi >= WriteBit <=> t.kind = "write") /\ hi % WriteBit = t.addr
  <2>1. ASSUME NEW n \in 0 .. WriteBit - 1
        PROVE  ~(n >= WriteBit) /\ n + WriteBit >= WriteBit /\ (n + WriteBit) % WriteBit = n /\ n % WriteBit = n
    <3>1. n \in Nat /\ n < WriteBit
      BY WriteBitNat
    <3> QED BY <3>1, AboveAddress, Zenon
  <2>2. CASE t.kind = "write"
    BY <1>8, <2>1, <2>2, Zenon
  <2>3. CASE t.kind # "write"
    BY <1>8, <2>1, <2>3, Zenon
  <2> QED BY <2>2, <2>3
<1>10. UNCHANGED <<pc, op, arg, todo, msg, val, ret, phy, speed, word, calls, faults, cut>>
  BY DEF Respond, call, history
<1> QED BY <1>2, <1>3, <1>4, <1>5, <1>7, <1>8, <1>9, <1>10

LEMMA TypeInit == Init => TypeInv /\ PlanInv /\ CommandsInv
<1> SUFFICES ASSUME Init PROVE TypeInv /\ PlanInv /\ CommandsInv
  OBVIOUS
<1>1. <<0, 0, 0, 0, 0>> \in Seq(Byte) /\ <<1, 1, 1, 1>> \in Seq(Byte)
  BY DEF Byte
<1>2. regs \in [Addresses -> Byte] /\ phy \in Byte
  BY DEF Init, Byte
<1>3. << >> \in Seq(Seq(Byte)) /\ << >> \in Seq(Byte) /\ Len(<< >>) = 0
  BY EmptySeq
<1>4. TypeInv
  BY <1>1, <1>2, <1>3 DEF TypeInv, Init, Arguments
<1>5. CommandsInv
  BY AddressFacts DEF CommandsInv, Init
<1> QED BY <1>4, <1>5 DEF PlanInv, Init

\* What a call leaves behind when it returns
LEMMA ReturnTypes ==
  ASSUME TypeInv, NEW r \in {-1, 0}, Returns(r)
  PROVE  /\ ret' \in {-1, 0} /\ pc' = "idle"
         /\ speed' \in Speeds \cup {"unknown"} /\ word' \in Words \cup {<< >>}
<1>1. /\ op = "set" => arg \in Speeds
      /\ op = "write" => arg \in Words
  BY DEF TypeInv, Arguments
<1> QED BY <1>1 DEF Returns, TypeInv

LEMMA TypeStep == TypeInv /\ PlanInv /\ CommandsInv /\ [Next]_vars => TypeInv' /\ PlanInv' /\ CommandsInv'
<1> SUFFICES ASSUME TypeInv, PlanInv, CommandsInv, [Next]_vars PROVE TypeInv' /\ PlanInv' /\ CommandsInv'
  OBVIOUS
<1>1. ASSUME NEW o \in {"set", "get", "write", "read"}, Call(o) PROVE TypeInv' /\ PlanInv' /\ CommandsInv'
  <2>1. TypeInv'
    BY <1>1 DEF Call, TypeInv, device
  <2>2. PICK p \in Seq(Transactions) : p = Plan(op', arg') /\ Len(p) \in {3, 4}
    <3>1. CASE o = "set"
      BY <1>1, <3>1, SetPlan DEF Call, Arguments
    <3>2. CASE o = "write"
      BY <1>1, <3>2, WritePlan DEF Call, Arguments
    <3>3. CASE o = "get"
      BY <1>1, <3>3, GetPlan DEF Call
    <3>4. CASE o = "read"
      BY <1>1, <3>4, ReadPlan DEF Call
    <3> QED BY <3>1, <3>2, <3>3, <3>4
  <2>3. todo' = p /\ Step' = 1
    BY <1>1, <2>2 DEF Call, Step
  <2>4. SubSeq(p, 1, Len(p)) = p
    BY SubSeqFull
  <2>5. PlanInv'
    BY <2>2, <2>3, <2>4 DEF PlanInv
  <2>6. CommandsInv'
    BY <1>1 DEF Call, CommandsInv, device
  <2> QED BY <2>1, <2>5, <2>6
<1>2. CASE Send
  <2>1. /\ pc = "send" /\ pc' = "wait" /\ msg' = Request(Head(todo)) /\ reqs' = Append(reqs, msg')
        /\ UNCHANGED <<op, arg, todo, val, ret, fifo, regs, phy, speed, word, calls, faults, cut>>
    BY <1>2 DEF Send, Request, call, history
  <2>2. Head(todo) \in Transactions
    BY <2>1, Doing
  <2>3. msg' \in Seq(Byte) /\ Len(msg') = 5 /\ IsRequest(msg')
    BY <2>1, <2>2, RequestFacts DEF IsRequest
  <2>4. reqs' \in Seq(Seq(Byte)) /\ \A k \in 1 .. Len(reqs') : IsRequest(reqs'[k])
    <3>1. PICK m \in Seq(Byte) : m = msg' /\ IsRequest(m)
      BY <2>3
    <3>2. reqs \in Seq(Seq(Byte)) /\ \A k \in 1 .. Len(reqs) : IsRequest(reqs[k])
      BY DEF TypeInv
    <3>3. reqs' \in Seq(Seq(Byte)) /\ Len(reqs') = Len(reqs) + 1 /\ reqs'[Len(reqs) + 1] = m
      BY <2>1, <3>1, <3>2, AppendProperties
    <3>4. \A k \in 1 .. Len(reqs) : reqs'[k] = reqs[k]
      BY <2>1, <3>1, <3>2
    <3>5. ASSUME NEW k \in 1 .. Len(reqs') PROVE IsRequest(reqs'[k])
      <4>1. k \in 1 .. Len(reqs) \/ k = Len(reqs) + 1
        BY <3>2, <3>3
      <4> QED BY <3>1, <3>2, <3>3, <3>4, <4>1
    <3> QED BY <3>3, <3>5
  <2>5. TypeInv'
    BY <2>1, <2>3, <2>4 DEF TypeInv
  <2> QED BY <2>1, <2>5 DEF PlanInv, Step, CommandsInv
<1>3. CASE SendFails \/ ReceiveFails
  <2>1. /\ Returns(-1) /\ cut' \in {0, 1} /\ faults' \in Nat
        /\ UNCHANGED <<op, arg, msg, val, reqs, fifo, regs, phy>>
    BY <1>3 DEF SendFails, ReceiveFails, Fails, call, device, TypeInv
  <2>2. /\ ret' \in {-1, 0} /\ pc' = "idle"
        /\ speed' \in Speeds \cup {"unknown"} /\ word' \in Words \cup {<< >>}
    BY <2>1, ReturnTypes
  <2> QED BY <2>1, <2>2 DEF TypeInv, PlanInv, CommandsInv
<1>4. CASE Receive
  <2>1. /\ UNCHANGED <<op, arg, reqs, regs, phy>>
        /\ msg' \in Seq(Byte) /\ Len(msg') = 5 /\ fifo' \in Seq(Byte) /\ faults' \in Nat
        /\ val' \in Seq(Byte) /\ Len(val') = 4 /\ pc # "idle"
        /\ \/ (\E r \in {-1, 0} : Returns(r)) /\ cut' \in {0, 1}
           \/ pc' = "send" /\ UNCHANGED <<todo, ret, speed, word, cut>>
           \/ /\ Step < Len(Plan(op, arg)) /\ Step' = Step + 1
              /\ todo' = SubSeq(Plan(op, arg), Step', Len(Plan(op, arg)))
              /\ pc' = "send" /\ UNCHANGED <<ret, speed, word, cut>>
    <3>1. Result \in {-1, 0}
      BY DEF Result
    <3>2. Fails => Returns(-1) /\ cut' \in {0, 1}
      BY DEF Fails, TypeInv
    <3>3. UNCHANGED cut => cut' \in {0, 1}
      BY DEF TypeInv
    <3> QED BY <1>4, <3>1, <3>2, <3>3, ReceiveCases
  <2>2. CASE (\E r \in {-1, 0} : Returns(r)) /\ cut' \in {0, 1}
    <3>1. /\ ret' \in {-1, 0} /\ pc' = "idle"
          /\ speed' \in Speeds \cup {"unknown"} /\ word' \in Words \cup {<< >>}
      BY <2>2, ReturnTypes
    <3> QED BY <2>1, <3>1 DEF TypeInv, PlanInv, CommandsInv
  <2>3. CASE pc' = "send" /\ UNCHANGED <<todo, ret, speed, word, cut>>
    BY <2>1, <2>3 DEF TypeInv, PlanInv, Step, CommandsInv
  <2>4. CASE /\ Step < Len(Plan(op, arg)) /\ Step' = Step + 1
             /\ todo' = SubSeq(Plan(op, arg), Step', Len(Plan(op, arg)))
             /\ pc' = "send" /\ UNCHANGED <<ret, speed, word, cut>>
    <3>1. Step' \in 1 .. Len(Plan(op, arg))
      <4>1. /\ Step \in 1 .. Len(Plan(op, arg)) /\ Len(Plan(op, arg)) \in Nat
            /\ Step < Len(Plan(op, arg)) /\ Step' = Step + 1
        <5>1. Step \in 1 .. Len(Plan(op, arg)) /\ Len(Plan(op, arg)) \in {3, 4}
          BY <2>1, Doing, Zenon
        <5>2. Len(Plan(op, arg)) \in Nat
          BY <5>1
        <5> QED BY <2>4, <5>1, <5>2, Zenon
      <4>2. \A m \in Nat : \A s \in 1 .. m : s < m => s + 1 \in 1 .. m
        OBVIOUS
      <4> QED BY <4>1, <4>2, Zenon
    <3>2. Plan(op, arg)' = Plan(op, arg)
      BY <2>1
    <3>3. regs' = regs /\ CommandsInv'
      BY <2>1, Zenon DEF CommandsInv
    <3>4. /\ pc' \in {"idle", "send", "wait"} /\ ret' \in {-1, 0} /\ cut' \in {0, 1}
          /\ speed' \in Speeds \cup {"unknown"} /\ word' \in Words \cup {<< >>}
      BY <2>4, SMTT(30) DEF TypeInv
    <3>5. /\ op' = op /\ arg' = arg /\ reqs' = reqs /\ phy' = phy
          /\ Arguments(op)' = Arguments(op)
      BY <2>1
    <3>6. /\ op' \in {"set", "get", "write", "read"} /\ arg' \in Arguments(op)'
          /\ reqs' \in Seq(Seq(Byte)) /\ regs' \in [Addresses -> Byte] /\ phy' \in Byte
          /\ \A k \in 1 .. Len(reqs') : IsRequest(reqs'[k])
      BY <3>3, <3>5, Zenon DEF TypeInv
    <3>7. TypeInv'
      BY <2>1, <3>4, <3>6, ZenonT(40) DEF TypeInv
    <3> QED BY <3>7, <2>4, <3>1, <3>2, <3>3 DEF PlanInv
  <2> QED BY <2>1, <2>2, <2>3, <2>4
<1>5. CASE Respond
  <2>1. /\ UNCHANGED <<pc, op, arg, todo, msg, val, ret, phy, speed, word, calls, faults, cut>>
        /\ reqs' \in Seq(Seq(Byte)) /\ Len(reqs') = Len(reqs) - 1 /\ Len(reqs) \in Nat
        /\ \A i \in 1 .. Len(reqs') : reqs'[i] = reqs[i + 1]
    BY <1>5, RespondCases
  <2>2. PICK t \in Transactions :
          \/ /\ t.kind = "write" /\ regs' = [regs EXCEPT ![t.addr] = t.data]
             /\ fifo' = fifo \o Request(t)
          \/ /\ t.kind # "write" /\ regs' = regs
             /\ fifo' = fifo \o Message(t.addr, regs[t.addr])
    BY <1>5, RespondCases
  <2>3. \A i \in 1 .. Len(reqs') : IsRequest(reqs'[i])
    <3>1. \A i \in 1 .. Len(reqs') : i + 1 \in 1 .. Len(reqs)
      BY <2>1
    <3> QED BY <2>1, <3>1 DEF TypeInv
  <2>4. t.addr \in Addresses /\ t.data \in Byte /\ regs \in [Addresses -> Byte] /\ fifo \in Seq(Byte)
    BY DEF Transactions, TypeInv
  <2>5. regs' \in [Addresses -> Byte]
    BY <2>2, <2>4, SMTT(30)
  <2>6. Message(t.addr, regs[t.addr]) \in Seq(Byte)
    <3>1. t.addr \in Nat /\ t.addr < WriteBit + WriteBit
      <4>1. ASSUME NEW n \in 0 .. WriteBit - 1 PROVE n \in Nat /\ n < WriteBit + WriteBit
        BY WriteBitNat
      <4> QED BY <4>1, RequestFacts
    <3>2. regs[t.addr] \in Byte
      BY <2>4
    <3> QED BY <3>1, <3>2, MessageFacts
  <2>7. fifo' \in Seq(Byte)
    <3>1. PICK q \in Seq(Byte) : fifo' = fifo \o q
      BY <2>2, <2>6, RequestFacts
    <3> QED BY <2>4, <3>1, ConcatProperties
  <2>8. TypeInv'
    BY <2>1, <2>3, <2>5, <2>7 DEF TypeInv
  <2>9. CommandsInv'
    <3>1. t.kind = "write" /\ t.addr \in {WCMD, RCMD} => t.data = Go + 4
      BY DEF Transactions
    <3> QED BY <2>2, <2>4, <3>1, AddressFacts DEF CommandsInv
  <2> QED BY <2>1, <2>8, <2>9 DEF PlanInv, Step
<1>6. CASE UlpiWrites \/ UlpiReads
  <2>1. UNCHANGED <<pc, op, arg, todo, msg, val, ret, reqs, fifo, speed, word, calls, faults, cut>>
    BY <1>6 DEF UlpiWrites, UlpiReads, call, history
  <2>2. \A c \in {WCMD, RCMD} : Busy(regs[c]) => regs[c] - Go = 4
    <3>1. ~Busy(0) /\ ~Busy(4) /\ (Go + 4) - Go = 4
      BY SMT DEF Busy, Go
    <3> QED BY <3>1 DEF CommandsInv
  <2>3. /\ \/ regs' = [regs EXCEPT ![WCMD] = 4] /\ phy' = regs[WDATA]
           \/ regs' = [regs EXCEPT ![RCMD] = 4, ![RDATA] = phy] /\ phy' = phy
    BY <1>6, <2>2 DEF UlpiWrites, UlpiReads
  <2>4. regs \in [Addresses -> Byte] /\ phy \in Byte /\ 4 \in Byte
    BY SMTT(30) DEF TypeInv, Byte
  <2>5. regs' \in [Addresses -> Byte] /\ phy' \in Byte
    BY <2>3, <2>4, AddressFacts
  <2>6. CommandsInv'
    BY <2>3, <2>4, AddressFacts, AddressesDiffer DEF CommandsInv
  <2>7. TypeInv'
    BY <2>1, <2>5 DEF TypeInv
  <2> QED BY <2>1, <2>6, <2>7 DEF PlanInv, Step
<1>7. CASE UNCHANGED vars
  BY <1>7 DEF vars, call, device, history, TypeInv, PlanInv, Step, CommandsInv
<1> QED BY <1>1, <1>2, <1>3, <1>4, <1>5, <1>6, <1>7 DEF Next, HostStep

-----------------------------------------------------------------------------
(***************************************************************************)
(* A word is written when the call says so                                 *)
(***************************************************************************)
\* A request more: what it writes is settled, and all else stays so.
LEMMA SettlesSend ==
  ASSUME TypeInv, NEW m \in Seq(Byte), reqs' = Append(reqs, m), regs' = regs, NEW a, NEW v,
         IF Writes(m, a) THEN m[4] = v ELSE Settles(a, v)
  PROVE  Settles(a, v)'
<1>1. reqs \in Seq(Seq(Byte))
  BY DEF TypeInv
<1>2. PICK L \in Nat : L = Len(reqs)
  BY <1>1
<1>3. /\ Len(reqs') = L + 1 /\ reqs'[L + 1] = m
  BY <1>1, <1>2, AppendProperties
<1>4. \A k \in 1 .. L : reqs'[k] = reqs[k]
  BY <1>1, <1>2
<1>5. CASE Writes(m, a)
  <2>1. L + 1 \in 1 .. Len(reqs') /\ \A j \in (L + 1) + 1 .. Len(reqs') : FALSE
    BY <1>3
  <2>2. Writes(reqs'[L + 1], a) /\ reqs'[L + 1][4] = v
    BY <1>3, <1>5
  <2> QED BY <2>1, <2>2 DEF Settles
<1>6. CASE ~Writes(m, a)
  <2>1. Settles(a, v)
    BY <1>6
  <2>2. CASE regs[a] = v /\ \A k \in 1 .. Len(reqs) : ~Writes(reqs[k], a)
    <3>1. ASSUME NEW k \in 1 .. Len(reqs') PROVE ~Writes(reqs'[k], a)
      <4>1. k \in 1 .. L \/ k = L + 1
        BY <1>3
      <4> QED BY <1>2, <1>3, <1>4, <1>6, <2>2, <4>1
    <3> QED BY <2>2, <3>1 DEF Settles
  <2>3. ASSUME NEW k \in 1 .. Len(reqs), Writes(reqs[k], a), reqs[k][4] = v,
               \A j \in k + 1 .. Len(reqs) : ~Writes(reqs[j], a)
        PROVE  Settles(a, v)'
    <3>1. k \in 1 .. Len(reqs') /\ Writes(reqs'[k], a) /\ reqs'[k][4] = v
      BY <1>2, <1>3, <1>4, <2>3
    <3>2. ASSUME NEW j \in k + 1 .. Len(reqs') PROVE ~Writes(reqs'[j], a)
      <4>1. (j \in k + 1 .. L /\ j \in 1 .. L) \/ j = L + 1
        BY <1>2, <1>3
      <4> QED BY <1>2, <1>3, <1>4, <1>6, <2>3, <4>1
    <3> QED BY <3>1, <3>2 DEF Settles
  <2> QED BY <2>1, <2>2, <2>3 DEF Settles
<1> QED BY <1>5, <1>6

\* The device takes a request, in their order.
LEMMA SettlesRespond ==
  ASSUME TypeInv, Respond, NEW a \in Addresses, NEW v, Settles(a, v)
  PROVE  Settles(a, v)'
<1>1. PICK L \in Nat : L = Len(reqs) /\ L >= 1
  BY RespondCases
<1>2. Len(reqs') = L - 1 /\ \A i \in 1 .. L - 1 : reqs'[i] = reqs[i + 1]
  BY <1>1, RespondCases
<1>3. PICK t \in Transactions :
        /\ reqs[1] = Request(t)
        /\ \/ t.kind = "write" /\ regs' = [regs EXCEPT ![t.addr] = t.data]
           \/ t.kind # "write" /\ regs' = regs
  BY RespondCases
<1>4. /\ Writes(reqs[1], a) => regs'[a] = reqs[1][4]
      /\ ~Writes(reqs[1], a) => regs'[a] = regs[a]
  <2>1. /\ Writes(reqs[1], a) <=> t.kind = "write" /\ t.addr = a
        /\ reqs[1][4] = t.data
    BY <1>3, RequestFacts
  <2>2. regs \in [Addresses -> Byte]
    BY DEF TypeInv
  <2> QED BY <1>3, <2>1, <2>2
<1>5. 1 \in 1 .. L
  BY <1>1
<1>6. CASE regs[a] = v /\ \A k \in 1 .. Len(reqs) : ~Writes(reqs[k], a)
  <2>1. regs'[a] = v
    BY <1>1, <1>4, <1>5, <1>6
  <2>2. ASSUME NEW k \in 1 .. Len(reqs') PROVE ~Writes(reqs'[k], a)
    <3>1. k \in 1 .. L - 1 /\ k + 1 \in 1 .. L
      BY <1>2
    <3> QED BY <1>1, <1>2, <1>6, <3>1
  <2> QED BY <2>1, <2>2 DEF Settles
<1>7. ASSUME NEW k \in 1 .. Len(reqs), Writes(reqs[k], a), reqs[k][4] = v,
             \A j \in k + 1 .. Len(reqs) : ~Writes(reqs[j], a)
      PROVE  Settles(a, v)'
  <2>1. CASE k = 1
    <3>1. regs'[a] = v
      BY <1>4, <1>7, <2>1
    <3>2. ASSUME NEW i \in 1 .. Len(reqs') PROVE ~Writes(reqs'[i], a)
      <4>1. i \in 1 .. L - 1 /\ i + 1 \in k + 1 .. L
        BY <1>2, <2>1
      <4> QED BY <1>1, <1>2, <1>7, <4>1
    <3> QED BY <3>1, <3>2 DEF Settles
  <2>2. CASE k # 1
    <3>1. k \in Nat /\ k - 1 \in Nat
      BY <1>1
    <3>2. PICK i \in Nat : i = k - 1
      BY <3>1
    <3>3. i \in 1 .. L - 1 /\ i + 1 = k /\ i \in 1 .. Len(reqs')
      BY <1>1, <1>2, <2>2, <3>2
    <3>4. reqs'[i] = reqs[k]
      BY <1>2, <3>3
    <3>5. ASSUME NEW j \in i + 1 .. Len(reqs') PROVE ~Writes(reqs'[j], a)
      <4>1. j \in 1 .. L - 1 /\ j + 1 \in k + 1 .. L
        BY <1>2, <3>3
      <4> QED BY <1>1, <1>2, <1>7, <4>1
    <3> QED BY <1>7, <3>3, <3>4, <3>5 DEF Settles
  <2> QED BY <2>1, <2>2
<1> QED BY <1>6, <1>7 DEF Settles

LEMMA SettlesFrame ==
  ASSUME NEW a, NEW v, Settles(a, v), reqs' = reqs, regs'[a] = regs[a]
  PROVE  Settles(a, v)'
BY DEF Settles

\* The device's own steps leave the word's registers alone.
LEMMA DeviceSettles ==
  ASSUME TypeInv, Respond \/ UlpiWrites \/ UlpiReads, NEW i \in 0 .. 3, NEW v, Settles(Word + i, v)
  PROVE  Settles(Word + i, v)'
<1>1. Word + i \in Addresses /\ Word + i \notin {WDATA, WCMD, RDATA, RCMD}
  BY AddressFacts
<1>2. CASE Respond
  BY <1>1, <1>2, SettlesRespond
<1>3. CASE UlpiWrites \/ UlpiReads
  <2>1. reqs' = reqs
    BY <1>3 DEF UlpiWrites, UlpiReads
  <2>2. regs'[Word + i] = regs[Word + i]
    <3>1. regs \in [Addresses -> Byte]
      BY DEF TypeInv
    <3> QED BY <1>1, <1>3, <3>1 DEF UlpiWrites, UlpiReads
  <2> QED BY <2>1, <2>2, SettlesFrame
<1> QED BY <1>2, <1>3

\* What a call is doing, by its plan
LEMMA DoingWhat ==
  ASSUME TypeInv, PlanInv, pc # "idle"
  PROVE  /\ op = "set" => /\ arg \in Speeds /\ Len(Plan(op, arg)) = 3 /\ Step \in 1 .. 3
                          /\ Step = 1 => Head(todo) = Write(WDATA, SpeedCode[arg])
                          /\ Step = 2 => Head(todo) = Write(WCMD, Go + 4)
                          /\ Step = 3 => Head(todo) = Poll(WCMD)
         /\ op = "get" => /\ Len(Plan(op, arg)) = 3 /\ Step \in 1 .. 3
                          /\ Step = 1 => Head(todo) = Write(RCMD, Go + 4)
                          /\ Step = 2 => Head(todo) = Poll(RCMD)
                          /\ Step = 3 => Head(todo) = Get(RDATA)
         /\ op = "write" => /\ arg \in Words /\ Len(Plan(op, arg)) = 4 /\ Step \in 1 .. 4
                            /\ \A i \in 0 .. 3 :
                                 Step = 4 - i => Head(todo) = Write(Word + i, arg[i + 1])
         /\ op = "read" => /\ Len(Plan(op, arg)) = 4 /\ Step \in 1 .. 4
                           /\ Head(todo) = Get(Word + (Step - 1))
<1>1. Step \in 1 .. Len(Plan(op, arg)) /\ Head(todo) = Plan(op, arg)[Step]
  BY Doing
<1>2. PICK k : k = Step
  OBVIOUS
<1>3. op = "set" => arg \in Speeds
  BY DEF TypeInv, Arguments
<1>4. op = "write" => arg \in Words
  BY DEF TypeInv, Arguments
<1>5. CASE op = "set"
  BY <1>1, <1>2, <1>3, <1>5, SetPlan
<1>6. CASE op = "get"
  BY <1>1, <1>2, <1>6, GetPlan
<1>7. CASE op = "write"
  BY <1>1, <1>2, <1>4, <1>7, WritePlan
<1>8. CASE op = "read"
  BY <1>1, <1>2, <1>8, ReadPlan
<1> QED BY <1>5, <1>6, <1>7, <1>8 DEF TypeInv

LEMMA SendCases ==
  ASSUME TypeInv, PlanInv, Send
  PROVE  /\ pc = "send" /\ pc' = "wait" /\ Head(todo) \in Transactions
         /\ reqs' = Append(reqs, Request(Head(todo)))
         /\ UNCHANGED <<op, arg, todo, val, ret, fifo, regs, phy, speed, word, calls, faults, cut>>
         /\ Step' = Step
<1>1. /\ pc = "send" /\ pc' = "wait" /\ msg' = Request(Head(todo)) /\ reqs' = Append(reqs, msg')
      /\ UNCHANGED <<op, arg, todo, val, ret, fifo, regs, phy, speed, word, calls, faults, cut>>
  BY DEF Send, Request, call, history
<1> QED BY <1>1, Doing DEF Step

\* A request for one of the word's registers is sent by a call that writes the word.
LEMMA SendWrites ==
  ASSUME TypeInv, PlanInv, Send, NEW i \in 0 .. 3
  PROVE  /\ op # "write" => ~Writes(Request(Head(todo)), Word + i)
         /\ op = "write" /\ Step = 4 - i =>
              Writes(Request(Head(todo)), Word + i) /\ Request(Head(todo))[4] = arg[i + 1]
         /\ op = "write" /\ Step # 4 - i => ~Writes(Request(Head(todo)), Word + i)
<1>1. pc # "idle" /\ Head(todo) \in Transactions
  BY SendCases
<1>2. PICK t \in Transactions : t = Head(todo)
  BY <1>1
<1>3. /\ Writes(Request(t), Word + i) <=> t.kind = "write" /\ t.addr = Word + i
      /\ Request(t)[4] = t.data
  BY RequestFacts
<1>4. Word + i \notin {WDATA, WCMD, RDATA, RCMD}
  BY AddressFacts
<1>5. CASE op = "set"
  <2>1. t \in {Write(WDATA, SpeedCode[arg]), Write(WCMD, Go + 4), Poll(WCMD)}
    BY <1>1, <1>2, <1>5, DoingWhat
  <2> QED BY <1>2, <1>3, <1>4, <1>5, <2>1 DEF Write, Poll
<1>6. CASE op = "get"
  <2>1. t \in {Write(RCMD, Go + 4), Poll(RCMD), Get(RDATA)}
    BY <1>1, <1>2, <1>6, DoingWhat
  <2> QED BY <1>2, <1>3, <1>4, <1>6, <2>1 DEF Write, Poll, Get
<1>7. CASE op = "read"
  <2>1. t = Get(Word + (Step - 1))
    BY <1>1, <1>2, <1>7, DoingWhat
  <2> QED BY <1>2, <1>3, <1>7, <2>1 DEF Get
<1>8. CASE op = "write"
  <2>1. PICK k \in 1 .. 4 : k = Step
    BY <1>1, <1>8, DoingWhat
  <2>2. PICK j \in 0 .. 3 : k = 4 - j
    BY <2>1
  <2>3. t = Write(Word + j, arg[j + 1])
    BY <1>1, <1>2, <1>8, <2>1, <2>2, DoingWhat
  <2>4. t.kind = "write" /\ t.addr = Word + j /\ t.data = arg[j + 1]
    BY <2>3 DEF Write
  <2>5. Word + i = Word + j <=> i = j
    BY AddressAssumption
  <2> QED BY <1>2, <1>3, <1>8, <2>1, <2>2, <2>4, <2>5
<1> QED BY <1>5, <1>6, <1>7, <1>8 DEF TypeInv

LEMMA WordStep ==
  TypeInv /\ PlanInv /\ CommandsInv /\ WordInv /\ [Next]_vars => WordInv'
<1> SUFFICES ASSUME TypeInv, PlanInv, CommandsInv, WordInv, [Next]_vars PROVE WordInv'
  OBVIOUS
<1>1. ASSUME NEW o \in {"set", "get", "write", "read"}, Call(o) PROVE WordInv'
  <2>1. /\ op' = o /\ pc' = "send" /\ UNCHANGED <<reqs, regs>>
        /\ word' = IF o = "write" THEN << >> ELSE word
    BY <1>1 DEF Call, device
  <2>2. ASSUME NEW i \in 0 .. 3, NEW v, Settles(Word + i, v) PROVE Settles(Word + i, v)'
    BY <2>1, <2>2, SettlesFrame
  <2>3. ASSUME o = "write" PROVE Step' = 1
    <3>1. arg' \in Words /\ todo' = Plan("write", arg')
      BY <1>1, <2>3 DEF Call, Arguments
    <3>2. Len(Plan("write", arg')) = 4
      BY <3>1, WritePlan
    <3> QED BY <2>1, <2>3, <3>1, <3>2 DEF Step
  <2>4. o = "write" => \A i \in 0 .. 3 : ~(4 - i < Step' \/ (4 - i = Step' /\ pc' = "wait"))
    <3>1. \A i \in 0 .. 3 : ~(4 - i < 1)
      OBVIOUS
    <3> QED BY <2>1, <2>3, <3>1
  <2>5. word' # << >> => \A i \in 0 .. 3 : Settles(Word + i, word[i + 1])'
    BY <2>1, <2>2 DEF WordInv, Settles
  <2> QED BY <2>1, <2>4, <2>5 DEF WordInv
<1>2. CASE Send
  <2>1. /\ pc = "send" /\ pc' = "wait" /\ Head(todo) \in Transactions
        /\ reqs' = Append(reqs, Request(Head(todo)))
        /\ UNCHANGED <<op, arg, regs, word>> /\ Step' = Step
    BY <1>2, SendCases
  <2>2. PICK m \in Seq(Byte) : m = Request(Head(todo))
    BY <2>1, RequestFacts
  <2>3. ASSUME word # << >>, NEW i \in 0 .. 3 PROVE Settles(Word + i, word[i + 1])'
    <3>1. op # "write"
      BY <2>1, <2>3 DEF WordInv
    <3>2. ~Writes(m, Word + i)
      BY <1>2, <2>2, <3>1, SendWrites
    <3>3. Settles(Word + i, word[i + 1])
      BY <2>3 DEF WordInv
    <3>4. PICK v : v = word[i + 1]
      OBVIOUS
    <3>5. Settles(Word + i, v)'
      BY <2>1, <2>2, <3>2, <3>3, <3>4, SettlesSend
    <3> QED BY <2>1, <3>4, <3>5
  <2>4. ASSUME op = "write", NEW i \in 0 .. 3, 4 - i < Step \/ 4 - i = Step
        PROVE  word = << >> /\ Settles(Word + i, arg[i + 1])'
    <3>1. PICK v : v = arg[i + 1]
      OBVIOUS
    <3>2. IF Writes(m, Word + i) THEN m[4] = v ELSE Settles(Word + i, v)
      <4>1. Step \in Nat
        BY <2>1, <2>4, DoingWhat
      <4>2. CASE Step = 4 - i
        BY <1>2, <2>2, <2>4, <3>1, <4>2, SendWrites
      <4>3. CASE 4 - i < Step
        <5>1. Step # 4 - i
          BY <4>1, <4>3
        <5>2. ~Writes(m, Word + i)
          BY <1>2, <2>2, <2>4, <5>1, SendWrites
        <5>3. Settles(Word + i, v)
          BY <2>1, <2>4, <3>1, <4>3 DEF WordInv
        <5> QED BY <5>2, <5>3
      <4> QED BY <2>4, <4>2, <4>3
    <3>3. Settles(Word + i, v)'
      BY <2>1, <2>2, <3>2, SettlesSend
    <3> QED BY <2>1, <2>4, <3>1, <3>3 DEF WordInv
  <2>5. word' # << >> => \A i \in 0 .. 3 : Settles(Word + i, word[i + 1])'
    BY <2>1, <2>3
  <2>6. op = "write" => word = << >>
    BY <2>1 DEF WordInv
  <2> QED BY <2>1, <2>4, <2>5, <2>6 DEF WordInv
<1>3. CASE SendFails \/ ReceiveFails
  <2>1. pc' = "idle" /\ word' = word /\ UNCHANGED <<reqs, regs>>
    BY <1>3 DEF SendFails, ReceiveFails, Fails, Returns, device
  <2>2. ASSUME NEW i \in 0 .. 3, NEW v, Settles(Word + i, v) PROVE Settles(Word + i, v)'
    BY <2>1, <2>2, SettlesFrame
  <2> QED BY <2>1, <2>2 DEF WordInv, Settles
<1>4. CASE Receive
  <2>1. /\ pc = "wait" /\ UNCHANGED <<op, arg, reqs, regs>>
        /\ \/ Returns(-1)
           \/ /\ pc' = "send" /\ UNCHANGED <<todo, word>>
              /\ Head(todo).kind = "poll"
           \/ Step' = Step + 1 /\ pc' = "send" /\ word' = word
           \/ Step = Len(Plan(op, arg)) /\ Returns(Result)
    BY <1>4, ReceiveCases DEF Fails
  <2>2. ASSUME NEW i \in 0 .. 3, NEW v, Settles(Word + i, v) PROVE Settles(Word + i, v)'
    BY <2>1, <2>2, SettlesFrame
  <2>3. ASSUME word # << >>, word' = word, NEW i \in 0 .. 3 PROVE Settles(Word + i, word[i + 1])'
    <3>1. PICK v : v = word[i + 1]
      OBVIOUS
    <3>2. Settles(Word + i, v)
      BY <2>3, <3>1 DEF WordInv
    <3>3. Settles(Word + i, v)'
      BY <2>2, <3>2
    <3> QED BY <2>3, <3>1, <3>3
  <2>4. CASE Returns(-1)
    BY <2>1, <2>3, <2>4 DEF WordInv, Returns, Settles
  <2>5. CASE /\ pc' = "send" /\ UNCHANGED <<todo, word>>
             /\ Head(todo).kind = "poll"
    <3>1. op # "write"
      <4> SUFFICES ASSUME op = "write" PROVE FALSE
        OBVIOUS
      <4>1. PICK k \in 1 .. 4 : k = Step
        BY <2>1, DoingWhat
      <4>2. PICK j \in 0 .. 3 : k = 4 - j
        BY <4>1
      <4>3. Head(todo) = Write(Word + j, arg[j + 1])
        BY <2>1, <4>1, <4>2, DoingWhat
      <4> QED BY <2>5, <4>3 DEF Write
    <3> QED BY <2>1, <2>3, <2>5, <3>1 DEF WordInv, Settles
  <2>6. CASE Step' = Step + 1 /\ pc' = "send" /\ word' = word
    <3>1. ASSUME op = "write", NEW i \in 0 .. 3, 4 - i < Step + 1
          PROVE  Settles(Word + i, arg[i + 1])' /\ word = << >>
      <4>1. Step \in 1 .. 4
        BY <2>1, <3>1, DoingWhat
      <4>2. 4 - i < Step \/ 4 - i = Step
        BY <3>1, <4>1
      <4>3. Settles(Word + i, arg[i + 1]) /\ word = << >>
        BY <2>1, <3>1, <4>2 DEF WordInv
      <4> QED BY <2>1, <2>2, <4>3 DEF Settles
    <3>2. op = "write" => word = << >>
      BY <2>1 DEF WordInv
    <3> QED BY <2>1, <2>3, <2>6, <3>1, <3>2 DEF WordInv
  <2>7. CASE Step = Len(Plan(op, arg)) /\ Returns(Result)
    <3>1. CASE op = "write"
      <4>1. Step = 4
        BY <2>1, <2>7, <3>1, DoingWhat
      <4>2. \A i \in 0 .. 3 : 4 - i < 4 \/ 4 - i = 4
        OBVIOUS
      <4>3. \A i \in 0 .. 3 : Settles(Word + i, arg[i + 1])
        BY <2>1, <3>1, <4>1, <4>2 DEF WordInv
      <4>4. pc' = "idle" /\ word' = arg
        BY <2>7, <3>1 DEF Returns, Result
      <4>5. ASSUME NEW i \in 0 .. 3 PROVE Settles(Word + i, word[i + 1])'
        <5>1. PICK v : v = arg[i + 1]
          OBVIOUS
        <5>2. Settles(Word + i, v)'
          BY <2>2, <4>3, <5>1
        <5> QED BY <4>4, <5>1, <5>2
      <4> QED BY <4>4, <4>5 DEF WordInv
    <3>2. CASE op # "write"
      <4>1. pc' = "idle" /\ word' = word
        BY <2>7, <3>2 DEF Returns
      <4> QED BY <2>3, <4>1 DEF WordInv, Settles
    <3> QED BY <3>1, <3>2
  <2> QED BY <2>1, <2>4, <2>5, <2>6, <2>7
<1>5. CASE Respond \/ UlpiWrites \/ UlpiReads
  <2>1. UNCHANGED <<pc, op, arg, todo, word>>
    <3>1. CASE Respond
      BY <3>1 DEF Respond, call, history
    <3>2. CASE UlpiWrites
      BY <3>2 DEF UlpiWrites, call, history
    <3>3. CASE UlpiReads
      BY <3>3 DEF UlpiReads, call, history
    <3> QED BY <1>5, <3>1, <3>2, <3>3, Zenon
  <2>2. ASSUME NEW i \in 0 .. 3, NEW v, Settles(Word + i, v) PROVE Settles(Word + i, v)'
    BY <1>5, <2>2, DeviceSettles
  <2>3. Step' = Step
    BY <2>1 DEF Step
  <2>4. ASSUME NEW i \in 0 .. 3, Settles(Word + i, word[i + 1]) PROVE Settles(Word + i, word[i + 1])'
    <3>1. PICK v : v = word[i + 1]
      OBVIOUS
    <3> QED BY <2>1, <2>2, <2>4, <3>1
  <2>5. ASSUME NEW i \in 0 .. 3, Settles(Word + i, arg[i + 1]) PROVE Settles(Word + i, arg[i + 1])'
    <3>1. PICK v : v = arg[i + 1]
      OBVIOUS
    <3> QED BY <2>1, <2>2, <2>5, <3>1
  <2> QED BY <2>1, <2>3, <2>4, <2>5 DEF WordInv
<1>6. CASE UNCHANGED vars
  BY <1>6 DEF vars, call, device, history, WordInv, Settles, Step
<1> QED BY <1>1, <1>2, <1>3, <1>4, <1>5, <1>6 DEF Next, HostStep

-----------------------------------------------------------------------------
(***************************************************************************)
(* Each transaction reads its own answer                                   *)
(***************************************************************************)
LEMMA BusyFacts ==
  ~Busy(0) /\ ~Busy(4) /\ Busy(Go + 4)
BY SMT DEF Busy, Go

\* The device answers the one request under way.
LEMMA RespondInStep ==
  ASSUME TypeInv, PlanInv, InStep, Respond
  PROVE  /\ pc = "wait" /\ reqs' = << >> /\ Len(fifo') = 5 /\ Head(todo) \in Transactions
         /\ UNCHANGED <<pc, op, arg, todo, msg, val, ret, phy, speed, word, calls, faults, cut>>
         /\ Head(todo).kind = "write" =>
              regs' = [regs EXCEPT ![Head(todo).addr] = Head(todo).data]
         /\ Head(todo).kind # "write" =>
              regs' = regs /\ fifo'[4] = regs[Head(todo).addr]
         /\ reqs = <<Request(Head(todo))>> /\ Step' = Step
<1>1. /\ reqs \in Seq(Seq(Byte)) /\ reqs # << >> /\ Len(reqs) \in Nat /\ Len(reqs) >= 1
      /\ UNCHANGED <<pc, op, arg, todo, msg, val, ret, phy, speed, word, calls, faults, cut>>
      /\ reqs' \in Seq(Seq(Byte)) /\ Len(reqs') = Len(reqs) - 1
  BY RespondCases DEF TypeInv, Respond
<1>2. pc = "wait" /\ reqs = <<Request(Head(todo))>> /\ fifo = << >>
  BY <1>1 DEF InStep
<1>3. PICK h \in Transactions : h = Head(todo)
  BY <1>2, Doing
<1>4. PICK t \in Transactions :
        /\ reqs[1] = Request(t)
        /\ \/ /\ t.kind = "write" /\ regs' = [regs EXCEPT ![t.addr] = t.data]
              /\ fifo' = fifo \o Request(t)
           \/ /\ t.kind # "write" /\ regs' = regs
              /\ fifo' = fifo \o Message(t.addr, regs[t.addr])
  BY RespondCases, SMTT(30)
<1>5. Request(t) = Request(h)
  BY <1>2, <1>3, <1>4
<1>6. /\ t.kind = "write" <=> h.kind = "write"
      /\ t.addr = h.addr /\ t.data = h.data
  <2>1. PICK q : q = Request(t)
    OBVIOUS
  <2>2. /\ q[2] * 256 + q[3] = IF t.kind = "write" THEN t.addr + WriteBit ELSE t.addr
        /\ q[2] * 256 + q[3] = IF h.kind = "write" THEN h.addr + WriteBit ELSE h.addr
        /\ q[4] = t.data /\ q[4] = h.data
        /\ t.addr \in 0 .. WriteBit - 1 /\ h.addr \in 0 .. WriteBit - 1
    BY <1>5, <2>1, RequestFacts
  <2>3. ASSUME NEW m \in 0 .. WriteBit - 1, NEW n \in 0 .. WriteBit - 1
        PROVE  m + WriteBit # n /\ (m + WriteBit = n + WriteBit => m = n)
    BY WriteBitNat
  <2> QED BY <2>2, <2>3
<1>7. Len(Request(t)) = 5 /\ Request(t) \in Seq(Byte)
  BY RequestFacts
<1>8. t.addr \in Nat /\ t.addr < WriteBit + WriteBit /\ regs[t.addr] \in Byte
  <2>1. ASSUME NEW n \in 0 .. WriteBit - 1 PROVE n \in Nat /\ n < WriteBit + WriteBit
    BY WriteBitNat
  <2>2. t.addr \in Addresses /\ regs \in [Addresses -> Byte]
    BY DEF Transactions, TypeInv
  <2> QED BY <2>1, <2>2, RequestFacts
<1>9. /\ Message(t.addr, regs[t.addr]) \in Seq(Byte) /\ Len(Message(t.addr, regs[t.addr])) = 5
      /\ Message(t.addr, regs[t.addr])[4] = regs[t.addr]
  BY <1>8, MessageFacts
<1>10. \A q \in Seq(Byte) : << >> \o q = q
  BY ConcatEmptySeq
<1>11. Len(fifo') = 5 /\ (t.kind # "write" => fifo'[4] = regs[t.addr])
  BY <1>2, <1>4, <1>7, <1>9, <1>10
<1>12. reqs' = << >>
  BY <1>1, <1>2, EmptySeq
<1> QED BY <1>1, <1>2, <1>3, <1>4, <1>6, <1>11, <1>12, SMTT(30) DEF Step

\* The fields of the transactions
LEMMA Fields ==
  /\ \A a, v : Write(a, v).kind = "write" /\ Write(a, v).addr = a /\ Write(a, v).data = v
  /\ \A a : /\ Get(a).kind = "read" /\ Get(a).addr = a
            /\ Poll(a).kind = "poll" /\ Poll(a).addr = a
BY DEF Write, Get, Poll

\* The device answers without the bridge: what changes, by the call
LEMMA RespondWrites ==
  ASSUME TypeInv, PlanInv, InStep, Respond
  PROVE  /\ op = "set" /\ Step = 1 => regs'[WDATA] = SpeedCode[arg] /\ regs'[WCMD] = regs[WCMD]
         /\ op = "set" /\ Step = 2 => regs'[WDATA] = regs[WDATA] /\ regs'[WCMD] = Go + 4
         /\ op = "set" /\ Step = 3 => regs' = regs /\ fifo'[4] = regs[WCMD]
         /\ op = "get" /\ Step = 1 => regs'[RCMD] = Go + 4
         /\ op = "get" /\ Step = 2 => regs' = regs /\ fifo'[4] = regs[RCMD]
         /\ op = "get" /\ Step = 3 => regs' = regs /\ fifo'[4] = regs[RDATA]
         /\ op = "read" => regs' = regs /\ fifo'[4] = regs[Word + (Step - 1)]
         /\ op # "set" => regs'[WDATA] = regs[WDATA] /\ regs'[WCMD] = regs[WCMD]
         /\ op # "get" => regs'[RCMD] = regs[RCMD]
<1> DEFINE h == Head(todo)
<1>1. /\ pc # "idle" /\ regs \in [Addresses -> Byte]
      /\ h.kind = "write" => regs' = [regs EXCEPT ![h.addr] = h.data]
      /\ h.kind # "write" => regs' = regs /\ fifo'[4] = regs[h.addr]
  BY RespondInStep DEF TypeInv
<1>2. /\ op = "set" => /\ Step = 1 => h = Write(WDATA, SpeedCode[arg])
                       /\ Step = 2 => h = Write(WCMD, Go + 4)
                       /\ Step = 3 => h = Poll(WCMD)
                       /\ Step \in 1 .. 3
      /\ op = "get" => /\ Step = 1 => h = Write(RCMD, Go + 4)
                       /\ Step = 2 => h = Poll(RCMD)
                       /\ Step = 3 => h = Get(RDATA)
                       /\ Step \in 1 .. 3
      /\ op = "write" => \A i \in 0 .. 3 : Step = 4 - i => h = Write(Word + i, arg[i + 1])
      /\ op = "write" => Step \in 1 .. 4
      /\ op = "read" => h = Get(Word + (Step - 1))
  BY <1>1, DoingWhat
<1>3. {WDATA, WCMD, RDATA, RCMD} \subseteq Addresses
  BY AddressFacts
<1> HIDE DEF h
<1>4. CASE op = "set"
  BY <1>1, <1>2, <1>3, <1>4, Fields, AddressesDiffer
<1>5. CASE op = "get"
  <2>1. \/ Step = 1 /\ h = Write(RCMD, Go + 4)
        \/ Step = 2 /\ h = Poll(RCMD)
        \/ Step = 3 /\ h = Get(RDATA)
    BY <1>2, <1>5
  <2>2. CASE Step = 1 /\ h = Write(RCMD, Go + 4)
    BY <1>1, <1>3, <1>5, <2>2, Fields, AddressesDiffer
  <2>3. CASE Step = 2 /\ h = Poll(RCMD)
    BY <1>1, <1>5, <2>3, Fields
  <2>4. CASE Step = 3 /\ h = Get(RDATA)
    BY <1>1, <1>5, <2>4, Fields
  <2> QED BY <2>1, <2>2, <2>3, <2>4
<1>6. CASE op = "write"
  <2>1. PICK k \in 1 .. 4 : k = Step
    BY <1>2, <1>6
  <2>2. PICK j \in 0 .. 3 : k = 4 - j
    BY <2>1
  <2>3. h = Write(Word + j, arg[j + 1])
    BY <1>2, <1>6, <2>1, <2>2
  <2>4. Word + j \notin {WDATA, WCMD, RDATA, RCMD}
    BY AddressFacts
  <2> QED BY <1>1, <1>3, <1>6, <2>3, <2>4, Fields
<1>7. CASE op = "read"
  BY <1>1, <1>2, <1>7, Fields
<1> QED BY <1>4, <1>5, <1>6, <1>7 DEF TypeInv

LEMMA SyncCall ==
  ASSUME TypeInv, PlanInv, SyncInv, faults = 0, NEW o \in {"set", "get", "write", "read"}, Call(o)
  PROVE  SyncInv'
<1>1. /\ pc = "idle" /\ pc' = "send" /\ op' = o /\ todo' = Plan(o, arg') /\ arg' \in Arguments(o)
      /\ speed' = (IF o = "set" THEN "unknown" ELSE speed)
      /\ word' = (IF o = "write" THEN << >> ELSE word)
      /\ UNCHANGED <<val, ret, reqs, fifo, regs, phy, faults, cut>>
  BY DEF Call, device
<1>2. o # "write" => Step' = 1
  <2>1. CASE o = "set"
    <3>1. Len(Plan("set", arg')) = 3
      BY <1>1, <2>1, SetPlan DEF Arguments
    <3> QED BY <1>1, <2>1, <3>1 DEF Step
  <2>2. CASE o = "get"
    <3>1. Len(Plan("get", arg')) = 3
      BY GetPlan
    <3> QED BY <1>1, <2>2, <3>1 DEF Step
  <2>3. CASE o = "read"
    <3>1. Len(Plan("read", arg')) = 4
      BY ReadPlan
    <3> QED BY <1>1, <2>3, <3>1 DEF Step
  <2> QED BY <2>1, <2>2, <2>3
<1>3. InStep /\ SetInv /\ BridgeInv
  BY DEF SyncInv
<1>4. InStep' /\ ~Answered'
  BY <1>1, <1>3 DEF InStep, Answered
<1>5. SetInv'
  BY <1>1, <1>2, <1>3, <1>4 DEF SetInv
<1>6. GetInv'
  BY <1>1, <1>2, <1>4 DEF GetInv
<1>7. ReadInv'
  BY <1>1, <1>2, <1>4 DEF ReadInv
<1>8. BridgeInv'
  BY <1>1, <1>3 DEF BridgeInv
<1> QED BY <1>4, <1>5, <1>6, <1>7, <1>8 DEF SyncInv

LEMMA SyncSend ==
  ASSUME TypeInv, PlanInv, SyncInv, faults = 0, Send
  PROVE  SyncInv'
<1>1. /\ pc = "send" /\ pc' = "wait" /\ Head(todo) \in Transactions /\ Step' = Step
      /\ reqs' = Append(reqs, Request(Head(todo)))
      /\ UNCHANGED <<op, arg, todo, val, ret, fifo, regs, phy, speed, word, calls, faults, cut>>
  BY SendCases
<1>2. InStep /\ SetInv /\ GetInv /\ ReadInv /\ BridgeInv
  BY DEF SyncInv
<1>3. fifo' = << >> /\ reqs' = <<Request(Head(todo))>> /\ Head(todo)' = Head(todo)
  BY <1>1, <1>2 DEF InStep
<1>4. InStep' /\ ~Answered' /\ ~Answered
  <2>1. <<Request(Head(todo))>> # << >>
    OBVIOUS
  <2> QED BY <1>1, <1>3, <2>1 DEF InStep, Answered, Request
<1>5. SetInv'
  BY <1>1, <1>2, <1>4 DEF SetInv
<1>6. GetInv'
  BY <1>1, <1>2, <1>4 DEF GetInv
<1>7. ReadInv'
  BY <1>1, <1>2, <1>4 DEF ReadInv
<1>8. BridgeInv'
  BY <1>1, <1>2, <1>4 DEF BridgeInv
<1> QED BY <1>4, <1>5, <1>6, <1>7, <1>8 DEF SyncInv

\* A call that fails may leave the bridge busy.
LEMMA SyncFails ==
  ASSUME TypeInv, SetInv, BridgeInv, Fails,
         UNCHANGED <<op, val, regs, phy>>, reqs' = << >>, fifo' = << >>
  PROVE  SyncInv'
<1>1. /\ pc' = "idle" /\ ret' = -1 /\ speed' = speed
      /\ cut' = IF op \in {"set", "get"} THEN 1 ELSE cut
  BY DEF Fails, Returns
<1>2. InStep' /\ ~Answered'
  BY <1>1 DEF InStep, Answered
<1>3. SetInv'
  BY <1>1 DEF SetInv
<1>4. GetInv'
  BY <1>1, <1>2 DEF GetInv
<1>5. ReadInv'
  BY <1>1, <1>2 DEF ReadInv
<1>6. BridgeInv'
  BY <1>1 DEF BridgeInv
<1> QED BY <1>2, <1>3, <1>4, <1>5, <1>6 DEF SyncInv

\* The answer is to the transaction that waits for it.
LEMMA SyncReceive ==
  ASSUME TypeInv, PlanInv, SyncInv, faults' = 0, Receive
  PROVE  SyncInv'
<1> DEFINE h == Head(todo)
<1>1. /\ pc = "wait" /\ fifo # << >> /\ UNCHANGED <<op, arg, reqs, regs, phy>>
      /\ faults = 0 /\ msg'[4] = fifo[4] /\ (Len(fifo) = 5 => fifo' = << >>)
      /\ val' \in Seq(Byte)
  BY ReceiveCases
<1>2. InStep /\ SetInv /\ GetInv /\ ReadInv /\ BridgeInv
  BY <1>1 DEF SyncInv
<1>3. reqs = << >> /\ reqs' = << >> /\ fifo' = << >> /\ Answered
  BY <1>1, <1>2 DEF InStep, Answered
<1>4. /\ op = "set" => /\ arg \in Speeds /\ Len(Plan(op, arg)) = 3 /\ Step \in 1 .. 3
                       /\ Step = 1 => h.kind = "write"
                       /\ Step = 2 => h.kind = "write"
                       /\ Step = 3 => h.kind = "poll"
      /\ op = "get" => /\ Len(Plan(op, arg)) = 3 /\ Step \in 1 .. 3
                       /\ Step = 1 => h.kind = "write"
                       /\ Step = 2 => h.kind = "poll"
                       /\ Step = 3 => h.kind = "read"
      /\ op = "read" => Len(Plan(op, arg)) = 4 /\ Step \in 1 .. 4 /\ h.kind = "read"
  BY <1>1, DoingWhat, Fields
<1>5. h.kind = "read" /\ TakeValue(h) =>
        /\ \A i \in 1 .. 3 : val'[i] = val[i + 1]
        /\ val'[4] = fifo[4]
  <2> SUFFICES ASSUME h.kind = "read", TakeValue(h)
               PROVE  (\A i \in 1 .. 3 : val'[i] = val[i + 1]) /\ val'[4] = fifo[4]
    OBVIOUS
  <2>1. Len(fifo) = 5 /\ fifo \in Seq(Byte)
    <3>1. fifo \in Seq(Byte)
      BY DEF TypeInv
    <3>2. Len(fifo) = 5
      BY <1>1, <1>2 DEF InStep
    <3> QED BY <3>1, <3>2
  <2>2. PICK x \in Byte : x = fifo[4]
    <3>1. 4 \in 1 .. Len(fifo)
      BY <2>1
    <3> QED BY <2>1, <3>1, ElementOfSeq
  <2>3. val' = Append(Tail(val), x)
    BY <1>1, <2>2 DEF TakeValue
  <2> QED BY <2>2, <2>3, Shift, ZenonT(40) DEF TypeInv
<1> HIDE DEF h
<1>6. CASE Fails /\ val' = val
  BY <1>1, <1>2, <1>3, <1>6, SyncFails
<1>7. CASE /\ val' = val /\ pc' = "send" /\ UNCHANGED <<todo, ret, speed, word, cut>>
           /\ h.kind = "poll" /\ Busy(msg'[4])
  <2>1. InStep' /\ ~Answered'
    BY <1>3, <1>7 DEF InStep, Answered
  <2>2. Step' = Step
    BY <1>1, <1>7 DEF Step
  <2>3. SetInv'
    BY <1>1, <1>2, <1>3, <1>7, <2>1, <2>2 DEF SetInv
  <2>4. GetInv'
    BY <1>1, <1>2, <1>3, <1>7, <2>1, <2>2 DEF GetInv
  <2>5. ReadInv'
    BY <1>1, <1>2, <1>4, <1>7, <2>1, <2>2 DEF ReadInv
  <2>6. BridgeInv'
    BY <1>1, <1>2, <1>4, <1>7, <2>1, <2>2 DEF BridgeInv
  <2> QED BY <2>1, <2>3, <2>4, <2>5, <2>6 DEF SyncInv
<1>8. CASE /\ TakeValue(h) /\ ~(h.kind = "poll" /\ Busy(msg'[4]))
           /\ Step < Len(Plan(op, arg)) /\ Step' = Step + 1
           /\ pc' = "send" /\ UNCHANGED <<ret, speed, word, cut>>
  <2>1. InStep' /\ ~Answered'
    BY <1>3, <1>8 DEF InStep, Answered
  <2>2. SetInv'
    <3> USE DEF SetInv
    <3>1. speed' # "unknown" => ~Busy(regs'[WCMD]) /\ phy' = SpeedCode[speed']
      BY <1>1, <1>2, <1>8
    <3>2. ASSUME op = "set"
          PROVE  /\ speed = "unknown" /\ regs[WDATA] = SpeedCode[arg]
                 /\ Step = 2 => Busy(regs[WCMD]) \/ phy = SpeedCode[arg]
                 /\ Step' = 3 => Step = 2
      BY <1>1, <1>2, <1>3, <1>4, <1>8, <3>2
    <3> QED BY <1>1, <1>8, <2>1, <3>1, <3>2
  <2>3. GetInv'
    <3> USE DEF GetInv
    <3>1. ASSUME op = "get"
          PROVE  /\ speed # "unknown" => Busy(regs[RCMD]) \/ regs[RDATA] = phy
                 /\ Step = 2 => ~Busy(regs[RCMD])
                 /\ Step' = 3 => Step = 2
      BY <1>1, <1>2, <1>3, <1>4, <1>8, <3>1
    <3> QED BY <1>1, <1>8, <2>1, <3>1
  <2>4. ReadInv'
    <3>1. ASSUME op = "read", word # << >>, NEW j \in 1 .. (Step + 1) - 1
          PROVE  val'[(5 - (Step + 1)) + j] = word[j]
      <4>1. PICK s \in 1 .. 4 : s = Step
        BY <1>4, <3>1
      <4>2. s < 4
        BY <1>4, <1>8, <3>1, <4>1
      <4>3. fifo[4] = word[s]
        BY <1>2, <1>3, <3>1, <4>1 DEF ReadInv
      <4>4. CASE j = s
        <5>1. (5 - (s + 1)) + j = 4
          BY <4>4
        <5> QED BY <1>4, <1>5, <1>8, <3>1, <4>1, <4>3, <4>4, <5>1
      <4>5. CASE j # s
        <5>1. j \in 1 .. s - 1 /\ (5 - (s + 1)) + j \in 1 .. 3 /\ ((5 - (s + 1)) + j) + 1 = (5 - s) + j
          BY <3>1, <4>1, <4>2, <4>5
        <5>2. val[(5 - s) + j] = word[j]
          BY <1>1, <1>2, <3>1, <4>1, <5>1 DEF ReadInv
        <5> QED BY <1>4, <1>5, <1>8, <3>1, <4>1, <5>1, <5>2
      <4> QED BY <4>4, <4>5
    <3> QED BY <1>1, <1>8, <2>1, <3>1 DEF ReadInv
  <2>5. BridgeInv'
    <3>1. ASSUME cut = 0, Busy(regs[WCMD]) PROVE op = "set" /\ Step = 2
      <4>1. op = "set" /\ (Step = 3 \/ Step = 2)
        BY <1>2, <3>1 DEF BridgeInv
      <4>2. Len(Plan(op, arg)) = 3 /\ Step \in 1 .. 3
        BY <1>4, <4>1
      <4>3. Step < 3
        BY <1>8, <4>2
      <4> QED BY <4>1, <4>2, <4>3
    <3>2. ASSUME cut = 0, Busy(regs[RCMD]) PROVE op = "get" /\ Step = 1
      <4>1. op = "get" /\ (Step = 2 \/ Step = 1)
        BY <1>2, <3>2 DEF BridgeInv
      <4>2. Step = 2 => ~Busy(regs[RCMD])
        BY <1>1, <1>2, <1>3, <1>4, <1>8, <4>1 DEF GetInv
      <4> QED BY <3>2, <4>1, <4>2
    <3> QED BY <1>1, <1>8, <3>1, <3>2 DEF BridgeInv
  <2> QED BY <2>1, <2>2, <2>3, <2>4, <2>5 DEF SyncInv
<1>9. CASE /\ TakeValue(h) /\ ~(h.kind = "poll" /\ Busy(msg'[4]))
           /\ Step = Len(Plan(op, arg)) /\ Returns(Result) /\ UNCHANGED cut
  <2>1. /\ pc' = "idle" /\ (op # "get" => Result = 0) /\ Result \in {0, -1}
        /\ speed' = (IF op = "set" /\ Result = 0 THEN arg ELSE speed)
        /\ word' = (IF op = "write" /\ Result = 0 THEN arg ELSE word)
        /\ cut' = cut
    BY <1>9 DEF Returns, Result
  <2>2. InStep' /\ ~Answered'
    BY <1>3, <2>1 DEF InStep, Answered
  <2>3. op = "set" => ~Busy(regs[WCMD]) /\ phy = SpeedCode[arg]
    BY <1>1, <1>2, <1>3, <1>4, <1>9 DEF SetInv
  <2>4. SetInv'
    BY <1>1, <1>2, <2>1, <2>3 DEF SetInv
  <2>5. GetInv'
    <3>1. op = "get" /\ speed # "unknown" => val'[4] = phy /\ phy = SpeedCode[speed]
      BY <1>2, <1>3, <1>4, <1>5, <1>9 DEF GetInv, SetInv
    <3> QED BY <1>1, <2>1, <2>2, <3>1 DEF GetInv
  <2>6. ReadInv'
    <3>1. ASSUME op = "read", word # << >>, NEW j \in 1 .. 4 PROVE val'[j] = word[j]
      <4>1. Step = 4
        BY <1>4, <1>9, <3>1
      <4>2. fifo[4] = word[4]
        BY <1>2, <1>3, <3>1, <4>1 DEF ReadInv
      <4>3. CASE j = 4
        BY <1>4, <1>5, <1>9, <3>1, <4>2, <4>3
      <4>4. CASE j # 4
        <5>1. j \in 1 .. 3 /\ j \in 1 .. 4 - 1 /\ (5 - 4) + j = j + 1
          BY <4>4
        <5>2. val[(5 - 4) + j] = word[j]
          BY <1>1, <1>2, <3>1, <4>1, <5>1 DEF ReadInv
        <5> QED BY <1>4, <1>5, <1>9, <3>1, <5>1, <5>2
      <4> QED BY <4>3, <4>4
    <3> QED BY <1>1, <2>1, <2>2, <3>1 DEF ReadInv
  <2>7. BridgeInv'
    <3>1. op = "get" => Step = 3
      BY <1>4, <1>9
    <3> QED BY <1>1, <1>2, <2>1, <2>3, <3>1 DEF BridgeInv
  <2> QED BY <2>2, <2>4, <2>5, <2>6, <2>7 DEF SyncInv
<1> QED BY <1>6, <1>7, <1>8, <1>9, ReceiveCases DEF h

LEMMA SyncRespond ==
  ASSUME TypeInv, PlanInv, WordInv, WordInv', SyncInv, faults = 0, Respond
  PROVE  SyncInv'
<1>1. InStep /\ SetInv /\ GetInv /\ ReadInv /\ BridgeInv
  BY DEF SyncInv
<1>2. /\ pc = "wait" /\ pc' = "wait" /\ reqs' = << >> /\ Len(fifo') = 5
      /\ UNCHANGED <<op, arg, todo, val, ret, phy, speed, word, faults, cut>>
      /\ Step' = Step
  BY <1>1, RespondInStep
<1>3. ~Answered /\ Answered'
  <2>1. reqs # << >>
    BY DEF Respond
  <2> QED BY <1>2, <2>1 DEF Answered
<1>4. /\ op = "set" /\ Step = 1 => regs'[WDATA] = SpeedCode[arg] /\ regs'[WCMD] = regs[WCMD]
      /\ op = "set" /\ Step = 2 => regs'[WDATA] = regs[WDATA] /\ regs'[WCMD] = Go + 4
      /\ op = "set" /\ Step = 3 => regs' = regs /\ fifo'[4] = regs[WCMD]
      /\ op = "get" /\ Step = 1 => regs'[RCMD] = Go + 4
      /\ op = "get" /\ Step = 2 => regs' = regs /\ fifo'[4] = regs[RCMD]
      /\ op = "get" /\ Step = 3 => regs' = regs /\ fifo'[4] = regs[RDATA]
      /\ op = "read" => regs' = regs /\ fifo'[4] = regs[Word + (Step - 1)]
      /\ op # "set" => regs'[WDATA] = regs[WDATA] /\ regs'[WCMD] = regs[WCMD]
      /\ op # "get" => regs'[RCMD] = regs[RCMD]
  BY <1>1, RespondWrites
<1>5. op \in {"set", "get"} => Step = 1 \/ Step = 2 \/ Step = 3
  BY <1>2, DoingWhat
<1>6. InStep'
  BY <1>2 DEF InStep
<1>7. SetInv'
  <2>1. op # "set" => (speed' # "unknown" => ~Busy(regs'[WCMD]) /\ phy' = SpeedCode[speed'])
    BY <1>1, <1>2, <1>4 DEF SetInv
  <2>2. CASE op = "set"
    <3>1. speed = "unknown" /\ speed' = "unknown"
      BY <1>1, <1>2, <2>2 DEF SetInv
    <3>2. CASE Step = 1
      BY <1>2, <1>4, <2>2, <3>1, <3>2 DEF SetInv
    <3>3. CASE Step = 2
      BY <1>1, <1>2, <1>4, <2>2, <3>1, <3>3, BusyFacts DEF SetInv
    <3>4. CASE Step = 3
      BY <1>1, <1>2, <1>4, <2>2, <3>1, <3>4 DEF SetInv
    <3> QED BY <1>5, <2>2, <3>2, <3>3, <3>4
  <2> QED BY <1>2, <2>1, <2>2 DEF SetInv
<1>8. GetInv'
  <2>1. CASE op = "get"
    <3>1. CASE Step = 1
      BY <1>2, <1>4, <2>1, <3>1, BusyFacts DEF GetInv
    <3>2. CASE Step = 2
      BY <1>1, <1>2, <1>4, <2>1, <3>2 DEF GetInv
    <3>3. CASE Step = 3
      <4>1. speed # "unknown" => Busy(regs[RCMD]) \/ regs[RDATA] = phy
        BY <1>1, <1>2, <2>1, <3>3 DEF GetInv
      <4>2. ~Busy(regs[RCMD])
        BY <1>1, <1>2, <2>1, <3>3 DEF GetInv
      <4>3. regs' = regs /\ fifo'[4] = regs[RDATA]
        BY <1>4, <2>1, <3>3
      <4> QED BY <1>2, <3>3, <4>1, <4>2, <4>3 DEF GetInv
    <3> QED BY <1>5, <2>1, <3>1, <3>2, <3>3
  <2>2. CASE op # "get"
    BY <1>2, <2>2 DEF GetInv
  <2> QED BY <2>1, <2>2
<1>9. ReadInv'
  <2>1. ASSUME op = "read", word # << >> PROVE fifo'[4] = word[Step]
    <3>1. PICK i \in 0 .. 3 : i = Step - 1 /\ i + 1 = Step
      <4>1. Step \in 1 .. 4
        BY <1>2, <2>1, DoingWhat
      <4> QED BY <4>1
    <3>2. Settles(Word + i, word[i + 1])'
      BY <1>2, <2>1 DEF WordInv
    <3>3. regs'[Word + i] = word'[i + 1]
      <4>1. Len(reqs') = 0
        BY <1>2, EmptySeq
      <4>2. \A k \in 1 .. Len(reqs') : FALSE
        BY <4>1
      <4> QED BY <3>2, <4>2 DEF Settles
    <3> QED BY <1>2, <1>4, <2>1, <3>1, <3>3
  <2> QED BY <1>1, <1>2, <2>1 DEF ReadInv
<1>10. BridgeInv'
  <2>1. CASE op = "set"
    <3>1. CASE Step = 1
      BY <1>1, <1>2, <1>3, <1>4, <2>1, <3>1 DEF BridgeInv
    <3>2. cut = 0 => ~Busy(regs'[RCMD])
      BY <1>1, <1>4, <2>1 DEF BridgeInv
    <3> QED BY <1>2, <1>3, <1>5, <2>1, <3>1, <3>2 DEF BridgeInv
  <2>2. CASE op = "get"
    BY <1>1, <1>2, <1>3, <1>4, <1>5, <2>2 DEF BridgeInv
  <2>3. CASE op \notin {"set", "get"}
    BY <1>1, <1>2, <1>4, <2>3 DEF BridgeInv
  <2> QED BY <2>1, <2>2, <2>3
<1> QED BY <1>6, <1>7, <1>8, <1>9, <1>10 DEF SyncInv

LEMMA SyncBridge ==
  ASSUME TypeInv, PlanInv, CommandsInv, SyncInv, faults = 0, UlpiWrites \/ UlpiReads
  PROVE  SyncInv'
<1>1. InStep /\ SetInv /\ GetInv /\ ReadInv /\ BridgeInv
  BY DEF SyncInv
<1>2. UNCHANGED <<pc, op, arg, todo, msg, val, ret, reqs, fifo, speed, word, calls, faults, cut>>
  BY DEF UlpiWrites, UlpiReads, call, history
<1>3. /\ Step' = Step /\ (Answered' <=> Answered) /\ Head(todo)' = Head(todo)
  BY <1>2 DEF Step, Answered
<1>4. InStep'
  BY <1>1, <1>2, <1>3 DEF InStep, Request
<1>5. ReadInv'
  BY <1>1, <1>2, <1>3 DEF ReadInv
<1>6. \A c \in {WCMD, RCMD} : Busy(regs[c]) => ~Busy(regs[c] - Go)
  <2>1. (Go + 4) - Go = 4
    BY SMT DEF Go
  <2> QED BY <2>1, BusyFacts DEF CommandsInv
<1>7. regs \in [Addresses -> Byte] /\ {WDATA, WCMD, RDATA, RCMD} \subseteq Addresses
  BY AddressFacts DEF TypeInv
<1>8. CASE UlpiWrites
  <2>1. /\ Busy(regs[WCMD]) /\ phy' = regs[WDATA] /\ ~Busy(regs'[WCMD])
        /\ regs'[WDATA] = regs[WDATA] /\ regs'[RCMD] = regs[RCMD] /\ regs'[RDATA] = regs[RDATA]
    BY <1>6, <1>7, <1>8, AddressesDiffer DEF UlpiWrites
  <2>2. speed = "unknown"
    BY <1>1, <2>1 DEF SetInv
  <2>3. SetInv'
    BY <1>1, <1>2, <1>3, <2>1, <2>2 DEF SetInv
  <2>4. GetInv'
    BY <1>1, <1>2, <1>3, <2>1, <2>2 DEF GetInv
  <2>5. BridgeInv'
    BY <1>1, <1>2, <1>3, <2>1 DEF BridgeInv
  <2> QED BY <1>4, <1>5, <2>3, <2>4, <2>5 DEF SyncInv
<1>9. CASE UlpiReads
  <2>1. /\ Busy(regs[RCMD]) /\ phy' = phy /\ ~Busy(regs'[RCMD])
        /\ regs'[WDATA] = regs[WDATA] /\ regs'[WCMD] = regs[WCMD] /\ regs'[RDATA] = phy
    BY <1>6, <1>7, <1>9, AddressesDiffer DEF UlpiReads
  <2>3. SetInv'
    BY <1>1, <1>2, <1>3, <2>1 DEF SetInv
  <2>4. GetInv'
    BY <1>1, <1>2, <1>3, <2>1 DEF GetInv
  <2>5. BridgeInv'
    BY <1>1, <1>2, <1>3, <2>1 DEF BridgeInv
  <2> QED BY <1>4, <1>5, <2>3, <2>4, <2>5 DEF SyncInv
<1> QED BY <1>8, <1>9

LEMMA SyncStep ==
  TypeInv /\ PlanInv /\ CommandsInv /\ WordInv /\ WordInv' /\ SyncInv /\ [Next]_vars => SyncInv'
<1> SUFFICES ASSUME TypeInv, PlanInv, CommandsInv, WordInv, WordInv', SyncInv, [Next]_vars,
                    faults' = 0
             PROVE  SyncInv'
  BY DEF SyncInv
<1>1. ASSUME NEW o \in {"set", "get", "write", "read"}, Call(o) PROVE SyncInv'
  <2>1. faults = 0
    BY <1>1 DEF Call
  <2> QED BY <1>1, <2>1, SyncCall
<1>2. CASE Send
  <2>1. faults = 0
    BY <1>2, SendCases
  <2> QED BY <1>2, <2>1, SyncSend
<1>3. CASE SendFails
  <2>1. /\ pc = "send" /\ Fails /\ UNCHANGED <<op, val, reqs, fifo, regs, phy, faults>>
    BY <1>3 DEF SendFails, call, device
  <2>2. reqs = << >> /\ fifo = << >> /\ SetInv /\ BridgeInv
    BY <2>1 DEF SyncInv, InStep
  <2> QED BY <2>1, <2>2, SyncFails
<1>4. CASE ReceiveFails
  BY <1>4 DEF ReceiveFails, TypeInv
<1>5. CASE Receive
  BY <1>5, SyncReceive
<1>6. CASE Respond
  <2>1. faults = 0
    BY <1>6, RespondCases
  <2> QED BY <1>6, <2>1, SyncRespond
<1>7. CASE UlpiWrites \/ UlpiReads
  <2>1. faults = 0
    BY <1>7 DEF UlpiWrites, UlpiReads, history
  <2> QED BY <1>7, <2>1, SyncBridge
<1>8. CASE UNCHANGED vars
  <2>1. UNCHANGED <<pc, op, arg, todo, val, ret, reqs, fifo, regs, phy, speed, word, faults, cut>>
    BY <1>8 DEF vars, call, device, history
  <2>2. Step' = Step /\ (Answered' <=> Answered) /\ (InStep' <=> InStep)
    BY <2>1 DEF Step, Answered, InStep, Request
  <2> QED BY <2>1, <2>2 DEF SyncInv, SetInv, GetInv, ReadInv, BridgeInv
<1> QED BY <1>1, <1>2, <1>3, <1>4, <1>5, <1>6, <1>7, <1>8 DEF Next, HostStep

-----------------------------------------------------------------------------
(***************************************************************************)
(* What holds of every run                                                 *)
(***************************************************************************)
IInv == TypeInv /\ PlanInv /\ CommandsInv /\ WordInv /\ SyncInv

LEMMA Invariant == Spec => []IInv
<1>1. Init => IInv
  <2> SUFFICES ASSUME Init PROVE IInv
    OBVIOUS
  <2>1. TypeInv /\ PlanInv /\ CommandsInv
    BY TypeInit
  <2>2. WordInv
    BY DEF WordInv, Init
  <2>3. /\ pc = "idle" /\ op = "read" /\ word = << >> /\ speed = "unknown"
        /\ reqs = << >> /\ fifo = << >> /\ regs[WCMD] = 0 /\ regs[RCMD] = 0
    BY AddressFacts DEF Init
  <2>4. InStep /\ SetInv /\ GetInv /\ ReadInv
    BY <2>3 DEF InStep, SetInv, GetInv, ReadInv
  <2>5. BridgeInv
    BY <2>3, BusyFacts DEF BridgeInv
  <2> QED BY <2>1, <2>2, <2>4, <2>5 DEF IInv, SyncInv
<1>2. IInv /\ [Next]_vars => IInv'
  BY TypeStep, WordStep, SyncStep DEF IInv
<1> QED BY <1>1, <1>2, PTL DEF Spec

\* A call is at a transaction of its plan, the messages and registers hold bytes, and
\* the bridge gets no other command than that of PHY register 4 (src/src/cha.c:92-125,
\* 277-350).
THEOREM TypeCorrect == Spec => [](TypeInv /\ PlanInv /\ CommandsInv)
BY Invariant, PTL DEF IInv

\* A word was written when the call says so, whatever happened to the answers
\* (src/src/cha.c:92-125, 319-350).
THEOREM WordWrittenCorrect == Spec => []WordWritten
<1>1. IInv => WordWritten
  <2> SUFFICES ASSUME WordInv, reqs = << >>, word # << >>, NEW i \in 0 .. 3
               PROVE  regs[Word + i] = word[i + 1]
    BY DEF WordWritten, IInv
  <2>1. Settles(Word + i, word[i + 1])
    BY DEF WordInv
  <2>2. Len(reqs) = 0
    BY EmptySeq
  <2>3. \A k \in 1 .. Len(reqs) : FALSE
    BY <2>2
  <2> QED BY <2>1, <2>3 DEF Settles
<1> QED BY <1>1, Invariant, PTL

\* While no read was short or failed, what was set or written is what is read
\* (src/src/cha.c:92-125, 277-288, 310-350).
THEOREM ReadsBackCorrect == Spec => []ReadsBack
<1>1. IInv => ReadsBack
  <2> SUFFICES ASSUME TypeInv, SyncInv, pc = "idle", ret = 0, faults = 0
               PROVE  /\ op = "get" /\ speed # "unknown" => val[4] = SpeedCode[speed]
                      /\ op = "read" /\ word # << >> => val = word
    BY DEF ReadsBack, IInv
  <2>1. GetInv /\ ReadInv
    BY DEF SyncInv
  <2>2. op = "get" /\ speed # "unknown" => val[4] = SpeedCode[speed]
    BY <2>1 DEF GetInv
  <2>3. ASSUME op = "read", word # << >> PROVE val = word
    <3>1. \A j \in 1 .. 4 : val[j] = word[j]
      BY <2>1, <2>3 DEF ReadInv
    <3>2. val \in [1 .. 4 -> Byte]
      <4>1. val \in Seq(Byte) /\ Len(val) = 4
        BY DEF TypeInv
      <4>2. val \in [1 .. Len(val) -> Byte]
        BY <4>1, LenProperties
      <4> QED BY <4>1, <4>2
    <3>3. word \in [1 .. 4 -> Byte]
      BY <2>3, ArgumentsAssumption DEF TypeInv
    <3> QED BY <3>1, <3>2, <3>3
  <2> QED BY <2>2, <2>3
<1> QED BY <1>1, Invariant, PTL

\* While no read was short or failed, nor a call to set or get the speed half-way, the
\* device takes no request to write while the bridge carries out a command
\* (src/src/cha.c:277-288, 310-350).
THEOREM BridgeNotDisturbedCorrect == Spec => BridgeNotDisturbed
<1>1. ASSUME IInv, Respond, faults = 0, cut = 0, Busy(regs[WCMD]) \/ Busy(regs[RCMD])
      PROVE  regs' = regs
  <2>1. TypeInv /\ PlanInv /\ InStep /\ BridgeInv
    BY <1>1 DEF IInv, SyncInv
  <2>2. reqs # << >>
    BY <1>1 DEF Respond
  <2>3. (op = "set" /\ Step = 3) \/ (op = "get" /\ Step = 2)
    BY <1>1, <2>1, <2>2 DEF BridgeInv, Answered
  <2> QED BY <1>1, <2>1, <2>3, RespondWrites
<1>2. IInv /\ [Next]_vars =>
        [Respond /\ faults = 0 /\ cut = 0 /\ (Busy(regs[WCMD]) \/ Busy(regs[RCMD])) =>
           regs' = regs]_vars
  BY <1>1
<1> QED BY <1>2, Invariant, PTL DEF Spec, BridgeNotDisturbed

=============================================================================
