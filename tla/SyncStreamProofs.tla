-------------------------- MODULE SyncStreamProofs --------------------------
(***************************************************************************)
(* Proofs about SyncStream, for every register, every stream before the    *)
(* answer and every size of the buffer.                                    *)
(***************************************************************************)
EXTENDS SyncStream, SequenceTheorems, FiniteSetTheorems, TLAPS

\* The message has five bytes.
LEMMA MsgType == Msg \in Seq(Byte) /\ Len(Msg) = 5
<1> DEFINE head == <<85, Addr \div 256, Addr % 256, 0>>
<1>1. /\ 85 \in Byte /\ Addr \div 256 \in Byte /\ Addr % 256 \in Byte /\ 0 \in Byte
  BY AddrAssumption, SMT DEF Byte
<1>2. head \in Seq(Byte) /\ Len(head) = 4
  BY <1>1
<1>3. Checksum(head) \in Byte
  <2> SUFFICES ASSUME NEW n \in Nat PROVE n % 256 \in Byte
    <3>1. head[1] \in Nat /\ head[2] \in Nat /\ head[3] \in Nat /\ head[4] \in Nat
      BY <1>1, SMT DEF Byte
    <3> HIDE DEF head
    <3>2. head[1] + head[2] + head[3] + head[4] \in Nat
      BY <3>1
    <3> QED BY <3>2 DEF Checksum
  <2> QED BY SMT DEF Byte
<1>4. Msg = Append(head, Checksum(head))
  BY DEF Msg, Message
<1> HIDE DEF head
<1>5. ASSUME NEW c \in Byte PROVE Append(head, c) \in Seq(Byte) /\ Len(Append(head, c)) = 5
  <2>1. Append(head, c) \in Seq(Byte) /\ Len(Append(head, c)) = Len(head) + 1
    BY <1>2, AppendProperties, ZenonT(40)
  <2> QED BY <2>1, <1>2
<1> QED BY <1>3, <1>4, <1>5, Zenon

-----------------------------------------------------------------------------
\* The first theorem: no byte is looked at before it was read, nor read before it
\* was sent.
LEMMA TypeInit == Init => TypeOK
BY DEF Init, TypeOK, Returned

LEMMA TypeStep == TypeOK /\ [Next]_vars => TypeOK'
<1> SUFFICES ASSUME TypeOK, [Next]_vars PROVE TypeOK'
  OBVIOUS
<1> USE DEF TypeOK, Returned
<1>1. CASE Start
  BY <1>1 DEF Start, Flushed
<1>2. CASE StartFails
  BY <1>2 DEF StartFails, Flushed, device
<1>3. CASE Read
  BY <1>3 DEF Read, device, history
<1>4. CASE ReadFails
  BY <1>4 DEF ReadFails, device
<1>5. CASE Scan
  <2>1. /\ sync_state' \in Nat /\ sync_state' <= 5
        /\ pc' = "read" => sync_state' < 5
    BY <1>5 DEF Scan, Matched, Complete
  <2> QED BY <1>5, <2>1 DEF Scan, device, history
<1>6. CASE Finish
  BY <1>6 DEF Finish, Flushed, device, history
<1>7. CASE Answer
  <2>1. sent' \in Seq(Byte) /\ Len(sent') >= Len(sent)
    BY <1>7, MsgType, ConcatProperties DEF Answer
  <2>2. asked' \in Nat
    BY <1>7 DEF Answer
  <2>3. answers' \subseteq Nat
    <3>1. Len(sent) + 1 \in Nat
      BY LenProperties
    <3> QED BY <1>7, <3>1 DEF Answer
  <2>4. UNCHANGED <<pc, rd, pos, sync_state, base, syncs, aborted>>
    BY <1>7 DEF Answer, history
  <2> QED BY <2>1, <2>2, <2>3, <2>4
<1>8. ASSUME NEW b \in Strays, Stream(b) PROVE TypeOK'
  BY <1>8, StraysAssumption DEF Stream, device, history
<1>9. CASE UNCHANGED vars
  BY <1>9 DEF vars, device, history
<1> QED BY <1>1, <1>2, <1>3, <1>4, <1>5, <1>6, <1>7, <1>8, <1>9 DEF Next, HostStep

\* Type correctness of SyncStream.
THEOREM TypeCorrect == Spec => []TypeOK
BY TypeInit, TypeStep, PTL DEF Spec

-----------------------------------------------------------------------------
(***************************************************************************)
(* What the counter of the matcher means.                                  *)
(***************************************************************************)

\* The last `sync_state' bytes looked at are the start of the answer.
MatcherInv ==
  /\ pc = "read" => PrefixBefore(pos + 1, sync_state)
  /\ pc = "found" => PrefixBefore(pos + 1, 5)

\* What has been looked at does not change.
LEMMA PrefixKept ==
  ASSUME TypeOK, NEW a \in Nat, NEW k \in Nat, k <= 5, PrefixBefore(a, k),
         base' = base, a - 1 <= Len(sent),
         \A i \in 1 .. Len(sent) : sent'[i] = sent[i]
  PROVE  PrefixBefore(a, k)'
<1>1. ASSUME NEW j \in 1 .. 5, j <= k PROVE sent'[a - k - 1 + j] = Msg[j]
  <2>1. a - k > base /\ sent[a - k - 1 + j] = Msg[j]
    BY <1>1 DEF PrefixBefore
  <2>2. base \in Nat /\ Len(sent) \in Nat
    BY LenProperties DEF TypeOK
  <2>3. a - k - 1 + j \in 1 .. Len(sent)
    BY <1>1, <2>1, <2>2
  <2> QED BY <2>1, <2>3
<1>2. a - k > base'
  BY DEF PrefixBefore
<1> QED BY <1>1, <1>2 DEF PrefixBefore

LEMMA MatcherInit == Init => MatcherInv
BY DEF Init, MatcherInv

LEMMA MatcherStep == TypeOK /\ TypeOK' /\ MatcherInv /\ [Next]_vars => MatcherInv'
<1> SUFFICES ASSUME TypeOK, TypeOK', MatcherInv, [Next]_vars PROVE MatcherInv'
  OBVIOUS
<1>0. pos \in Nat /\ pos <= Len(sent) /\ sync_state \in Nat /\ sync_state <= 5
  BY LenProperties DEF TypeOK
<1>1. CASE Start
  <2>1. PICK n \in Nat : pc' = "read" /\ sync_state' = 0 /\ pos' = n /\ base' = n
    BY <1>0, <1>1 DEF Start, Flushed
  <2>2. PrefixBefore(pos + 1, sync_state)'
    BY <2>1 DEF PrefixBefore
  <2> QED BY <2>1, <2>2 DEF MatcherInv
<1>2. CASE StartFails
  BY <1>2 DEF StartFails, MatcherInv
<1>3. ASSUME UNCHANGED <<pc, pos, sync_state, base>>,
             \A i \in 1 .. Len(sent) : sent'[i] = sent[i]
      PROVE  MatcherInv'
  <2>1. ASSUME NEW k \in Nat, k <= 5, PrefixBefore(pos + 1, k)
        PROVE  PrefixBefore(pos + 1, k)'
    BY <1>0, <1>3, <2>1, PrefixKept
  <2>2. CASE pc = "read"
    BY <1>0, <1>3, <2>1, <2>2 DEF MatcherInv
  <2>3. CASE pc = "found"
    BY <1>3, <2>1, <2>3 DEF MatcherInv
  <2> QED BY <1>3, <2>2, <2>3 DEF MatcherInv
<1>4. CASE Read
  BY <1>3, <1>4 DEF Read, history
<1>5. CASE ReadFails
  BY <1>5 DEF ReadFails, MatcherInv
<1>6. CASE Scan
  <2>1. /\ pc = "read" /\ pos' = pos + 1 /\ UNCHANGED <<sent, base>>
        /\ sync_state' = Matched(sync_state, sent[pos + 1])
        /\ pc' = IF sync_state' = 5 THEN "found" ELSE "read"
    BY <1>6 DEF Scan, history, Complete
  <2>2. PrefixBefore(pos + 1, sync_state) /\ sync_state < 5
    BY <2>1 DEF MatcherInv, TypeOK
  <2>3. PrefixBefore(pos + 1, sync_state)'
    <3>1. CASE sent[pos + 1] = Msg[sync_state + 1]
      <4>1. sync_state' = sync_state + 1
        BY <2>1, <3>1 DEF Matched
      <4>2. pos + 1 - sync_state > base
        BY <1>0, <2>2 DEF PrefixBefore, TypeOK
      <4>3. PICK n \in Nat, k \in Nat : n = pos + 2 /\ k = sync_state + 1
        BY <1>0
      <4>4. ASSUME NEW j \in 1 .. 5, j <= k PROVE sent[n - k - 1 + j] = Msg[j]
        <5>1. n - k - 1 + j = pos + 1 - sync_state - 1 + j
          BY <1>0, <4>3
        <5>2. CASE j <= sync_state
          BY <1>0, <2>2, <5>1, <5>2, SMTT(30) DEF PrefixBefore
        <5>3. CASE j = sync_state + 1
          <6>1. n - k - 1 + j = pos + 1
            BY <1>0, <4>3, <5>3
          <6> QED BY <3>1, <5>3, <6>1
        <5> QED BY <1>0, <4>3, <4>4, <5>2, <5>3
      <4>5. pos' + 1 = n /\ sync_state' = k /\ sent' = sent /\ base' = base
        BY <1>0, <2>1, <4>1, <4>3
      <4>6. n - k > base
        BY <1>0, <4>2, <4>3 DEF TypeOK
      <4>7. PrefixBefore(n, k)
        BY <4>4, <4>6 DEF PrefixBefore
      <4>8. PrefixBefore(pos + 1, sync_state)' <=> PrefixBefore(n, k)
        BY <4>5 DEF PrefixBefore
      <4> QED BY <4>7, <4>8
    <3>2. CASE sent[pos + 1] # Msg[sync_state + 1]
      <4>1. PICK n \in Nat, m \in Nat : n = pos' + 1 /\ m = base' /\ n > m
        BY <1>0, <2>1 DEF TypeOK
      <4>2. sync_state' = 0
        BY <2>1, <3>2 DEF Matched
      <4>3. n - 0 > m /\ \A j \in 1 .. 5 : ~(j <= 0)
        BY <4>1
      <4> QED BY <4>1, <4>2, <4>3 DEF PrefixBefore
    <3> QED BY <3>1, <3>2
  <2> QED BY <2>1, <2>3 DEF MatcherInv
<1>7. CASE Finish
  BY <1>7 DEF Finish, MatcherInv
<1>8. CASE Answer
  <2>1. \A i \in 1 .. Len(sent) : sent'[i] = sent[i]
    BY <1>8, MsgType, ConcatProperties, LenProperties DEF Answer, TypeOK
  <2> QED BY <1>3, <1>8, <2>1 DEF Answer, history
<1>9. ASSUME NEW b \in Strays, Stream(b) PROVE MatcherInv'
  <2>1. \A i \in 1 .. Len(sent) : sent'[i] = sent[i]
    BY <1>9, StraysAssumption, AppendProperties DEF Stream, TypeOK
  <2> QED BY <1>3, <1>9, <2>1 DEF Stream, history
<1>10. CASE UNCHANGED vars
  BY <1>3, <1>10 DEF vars, history
<1> QED BY <1>1, <1>2, <1>4, <1>5, <1>6, <1>7, <1>8, <1>9, <1>10 DEF Next, HostStep

\* When cha_sync_stream() has found its answer, the last five bytes it looked at
\* are that answer, whatever the device sent.
THEOREM FoundCorrect == Spec => []FoundIsAnswer
<1>1. MatcherInv => FoundIsAnswer
  BY DEF MatcherInv, FoundIsAnswer
<1> QED BY <1>1, TypeInit, TypeStep, MatcherInit, MatcherStep, PTL DEF Spec

-----------------------------------------------------------------------------
(***************************************************************************)
(* The matcher follows an answer from its first byte on, unless it was in  *)
(* the middle of a match when that came.                                   *)
(***************************************************************************)

\* Where the answers are
Placed(a) ==
  /\ a \in Nat /\ a >= 1 /\ a + 4 <= Len(sent)
  /\ \A j \in 1 .. 5 : sent[a - 1 + j] = Msg[j]

\* After i bytes of the answer the counter is i.
Followed(a) ==
  base < a /\ ~Shadowed(a) =>
    /\ pos < a + 4
    /\ \A i \in 0 .. 4 : pos = a - 1 + i => sync_state = i

FollowInv ==
  \A a \in answers : Placed(a) /\ (pc = "read" => Followed(a))

LEMMA FollowInit == Init => FollowInv
BY DEF Init, FollowInv

\* A match in progress where an answer starts is what shadows it.
LEMMA StateShadows ==
  ASSUME TypeOK, MatcherInv, pc = "read", pos \in Nat, sync_state # 0
  PROVE  Shadowed(pos + 1)
<1>1. sync_state \in 1 .. 4
  BY DEF TypeOK
<1>2. PrefixBefore(pos + 1, sync_state)
  BY DEF MatcherInv
<1> QED BY <1>1, <1>2 DEF Shadowed

\* An answer stays where it is.
LEMMA PlacedKept ==
  ASSUME NEW a, Placed(a), sent \in Seq(Byte), Len(sent') >= Len(sent), Len(sent') \in Nat,
         \A i \in 1 .. Len(sent) : sent'[i] = sent[i]
  PROVE  Placed(a)'
<1>1. a \in Nat /\ a >= 1 /\ a + 4 <= Len(sent) /\ Len(sent) \in Nat
  BY LenProperties DEF Placed
<1>2. ASSUME NEW j \in 1 .. 5 PROVE sent'[a - 1 + j] = Msg[j]
  <2>1. a - 1 + j \in 1 .. Len(sent)
    BY <1>1
  <2> QED BY <2>1 DEF Placed
<1>3. a + 4 <= Len(sent')
  BY <1>1
<1> QED BY <1>1, <1>2, <1>3 DEF Placed

LEMMA ShadowedKept ==
  ASSUME TypeOK, NEW a \in Nat, Shadowed(a), base' = base, a - 1 <= Len(sent),
         \A i \in 1 .. Len(sent) : sent'[i] = sent[i]
  PROVE  Shadowed(a)'
<1>1. PICK k \in 1 .. 4 : PrefixBefore(a, k)
  BY DEF Shadowed
<1>2. PrefixBefore(a, k)'
  BY <1>1, PrefixKept
<1> QED BY <1>2 DEF Shadowed

LEMMA FollowStep ==
  TypeOK /\ TypeOK' /\ MatcherInv /\ MatcherInv' /\ FollowInv /\ [Next]_vars => FollowInv'
<1> SUFFICES ASSUME TypeOK, TypeOK', MatcherInv, MatcherInv', FollowInv, [Next]_vars
             PROVE  FollowInv'
  OBVIOUS
<1>0. /\ pos \in Nat /\ pos <= Len(sent) /\ sync_state \in Nat /\ base \in Nat
      /\ Len(sent) \in Nat /\ Len(sent') \in Nat /\ sent \in Seq(Byte)
      /\ pos' \in Nat /\ sync_state' \in Nat /\ base' \in Nat
  BY LenProperties, SMTT(30) DEF TypeOK
<1>1. ASSUME sent' = sent, answers' = answers,
             pc' = "read" => \A a \in answers : Followed(a)'
      PROVE  FollowInv'
  <2>1. \A a \in answers : Placed(a)'
    BY <1>1 DEF FollowInv, Placed
  <2> QED BY <1>1, <2>1 DEF FollowInv
<1>2. CASE Start
  <2>1. /\ sent' = sent /\ answers' = answers
        /\ sync_state' = 0 /\ pos' = base'
    BY <1>2 DEF Start, Flushed
  <2>2. ASSUME NEW a \in answers PROVE Followed(a)'
    <3>1. a \in Nat
      BY DEF FollowInv, Placed
    <3> QED BY <1>0, <2>1, <3>1 DEF Followed
  <2> QED BY <1>1, <2>1, <2>2
<1>3. CASE StartFails \/ ReadFails \/ Finish
  BY <1>1, <1>3 DEF StartFails, ReadFails, Finish, Returned, device
<1>4. CASE Read \/ UNCHANGED vars
  <2>1. UNCHANGED <<pc, sent, pos, sync_state, answers, base>>
    BY <1>4 DEF Read, vars, device, history
  <2>2. \A a : Followed(a)' <=> Followed(a)
    BY <2>1 DEF Followed, Shadowed, PrefixBefore
  <2>3. pc' = "read" => \A a \in answers : Followed(a)'
    BY <2>1, <2>2 DEF FollowInv
  <2> QED BY <1>1, <2>1, <2>3
<1>5. CASE Scan
  <2>1. /\ pc = "read" /\ pos' = pos + 1 /\ UNCHANGED <<sent, base, answers>>
        /\ sync_state' = Matched(sync_state, sent[pos + 1])
        /\ pc' = IF sync_state' = 5 THEN "found" ELSE "read"
    BY <1>5 DEF Scan, history, device, Complete
  <2>2. ASSUME NEW a \in answers, pc' = "read", base' < a, ~Shadowed(a)'
        PROVE  /\ pos' < a + 4
               /\ \A i \in 0 .. 4 : pos' = a - 1 + i => sync_state' = i
    <3>1. a \in Nat /\ base < a /\ ~Shadowed(a) /\ sync_state' # 5
      BY <2>1, <2>2 DEF FollowInv, Placed, Shadowed, PrefixBefore
    <3>2. pos < a + 4 /\ \A i \in 0 .. 4 : pos = a - 1 + i => sync_state = i
      BY <2>1, <3>1 DEF FollowInv, Followed
    <3>3. ASSUME NEW i \in 0 .. 4, pos = a - 1 + i
          PROVE  sync_state' = i + 1
      <4>1. sync_state = i /\ pos + 1 = a - 1 + (i + 1) /\ i + 1 \in 1 .. 5
        BY <1>0, <3>1, <3>2, <3>3
      <4>2. \A j \in 1 .. 5 : sent[a - 1 + j] = Msg[j]
        BY <2>2 DEF FollowInv, Placed
      <4>3. sent[a - 1 + (i + 1)] = Msg[i + 1]
        BY <4>1, <4>2
      <4>4. sent[pos + 1] = Msg[i + 1]
        BY <4>1, <4>3, Zenon
      <4> QED BY <2>1, <4>1, <4>4 DEF Matched
    <3>4. pos' < a + 4
      <4>1. pos # a - 1 + 4
        BY <3>1, <3>3
      <4> QED BY <1>0, <2>1, <3>1, <3>2, <4>1
    <3>5. ASSUME NEW i \in 0 .. 4, pos' = a - 1 + i
          PROVE  sync_state' = i
      <4>1. CASE i = 0
        <5>1. pos' + 1 = a
          BY <1>0, <3>1, <3>5, <4>1
        <5>2. sync_state' # 0 => Shadowed(pos + 1)'
          <6> SUFFICES ASSUME sync_state' # 0 PROVE Shadowed(pos + 1)'
            OBVIOUS
          <6>1. sync_state' \in 1 .. 4
            BY <2>2 DEF TypeOK
          <6>2. PrefixBefore(pos + 1, sync_state)'
            BY <2>2 DEF MatcherInv
          <6> QED BY <6>1, <6>2 DEF Shadowed
        <5>3. Shadowed(pos + 1)' => Shadowed(a)'
          BY <5>1 DEF Shadowed, PrefixBefore
        <5> QED BY <2>2, <4>1, <5>2, <5>3
      <4>2. CASE i # 0
        <5>1. i - 1 \in 0 .. 4 /\ pos = a - 1 + (i - 1)
          BY <1>0, <2>1, <3>1, <3>5, <4>2
        <5>2. sync_state' = (i - 1) + 1
          BY <3>3, <5>1
        <5> QED BY <5>2
      <4> QED BY <4>1, <4>2
    <3> QED BY <3>4, <3>5
  <2>3. pc' = "read" => \A a \in answers : Followed(a)'
    BY <2>2 DEF Followed
  <2> QED BY <1>1, <2>1, <2>3
<1>6. ASSUME UNCHANGED <<pc, pos, sync_state, base>>, Len(sent') >= Len(sent),
             \A i \in 1 .. Len(sent) : sent'[i] = sent[i],
             NEW a \in answers
      PROVE  Placed(a)' /\ (pc' = "read" => Followed(a)')
  <2>1. Placed(a) /\ Placed(a)'
    BY <1>0, <1>6, PlacedKept DEF FollowInv
  <2>2. a \in Nat /\ a - 1 <= Len(sent)
    BY <1>0, <2>1 DEF Placed
  <2>3. Shadowed(a) => Shadowed(a)'
    BY <1>6, <2>2, ShadowedKept
  <2>4. pc' = "read" => Followed(a)
    BY <1>6 DEF FollowInv
  <2> QED BY <1>6, <2>1, <2>3, <2>4 DEF Followed
<1>7. CASE Answer
  <2>0. PICK new \in Nat : new = Len(sent) + 1
    BY <1>0
  <2>1. /\ UNCHANGED <<pc, pos, sync_state, base>>
        /\ answers' = answers \cup {new} /\ sent' = sent \o Msg
    BY <1>7, <2>0 DEF Answer, history
  <2>2. /\ Len(sent') = Len(sent) + 5
        /\ \A i \in 1 .. Len(sent) + 5 :
              sent'[i] = IF i <= Len(sent) THEN sent[i] ELSE Msg[i - Len(sent)]
    <3>1. /\ Len(sent \o Msg) = Len(sent) + Len(Msg)
          /\ \A i \in 1 .. Len(sent) + Len(Msg) :
                (sent \o Msg)[i] = IF i <= Len(sent) THEN sent[i] ELSE Msg[i - Len(sent)]
      BY <1>0, MsgType, ConcatProperties, Zenon
    <3> QED BY <2>1, <3>1, MsgType
  <2>3. Placed(new)'
    <3>1. new \in Nat /\ new >= 1 /\ new + 4 <= Len(sent')
      BY <1>0, <2>0, <2>2
    <3>2. ASSUME NEW j \in 1 .. 5 PROVE sent'[new - 1 + j] = Msg[j]
      <4>1. /\ new - 1 + j \in 1 .. Len(sent) + 5 /\ ~(new - 1 + j <= Len(sent))
            /\ new - 1 + j - Len(sent) = j
        BY <1>0, <2>0
      <4> QED BY <2>2, <4>1, SMTT(30)
    <3> QED BY <3>1, <3>2 DEF Placed
  <2>4. Len(sent') >= Len(sent) /\ \A i \in 1 .. Len(sent) : sent'[i] = sent[i]
    BY <1>0, <2>2
  <2>5. pc' = "read" => Followed(new)'
    <3> SUFFICES ASSUME pc = "read", base < new, ~Shadowed(new)'
                 PROVE  /\ pos < new + 4
                        /\ \A i \in 0 .. 4 : pos = new - 1 + i => sync_state = i
      BY <2>1 DEF Followed
    <3>1. ~Shadowed(new)
      BY <1>0, <2>0, <2>1, <2>4, ShadowedKept
    <3>2. ASSUME pos = new - 1 PROVE sync_state = 0
      <4>1. pos + 1 = new
        BY <1>0, <2>0, <3>2
      <4> QED BY <1>0, <3>1, <4>1, StateShadows
    <3>3. pos <= new - 1
      BY <1>0, <2>0
    <3> QED BY <1>0, <2>0, <3>2, <3>3, SMTT(30)
  <2> QED BY <1>6, <2>1, <2>3, <2>4, <2>5 DEF FollowInv
<1>8. ASSUME NEW b \in Strays, Stream(b) PROVE FollowInv'
  <2>1. UNCHANGED <<pc, pos, sync_state, base, answers>>
    BY <1>8 DEF Stream, device, history
  <2>2. /\ Len(sent') >= Len(sent)
        /\ \A i \in 1 .. Len(sent) : sent'[i] = sent[i]
    BY <1>0, <1>8, StraysAssumption, AppendProperties DEF Stream
  <2> QED BY <1>6, <2>1, <2>2 DEF FollowInv
<1> QED BY <1>2, <1>3, <1>4, <1>5, <1>7, <1>8 DEF Next, HostStep

\* cha_sync_stream() does not miss an answer that came whole after its flush,
\* unless the bytes right before it are themselves the start of one.
THEOREM NotMissedCorrect == Spec => []NotMissed
<1>1. ASSUME FollowInv, TypeOK, pc = "read", NEW a \in answers, base < a, a + 4 <= pos
      PROVE  Shadowed(a)
  <2>1. a \in Nat /\ (~Shadowed(a) => pos < a + 4)
    BY <1>1 DEF FollowInv, Placed, Followed
  <2>2. pos \in Nat
    BY <1>1 DEF TypeOK
  <2> QED BY <1>1, <2>1, <2>2
<1>2. FollowInv /\ TypeOK => NotMissed
  BY <1>1 DEF NotMissed
<1> QED BY <1>2, TypeInit, TypeStep, MatcherInit, MatcherStep, FollowInit, FollowStep,
           PTL DEF Spec

\* What cha_sync_stream() finds is its answer, which it misses only behind bytes that
\* are the start of one.
THEOREM SearchExactCorrect == Spec => []SearchExact
BY FoundCorrect, NotMissedCorrect, PTL DEF SearchExact

-----------------------------------------------------------------------------
(***************************************************************************)
(* How many answers are left.                                              *)
(***************************************************************************)

Allowed == aborted + (IF pc = "read" THEN 1 ELSE 0)

\* A call that reads has one answer to come, and each one that was aborted has left
\* one at most.
LeftInv ==
  /\ IsFiniteSet(answers)
  /\ OnlyAnswers => asked + Cardinality(Unread) <= Allowed

LEMMA UnreadFinite ==
  ASSUME IsFiniteSet(answers) PROVE IsFiniteSet(Unread) /\ Cardinality(Unread) \in Nat
<1>1. Unread \subseteq answers
  BY DEF Unread
<1> QED BY <1>1, FS_Subset, FS_CardinalityType

\* The further the matcher is, the fewer answers are left.
LEMMA UnreadShrinks ==
  ASSUME IsFiniteSet(answers), answers' = answers, answers \subseteq Nat,
         pos \in Nat, pos' \in Nat, pos <= pos'
  PROVE  Cardinality(Unread') \in Nat /\ Cardinality(Unread') <= Cardinality(Unread)
<1>1. PICK S, T : S = Unread /\ T = Unread'
  OBVIOUS
<1>2. T \subseteq S
  <2>1. \A a : (a \in T => a \in answers /\ a + 4 > pos') /\ (a \in answers /\ a + 4 > pos => a \in S)
    BY <1>1, Zenon DEF Unread
  <2>2. \A a \in answers : a + 4 > pos' => a + 4 > pos
    OBVIOUS
  <2> QED BY <2>1, <2>2, Zenon
<1>3. IsFiniteSet(S)
  BY <1>1, UnreadFinite
<1>4. Cardinality(T) \in Nat /\ Cardinality(T) <= Cardinality(S)
  BY <1>2, <1>3, FS_Subset, FS_CardinalityType
<1> QED BY <1>1, <1>4

\* What has been sent stays: if there are only answers now there were before.
LEMMA OnlyAnswersBefore ==
  ASSUME Len(sent) \in Nat, Len(sent') \in Nat, Len(sent) <= Len(sent'),
         \A i \in 1 .. Len(sent) : sent'[i] = sent[i],
         \A a \in answers' : a \in answers \/ a > Len(sent),
         OnlyAnswers'
  PROVE  OnlyAnswers
<1> SUFFICES ASSUME NEW i \in 1 .. Len(sent), i + 4 <= Len(sent), AnswerAt(i)
             PROVE  i \in answers
  BY DEF OnlyAnswers
<1>1. ASSUME NEW j \in 1 .. 5 PROVE sent'[i - 1 + j] = Msg[j]
  <2>1. i - 1 + j \in 1 .. Len(sent)
    OBVIOUS
  <2> QED BY <2>1 DEF AnswerAt
<1>2. AnswerAt(i)'
  BY <1>1 DEF AnswerAt
<1>3. i \in 1 .. Len(sent') /\ i + 4 <= Len(sent')
  OBVIOUS
<1>4. i \in answers'
  BY <1>2, <1>3 DEF OnlyAnswers
<1> QED BY <1>4

\* Five bytes that match are an answer.
LEMMA FoundAnswer ==
  ASSUME base \in Nat, NEW p \in Nat, PrefixBefore(p + 1, 5)
  PROVE  \E i \in Nat : i >= 1 /\ i + 4 = p /\ AnswerAt(i)
<1>1. /\ p + 1 - 5 > base
      /\ \A j \in 1 .. 5 : sent[p + 1 - 5 - 1 + j] = Msg[j]
  BY DEF PrefixBefore
<1>2. PICK i : i = p - 4
  OBVIOUS
<1>3. i \in Nat /\ i >= 1 /\ i + 4 = p
  BY <1>1, <1>2
<1>4. \A j \in 1 .. 5 : p + 1 - 5 - 1 + j = i - 1 + j
  BY <1>2
<1>5. AnswerAt(i)
  BY <1>1, <1>4, Zenon DEF AnswerAt
<1> QED BY <1>3, <1>5, Zenon

\* PrefixBefore is about what was sent and the flush only.
LEMMA StartKept ==
  ASSUME sent' = sent, base' = base, PrefixBefore(pos + 1, 5)'
  PROVE  PrefixBefore(pos' + 1, 5)
BY DEF PrefixBefore

LEMMA LeftInit == Init => LeftInv
<1> SUFFICES ASSUME Init PROVE LeftInv
  OBVIOUS
<1>1. answers = {} /\ asked = 0 /\ aborted = 0 /\ pc = "idle"
  BY DEF Init
<1>2. Unread = {}
  BY <1>1 DEF Unread
<1>3. IsFiniteSet({}) /\ Cardinality({}) = 0
  BY FS_EmptySet
<1> QED BY <1>1, <1>2, <1>3 DEF LeftInv, Allowed

LEMMA LeftStep ==
  TypeOK /\ TypeOK' /\ MatcherInv' /\ LeftInv /\ [Next]_vars => LeftInv'
<1> SUFFICES ASSUME TypeOK, TypeOK', MatcherInv', LeftInv, [Next]_vars PROVE LeftInv'
  OBVIOUS
<1>0. /\ Len(sent) \in Nat /\ Len(sent') \in Nat /\ pos \in Nat /\ pos' \in Nat
      /\ asked \in Nat /\ aborted \in Nat /\ answers \subseteq Nat /\ sent \in Seq(Byte)
      /\ IsFiniteSet(answers) /\ IsFiniteSet(Unread) /\ Cardinality(Unread) \in Nat
  BY LenProperties, UnreadFinite DEF TypeOK, LeftInv
\* Nothing is sent.
<1>1. ASSUME sent' = sent, answers' = answers, pos <= pos',
             asked' + Cardinality(Unread) <= Allowed' + (asked + Cardinality(Unread) - Allowed)
      PROVE  LeftInv'
  <2>1. Cardinality(Unread') \in Nat /\ Cardinality(Unread') <= Cardinality(Unread)
    BY <1>0, <1>1, UnreadShrinks
  <2>2. OnlyAnswers' => OnlyAnswers
    BY <1>1 DEF OnlyAnswers, AnswerAt
  <2>3. Allowed' \in Nat /\ asked' \in Nat /\ Allowed \in Nat
    <3>1. aborted' \in Nat /\ asked' \in Nat
      BY DEF TypeOK
    <3>2. \A m \in Nat : m + 0 \in Nat /\ m + 1 \in Nat
      OBVIOUS
    <3> QED BY <1>0, <3>1, <3>2, Zenon DEF Allowed
  <2>4. OnlyAnswers' => asked' + Cardinality(Unread') <= Allowed'
    <3> SUFFICES ASSUME OnlyAnswers PROVE asked' + Cardinality(Unread') <= Allowed'
      BY <2>2
    <3>1. asked + Cardinality(Unread) <= Allowed
      BY DEF LeftInv
    <3> QED BY <1>0, <1>1, <2>1, <2>3, <3>1, SMTT(30)
  <2>5. IsFiniteSet(answers')
    BY <1>0, <1>1
  <2> QED BY <2>4, <2>5 DEF LeftInv
<1>2. CASE Start
  <2>1. /\ sent' = sent /\ answers' = answers /\ pos <= pos' /\ asked' = asked + 1
        /\ aborted' = aborted /\ pc' = "read" /\ pc # "read"
    BY <1>0, <1>2 DEF Start, Flushed, Returned
  <2> QED BY <1>0, <1>1, <2>1 DEF Allowed
<1>3. CASE StartFails
  <2>1. /\ sent' = sent /\ answers' = answers /\ pos <= pos' /\ asked' = asked
        /\ aborted' = aborted /\ pc' = "failed" /\ pc # "read"
    BY <1>0, <1>3 DEF StartFails, Flushed, Returned, device
  <2> QED BY <1>0, <1>1, <2>1 DEF Allowed
<1>4. CASE Read
  <2>1. UNCHANGED <<sent, answers, pos, asked, aborted, pc>>
    BY <1>4 DEF Read, device, history
  <2> QED BY <1>0, <1>1, <2>1 DEF Allowed
<1>5. CASE ReadFails
  <2>1. UNCHANGED <<sent, answers, pos, asked>> /\ aborted' = aborted + 1
        /\ pc = "read" /\ pc' = "failed"
    BY <1>5 DEF ReadFails, device
  <2> QED BY <1>0, <1>1, <2>1 DEF Allowed
<1>6. CASE Scan
  <2>1. /\ pc = "read" /\ pos' = pos + 1 /\ UNCHANGED <<sent, answers, asked, aborted, base>>
        /\ pc' \in {"read", "found"}
    BY <1>6 DEF Scan, device, history
  <2>2. CASE pc' = "read"
    BY <1>0, <1>1, <2>1, <2>2 DEF Allowed
  \* The answer that was found is one more that has been read.
  <2>3. CASE pc' = "found"
    <3>1. PICK a \in Nat : a >= 1 /\ a + 4 = pos' /\ AnswerAt(a)
      <4>1. PrefixBefore(pos + 1, 5)'
        BY <2>3, Zenon DEF MatcherInv
      <4>2. PICK m \in Nat : m = pos'
        BY <1>0, Zenon
      <4>3. PrefixBefore(m + 1, 5)
        BY <2>1, <4>1, <4>2, StartKept, Zenon
      <4>4. base \in Nat
        BY DEF TypeOK
      <4>5. \E a \in Nat : a >= 1 /\ a + 4 = m /\ AnswerAt(a)
        BY <4>2, <4>3, <4>4, FoundAnswer, Zenon
      <4> QED BY <4>2, <4>5, Zenon
    <3>2. a + 4 <= Len(sent)
      <4>1. pos' <= Len(sent')
        BY <1>0 DEF TypeOK
      <4> QED BY <2>1, <3>1, <4>1
    <3>3. AnswerAt(a)
      BY <3>1, Zenon
    <3>4. OnlyAnswers' => OnlyAnswers
      BY <2>1 DEF OnlyAnswers, AnswerAt
    <3>5. ASSUME OnlyAnswers PROVE asked + Cardinality(Unread') <= aborted
      <4>1. a \in answers
        BY <1>0, <3>1, <3>2, <3>3, <3>5 DEF OnlyAnswers
      <4>2. PICK S, T : S = Unread /\ T = Unread'
        OBVIOUS
      <4>3. a \in S /\ T \subseteq S \ {a}
        <5>1. \A x : x \in T => x \in answers /\ x + 4 > pos'
          BY <2>1, <4>2, Zenon DEF Unread
        <5>2. \A x : x \in answers /\ x + 4 > pos => x \in S
          BY <4>2, Zenon DEF Unread
        <5>3. \A x \in answers : x + 4 > pos' => x + 4 > pos /\ x # a
          BY <1>0, <2>1, <3>1
        <5>4. a + 4 > pos
          BY <1>0, <2>1, <3>1
        <5> QED BY <4>1, <5>1, <5>2, <5>3, <5>4, Zenon
      <4>4. /\ IsFiniteSet(S \ {a}) /\ Cardinality(S \ {a}) = Cardinality(S) - 1
        BY <1>0, <4>2, <4>3, FS_RemoveElement
      <4>5. Cardinality(T) <= Cardinality(S) - 1 /\ Cardinality(T) \in Nat
        <5>1. PICK U : U = S \ {a} /\ T \subseteq U /\ IsFiniteSet(U)
          BY <4>3, <4>4, Zenon
        <5>2. Cardinality(T) <= Cardinality(U) /\ Cardinality(T) \in Nat
          BY <5>1, FS_Subset, FS_CardinalityType
        <5> QED BY <4>4, <5>1, <5>2, Zenon
      <4>6. asked + Cardinality(S) <= aborted + 1
        BY <2>1, <3>5, <4>2 DEF LeftInv, Allowed
      <4>7. Cardinality(S) \in Nat
        BY <1>0, <4>2
      <4>8. asked + Cardinality(T) <= aborted
        BY <1>0, <4>5, <4>6, <4>7, SMTT(30)
      <4> QED BY <4>2, <4>8
    <3>6. IsFiniteSet(answers')
      BY <1>0, <2>1
    <3>7. OnlyAnswers' => asked' + Cardinality(Unread') <= aborted' + 0
      BY <1>0, <2>1, <3>4, <3>5
    <3> QED BY <2>3, <3>6, <3>7 DEF LeftInv, Allowed
  <2> QED BY <2>1, <2>2, <2>3
<1>7. CASE Finish
  <2>1. /\ UNCHANGED <<sent, answers, asked, aborted>> /\ pos <= pos'
        /\ pc = "found" /\ pc' \in {"done", "failed"}
    BY <1>0, <1>7 DEF Finish, Flushed, device, history, TypeOK
  <2> QED BY <1>0, <1>1, <2>1 DEF Allowed
<1>8. CASE Answer
  <2>1. PICK new \in Nat : /\ new = Len(sent) + 1 /\ answers' = answers \cup {new}
                           /\ asked' = asked - 1 /\ asked > 0 /\ sent' = sent \o Msg
                           /\ UNCHANGED <<pc, pos, aborted>>
    BY <1>0, <1>8 DEF Answer, history
  <2>2. /\ Len(sent) <= Len(sent') /\ \A i \in 1 .. Len(sent) : sent'[i] = sent[i]
    <3>1. /\ Len(sent \o Msg) = Len(sent) + Len(Msg)
          /\ \A i \in 1 .. Len(sent) + Len(Msg) :
                (sent \o Msg)[i] = IF i <= Len(sent) THEN sent[i] ELSE Msg[i - Len(sent)]
      BY <1>0, MsgType, ConcatProperties, Zenon
    <3> QED BY <1>0, <2>1, <3>1, MsgType
  <2>3. OnlyAnswers' => OnlyAnswers
    <3>1. \A a \in answers' : a \in answers \/ a > Len(sent)
      BY <1>0, <2>1
    <3> QED BY <1>0, <2>2, <3>1, OnlyAnswersBefore
  <2>4. /\ IsFiniteSet(answers')
        /\ Cardinality(Unread') \in Nat /\ Cardinality(Unread') <= Cardinality(Unread) + 1
    <3>1. PICK S, T : S = Unread /\ T = Unread'
      OBVIOUS
    <3>2. T \subseteq S \cup {new}
      <4>1. \A x : x \in T => x \in answers \cup {new} /\ x + 4 > pos
        BY <2>1, <3>1, Zenon DEF Unread
      <4>2. \A x : x \in answers /\ x + 4 > pos => x \in S
        BY <3>1, Zenon DEF Unread
      <4> QED BY <4>1, <4>2
    <3>3. /\ IsFiniteSet(S \cup {new}) /\ Cardinality(S \cup {new}) <= Cardinality(S) + 1
      <4>1. IsFiniteSet(S) /\ Cardinality(S) \in Nat
        BY <1>0, <3>1, Zenon
      <4> QED BY <4>1, FS_AddElement
    <3>4. Cardinality(T) <= Cardinality(S \cup {new}) /\ Cardinality(T) \in Nat
          /\ Cardinality(S \cup {new}) \in Nat
      BY <3>2, <3>3, FS_Subset, FS_CardinalityType
    <3>5. IsFiniteSet(answers')
      BY <1>0, <2>1, FS_AddElement
    <3> QED BY <1>0, <3>1, <3>3, <3>4, <3>5
  <2>5. OnlyAnswers' => asked' + Cardinality(Unread') <= Allowed'
    <3> SUFFICES ASSUME OnlyAnswers PROVE asked' + Cardinality(Unread') <= Allowed'
      BY <2>3
    <3>1. asked + Cardinality(Unread) <= Allowed
      BY DEF LeftInv
    <3>2. Allowed' = Allowed /\ Allowed \in Nat
      BY <1>0, <2>1 DEF Allowed
    <3> QED BY <1>0, <2>1, <2>4, <3>1, <3>2
  <2> QED BY <2>4, <2>5 DEF LeftInv
<1>9. ASSUME NEW byte \in Strays, Stream(byte) PROVE LeftInv'
  <2>1. UNCHANGED <<pc, pos, asked, aborted, answers>> /\ sent' = Append(sent, byte)
    BY <1>9 DEF Stream, device, history
  <2>2. /\ Len(sent) <= Len(sent') /\ \A i \in 1 .. Len(sent) : sent'[i] = sent[i]
    BY <1>0, <2>1, StraysAssumption, AppendProperties
  <2>3. OnlyAnswers' => OnlyAnswers
    BY <1>0, <2>1, <2>2, OnlyAnswersBefore
  <2>4. Unread' = Unread
    BY <2>1 DEF Unread
  <2> QED BY <1>0, <2>1, <2>3, <2>4 DEF LeftInv, Allowed
<1>10. CASE UNCHANGED vars
  <2>1. UNCHANGED <<sent, answers, pos, asked, aborted, pc>>
    BY <1>10 DEF vars, device, history
  <2> QED BY <1>0, <1>1, <2>1 DEF Allowed
<1> QED BY <1>2, <1>3, <1>4, <1>5, <1>6, <1>7, <1>8, <1>9, <1>10 DEF Next, HostStep

\* A call that succeeds leaves no answer of its own behind, if only answers look like
\* one, however many calls have failed before it.
THEOREM AnswersConsumedCorrect == Spec => []AnswersConsumed
<1>1. TypeOK /\ LeftInv => AnswersConsumed
  BY DEF LeftInv, AnswersConsumed, TypeOK, Allowed
<1> QED BY <1>1, TypeInit, TypeStep, MatcherInit, MatcherStep, LeftInit, LeftStep, PTL DEF Spec
=============================================================================
