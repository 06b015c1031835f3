--------------------------- MODULE SessionProofs ---------------------------
(***************************************************************************)
(* Proofs about Session, for all packages with distinct addresses, any     *)
(* number of calls and of failures, and any stream.                        *)
(***************************************************************************)
EXTENDS Session, SequenceTheorems, TLAPS

\* What is left of a plan after its first accesses
StartFrom2 == <<Write("SINK_GO", 1), Write("CSTREAM_CFG", 1), Cast("HOST_READ_GO", 1)>>
StartFrom3 == <<Write("CSTREAM_CFG", 1), Cast("HOST_READ_GO", 1)>>
StartFrom4 == <<Cast("HOST_READ_GO", 1)>>
StopFrom2  == <<Write("CSTREAM_CFG", 0), Write("SINK_GO", 0)>>
StopFrom3  == <<Write("SINK_GO", 0)>>

Writes == {StartStream, StartFrom2, StartFrom3, StopStream, StopFrom2, StopFrom3}
Plans  == Writes \cup {StartFrom4, HaltStream}

\* How the plans follow one another.
LEMMA PlansFollow ==
  /\ << >> \notin Plans
  /\ HaltStream \notin Writes
  /\ StartFrom4 # HaltStream
  /\ Len(StartStream) = 4 /\ Tail(StartStream) = StartFrom2
  /\ Len(StartFrom2) = 3 /\ Tail(StartFrom2) = StartFrom3
  /\ Len(StartFrom3) = 2 /\ Tail(StartFrom3) = StartFrom4
  /\ Len(StartFrom4) = 1 /\ Len(HaltStream) = 1
  /\ Len(StopStream) = 3 /\ Tail(StopStream) = StopFrom2
  /\ Len(StopFrom2) = 2 /\ Tail(StopFrom2) = StopFrom3
  /\ Len(StopFrom3) = 1
BY DEF Plans, Writes, StartStream, StartFrom2, StartFrom3, StartFrom4, HaltStream,
       StopStream, StopFrom2, StopFrom3, Write, Cast

\* The accesses at their heads.
LEMMA PlanHeads ==
  /\ Head(StartStream) = Write("RING", 1)
  /\ Head(StartFrom2) = Write("SINK_GO", 1)
  /\ Head(StartFrom3) = Write("CSTREAM_CFG", 1)
  /\ Head(StartFrom4) = Cast("HOST_READ_GO", 1)
  /\ Head(HaltStream) = Cast("HOST_READ_GO", 0)
  /\ Head(StopStream) = Write("HOST_READ_GO", 0)
  /\ Head(StopFrom2) = Write("CSTREAM_CFG", 0)
  /\ Head(StopFrom3) = Write("SINK_GO", 0)
BY DEF StartStream, StartFrom2, StartFrom3, StartFrom4, HaltStream,
       StopStream, StopFrom2, StopFrom3

LEMMA PlansDiffer ==
  /\ StartStream \notin {StartFrom2, StartFrom3, StartFrom4, StopStream, StopFrom2, StopFrom3}
  /\ StartFrom2 \notin {StartFrom3, StartFrom4, StopStream, StopFrom2, StopFrom3}
  /\ StartFrom3 \notin {StartFrom4, StopStream, StopFrom2, StopFrom3}
  /\ StartFrom4 \notin {StopStream, StopFrom2, StopFrom3}
  /\ StopStream \notin {StopFrom2, StopFrom3}
  /\ StopFrom2 # StopFrom3
<1>1. Len(StartStream) = 4 /\ Len(StartFrom2) = 3 /\ Len(StartFrom3) = 2 /\ Len(StartFrom4) = 1
      /\ Len(StopStream) = 3 /\ Len(StopFrom2) = 2 /\ Len(StopFrom3) = 1
  BY PlansFollow
<1>2. /\ Head(StartFrom2).value = 1 /\ Head(StopStream).value = 0
      /\ Head(StartFrom3).value = 1 /\ Head(StopFrom2).value = 0
      /\ Head(StartFrom4).value = 1 /\ Head(StopFrom3).value = 0
  BY PlanHeads DEF Write, Cast
<1> QED BY <1>1, <1>2

\* The plans of a load, and what is left of them
LoadFrom2(f) == <<SetReg(f)>>
Opens     == {OpenPlan, SyncAndStop}
Loads     == {LoadPlan(f) : f \in Firmwares} \cup {LoadFrom2(f) : f \in Firmwares}
Syncs     == Opens \cup {LoadPlan(f) : f \in Firmwares}
LoadPlans == Opens \cup Loads

\* An access at the head of a plan
LEMMA ConsProperties ==
  ASSUME NEW a, NEW R, NEW s \in Seq(R)
  PROVE  /\ Head(<<a>> \o s) = a /\ Tail(<<a>> \o s) = s
         /\ Len(<<a>> \o s) = Len(s) + 1 /\ <<a>> \o s # << >>
<1> DEFINE S == R \cup {a}
           c == <<a>> \o s
<1>1. <<a>> \in Seq(S) /\ Len(<<a>>) = 1 /\ <<a>>[1] = a
  OBVIOUS
<1>2. s \in Seq(S) /\ Len(s) \in Nat
  BY LenProperties, SeqMonotonic
<1>3. /\ c \in Seq(S) /\ Len(c) = 1 + Len(s)
      /\ \A i \in 1 .. 1 + Len(s) : c[i] = IF i <= 1 THEN <<a>>[i] ELSE s[i - 1]
  BY <1>1, <1>2, ConcatProperties
<1> HIDE DEF c
<1>4. Len(c) = Len(s) + 1 /\ Len(c) >= 1 /\ c # << >> /\ c[1] = a
  BY <1>1, <1>2, <1>3, EmptySeq
<1>5. /\ Head(c) = c[1] /\ Tail(c) \in Seq(S) /\ Len(Tail(c)) = Len(c) - 1
      /\ \A i \in 1 .. Len(Tail(c)) : Tail(c)[i] = c[i + 1]
  BY <1>3, <1>4, HeadTailProperties
<1>6. \A i \in 1 .. Len(s) : Tail(c)[i] = s[i]
  <2> TAKE i \in 1 .. Len(s)
  <2>1. i + 1 \in 1 .. 1 + Len(s) /\ ~(i + 1 <= 1) /\ (i + 1) - 1 = i
    BY <1>2
  <2> QED BY <1>2, <1>3, <1>4, <1>5, <2>1
<1>7. Tail(c) = s
  BY <1>2, <1>4, <1>5, <1>6, SeqEqual
<1> QED BY <1>4, <1>5, <1>7 DEF c

\* How these plans go on.
LEMMA LoadPlansFollow ==
  /\ Head(OpenPlan) = Sync /\ Len(OpenPlan) = 5 /\ Tail(OpenPlan) = SyncAndStop
  /\ Head(SyncAndStop) = Sync /\ Len(SyncAndStop) = 4 /\ Tail(SyncAndStop) = StopStream
  /\ \A f : /\ Head(LoadPlan(f)) = Sync /\ Len(LoadPlan(f)) = 2
            /\ Tail(LoadPlan(f)) = LoadFrom2(f)
            /\ Head(LoadFrom2(f)) = SetReg(f) /\ Len(LoadFrom2(f)) = 1
  /\ << >> \notin LoadPlans
<1> DEFINE R == {Sync, Write("HOST_READ_GO", 0), Write("CSTREAM_CFG", 0), Write("SINK_GO", 0)}
<1>1. StopStream \in Seq(R) /\ Len(StopStream) = 3 /\ Sync \in R
  <2>1. {Write("HOST_READ_GO", 0), Write("CSTREAM_CFG", 0), Write("SINK_GO", 0)} \subseteq R
        /\ Sync \in R
    OBVIOUS
  <2> HIDE DEF R
  <2> QED BY <2>1 DEF StopStream
<1> HIDE DEF R
<1>2. /\ Head(SyncAndStop) = Sync /\ Len(SyncAndStop) = 4 /\ Tail(SyncAndStop) = StopStream
      /\ SyncAndStop # << >>
  <2>1. /\ Head(SyncAndStop) = Sync /\ Tail(SyncAndStop) = StopStream
        /\ Len(SyncAndStop) = Len(StopStream) + 1 /\ SyncAndStop # << >>
    BY <1>1, ConsProperties, Zenon DEF SyncAndStop
  <2> QED BY <1>1, <2>1
<1>3. SyncAndStop \in Seq(R)
  <2>1. <<Sync>> \in Seq(R)
    BY <1>1
  <2> QED BY <1>1, <2>1, ConcatProperties DEF SyncAndStop
<1>4. /\ Head(OpenPlan) = Sync /\ Len(OpenPlan) = 5 /\ Tail(OpenPlan) = SyncAndStop
      /\ OpenPlan # << >>
  <2>1. /\ Head(OpenPlan) = Sync /\ Tail(OpenPlan) = SyncAndStop
        /\ Len(OpenPlan) = Len(SyncAndStop) + 1 /\ OpenPlan # << >>
    BY <1>3, ConsProperties, Zenon DEF OpenPlan
  <2> QED BY <1>2, <2>1
<1>5. ASSUME NEW f
      PROVE  /\ Head(LoadPlan(f)) = Sync /\ Len(LoadPlan(f)) = 2
             /\ Tail(LoadPlan(f)) = LoadFrom2(f)
             /\ Head(LoadFrom2(f)) = SetReg(f) /\ Len(LoadFrom2(f)) = 1
             /\ LoadPlan(f) # << >> /\ LoadFrom2(f) # << >>
  BY DEF LoadPlan, LoadFrom2
<1> QED BY <1>2, <1>4, <1>5 DEF LoadPlans, Opens, Loads

\* The kind of access at the head tells the plans apart.
LEMMA Kinds ==
  /\ \A p \in Writes : Head(p).kind = "write"
  /\ \A p \in {StartFrom4, HaltStream} : Head(p).kind = "cast"
  /\ \A p \in Syncs : Head(p) = Sync /\ Head(p).kind = "sync" /\ Len(p) > 1
  /\ \A f : Head(LoadFrom2(f)).kind = "set_reg"
  /\ \A p \in LoadPlans : p \notin Plans
<1>1. \A p \in Writes : Head(p).kind = "write"
  BY PlanHeads DEF Writes, Write
<1>2. \A p \in {StartFrom4, HaltStream} : Head(p).kind = "cast"
  BY PlanHeads DEF Cast
<1>3. ASSUME NEW p \in Syncs PROVE Head(p) = Sync /\ Len(p) > 1
  <2>1. Head(p) = Sync /\ Len(p) \in {2, 4, 5}
    <3>1. CASE p \in Opens
      BY <3>1, LoadPlansFollow DEF Opens
    <3>2. CASE p \notin Opens
      <4>1. PICK f \in Firmwares : p = LoadPlan(f)
        BY <3>2 DEF Syncs
      <4> QED BY <4>1, LoadPlansFollow
    <3> QED BY <3>1, <3>2
  <2> QED BY <2>1
<1>4. Sync.kind = "sync" /\ \A f : SetReg(f).kind = "set_reg"
  BY DEF Sync, SetReg
<1>5. \A p \in LoadPlans : Head(p).kind \in {"sync", "set_reg"}
  BY <1>3, <1>4, LoadPlansFollow DEF LoadPlans, Loads, Syncs
<1>6. \A p \in Plans : Head(p).kind \in {"write", "cast"}
  BY <1>1, <1>2 DEF Plans
<1> QED BY <1>1, <1>2, <1>3, <1>4, <1>5, <1>6, LoadPlansFollow

-----------------------------------------------------------------------------
(***************************************************************************)
(* Type correctness.                                                       *)
(***************************************************************************)
\* What is to be done is the rest of a plan; only a write or a sync is waited for.
TypeInv ==
  /\ TypeOK
  /\ pc \in {"send", "wait"} => todo \in Plans \cup LoadPlans
  /\ pc = "wait" => todo \in Writes \cup Syncs

LEMMA TypeInit == Init => TypeInv
BY OwnAssumption DEF Init, TypeInv, TypeOK, RUNNING

\* The rest of a plan is one.
LEMMA PlanTail ==
  ASSUME NEW p \in Plans \cup LoadPlans, Len(p) > 1
  PROVE  Tail(p) \in Plans \cup LoadPlans /\ (p \in Plans => Tail(p) \in Plans)
<1>0. p \in Plans => p \notin Opens /\ p \notin Loads
  BY Kinds DEF LoadPlans
<1>1. CASE p \in Plans
  <2>1. p \in {StartStream, StartFrom2, StartFrom3, StopStream, StopFrom2}
    <3>1. p # StartFrom4 /\ p # HaltStream /\ p # StopFrom3
      BY PlansFollow
    <3> QED BY <1>1, <3>1 DEF Plans, Writes
  <2>2. Tail(p) \in {StartFrom2, StartFrom3, StartFrom4, StopFrom2, StopFrom3}
    BY <2>1, PlansFollow
  <2> QED BY <2>2 DEF Plans, Writes
<1>2. CASE p \in Opens
  <2>1. Tail(p) \in {SyncAndStop, StopStream}
    BY <1>2, LoadPlansFollow DEF Opens
  <2> QED BY <1>0, <1>2, <2>1 DEF Plans, Writes, LoadPlans, Opens
<1>3. CASE p \in Loads
  <2>1. PICK f \in Firmwares : p = LoadPlan(f) \/ p = LoadFrom2(f)
    BY <1>3 DEF Loads
  <2>2. p = LoadPlan(f)
    BY <2>1, LoadPlansFollow
  <2>3. Tail(p) = LoadFrom2(f)
    BY <2>2, LoadPlansFollow
  <2> QED BY <1>0, <1>3, <2>3 DEF LoadPlans, Loads
<1> QED BY <1>0, <1>1, <1>2, <1>3 DEF LoadPlans

LEMMA NoPlanEmpty == << >> \notin Plans \cup LoadPlans
BY PlansFollow, LoadPlansFollow

\* An access that is done or has failed leads to the rest of the plan, to the loop or
\* back to the user.
LEMMA DoneType ==
  ASSUME TypeInv, pc \in {"send", "wait"}, Done \/ Fails \/ Returns(-1)
  PROVE  /\ pc' \in {"send", "loop", "idle"}
         /\ pc' = "send" <=> todo' # << >>
         /\ pc' = "send" => todo' \in Plans \cup LoadPlans
         /\ ret' \in -5 .. 0 /\ phase' \in {"new", "open", "started"}
         /\ failed' \subseteq {"load", "stop", "misread"}
<1>0. todo \in Plans \cup LoadPlans /\ ret \in -5 .. 0 /\ phase \in {"new", "open", "started"}
      /\ failed \subseteq {"load", "stop", "misread"}
  BY DEF TypeInv, TypeOK
<1>1. CASE Done /\ Len(todo) > 1
  <2>1. pc' = "send" /\ todo' = Tail(todo) /\ UNCHANGED <<ret, phase, failed>>
    BY <1>1 DEF Done
  <2>2. todo' \in Plans \cup LoadPlans
    BY <1>0, <1>1, <2>1, PlanTail
  <2>3. todo' # << >>
    BY <2>2, NoPlanEmpty
  <2> QED BY <1>0, <2>1, <2>2, <2>3
<1>2. CASE pc' = "loop" /\ todo' = << >> /\ UNCHANGED <<ret, phase, failed>>
  BY <1>0, <1>2
<1>3. ASSUME NEW r \in -5 .. 0, Returns(r)
      PROVE  /\ pc' = "idle" /\ todo' = << >> /\ ret' \in -5 .. 0
             /\ phase' \in {"new", "open", "started"}
             /\ failed' \subseteq {"load", "stop", "misread"}
  BY <1>0, <1>3 DEF Returns
<1>4. CASE Returns(ret) \/ Returns(-1)
  <2>1. -1 \in -5 .. 0
    OBVIOUS
  <2> QED BY <1>0, <1>3, <1>4, <2>1
<1> QED BY <1>0, <1>1, <1>2, <1>4 DEF Done, Fails

\* The request on the way out
LEMMA WayOutType ==
  ASSUME TypeInv, WayOut
  PROVE  fw' = fw /\ regs' \subseteq regs
BY DEF WayOut, device

\* A load that fails
LEMMA LoadFailsType ==
  ASSUME TypeInv, NEW f \in Firmwares, LoadFails(f)
  PROVE  /\ pc' = "idle" /\ todo' = << >> /\ ret' = -1
         /\ fw' \in Firmwares \cup {"none"} /\ regs' \subseteq Names
         /\ failed' \subseteq {"load", "stop", "misread"} /\ "load" \in failed'
<1>1. fw' \in Firmwares \cup {"none"} /\ regs' \subseteq Names
  <2>1. CASE WayOut
    BY <2>1, WayOutType DEF TypeInv, TypeOK
  <2>2. CASE fw' \in {"none", f} /\ regs' = {}
    BY <2>2
  <2> QED BY <2>1, <2>2 DEF LoadFails
<1> QED BY <1>1 DEF LoadFails, TypeInv, TypeOK

LEMMA LoadType ==
  ASSUME TypeInv, NEW f \in Firmwares, NEW plan \in LoadPlans, Load(f, plan),
         op' \in {"open", "load"}
  PROVE  TypeInv'
<1>1. UNCHANGED <<state, map, phase, torn, halted>>
  BY DEF Load
<1>2. CASE Configured(f) /\ pc' = "send" /\ todo' = plan /\ ret' = 0
  <2>1. todo' # << >>
    BY <1>2, NoPlanEmpty
  <2>2. fw' \in Firmwares \cup {"none"} /\ regs' = {} /\ failed' = {}
    BY <1>2 DEF Configured
  <2> QED BY <1>1, <1>2, <2>1, <2>2 DEF TypeInv, TypeOK
<1>3. CASE LoadFails(f)
  BY <1>1, <1>3, LoadFailsType DEF TypeInv, TypeOK
<1> QED BY <1>2, <1>3 DEF Load

LEMMA TypeStep == TypeInv /\ [Next]_vars => TypeInv'
<1> SUFFICES ASSUME TypeInv, [Next]_vars PROVE TypeInv'
  OBVIOUS
<1> USE DEF device
<1>1. CASE Open
  BY <1>1, LoadType, OwnAssumption DEF Open, Calls, LoadPlans, Opens
<1>2. ASSUME NEW f \in Firmwares, LoadFirmware(f) PROVE TypeInv'
  BY <1>2, LoadType DEF LoadFirmware, Calls, LoadPlans, Loads
<1>3. CASE CaptureStart
  BY <1>3, PlansFollow DEF CaptureStart, Calls, Plans, Writes, RUNNING, TypeInv, TypeOK
<1>4. CASE Dispatch
  BY <1>4 DEF Dispatch, Calls, FATAL_ERROR, TypeInv, TypeOK
<1>5. CASE CaptureStop
  BY <1>5, PlansFollow DEF CaptureStop, Calls, Plans, RUNNING, TypeInv, TypeOK
\* An access is done or has failed.
<1>6. ASSUME pc \in {"send", "wait"}, Done \/ Fails \/ Returns(-1),
             UNCHANGED <<op, state, map, fw, torn>>, halted' \in 0 .. 1, regs' \subseteq Names
      PROVE  TypeInv'
  BY <1>6, DoneType DEF TypeInv, TypeOK
<1>7. CASE Send
  <2>1. /\ pc = "send" /\ UNCHANGED <<op, state, map, fw, regs, torn>>
        /\ halted' \in 0 .. 1 /\ regs' \subseteq Names
    BY <1>7 DEF Send, TypeInv, TypeOK
  <2>2. \/ Done
        \/ /\ Head(todo).kind \notin {"cast", "set_reg"}
           /\ pc' = "wait" /\ UNCHANGED <<todo, ret, phase, failed>>
    BY <1>7 DEF Send, Doing
  <2>3. CASE Done
    BY <1>6, <2>1, <2>3
  <2>4. CASE /\ Head(todo).kind \notin {"cast", "set_reg"}
             /\ pc' = "wait" /\ UNCHANGED <<todo, ret, phase, failed>>
    <3>1. todo \in Writes \cup Syncs
      <4>1. CASE todo \in Plans
        BY <2>4, <4>1, Kinds DEF Plans
      <4>2. CASE todo \in LoadPlans
        <5>1. \A f \in Firmwares : todo # LoadFrom2(f)
          BY <2>4, Kinds
        <5> QED BY <4>2, <5>1 DEF LoadPlans, Loads, Syncs
      <4> QED BY <2>1, <4>1, <4>2 DEF TypeInv
    <3> QED BY <2>1, <2>4, <3>1 DEF TypeInv, TypeOK
  <2> QED BY <2>2, <2>3, <2>4
<1>8. CASE SendFails \/ ReceiveFails \/ Receive
  <2>1. /\ pc \in {"send", "wait"} /\ UNCHANGED <<op, state, map, fw, regs, torn, halted>>
        /\ Done \/ Fails
    BY <1>8 DEF SendFails, ReceiveFails, Receive
  <2> QED BY <1>6, <2>1 DEF TypeInv, TypeOK
<1>9. CASE Synced
  <2>1. /\ pc = "wait" /\ UNCHANGED <<op, state, map, fw, regs, torn, halted>>
        /\ Done \/ UNCHANGED <<pc, todo, ret, phase, failed>>
    BY <1>9 DEF Synced
  <2> QED BY <1>6, <2>1 DEF TypeInv, TypeOK
<1>10. CASE SyncFails
  <2>1. /\ pc \in {"send", "wait"} /\ Returns(-1) /\ UNCHANGED <<op, state, map, torn, halted>>
        /\ fw' = fw /\ regs' \subseteq regs
    BY <1>10, WayOutType DEF SyncFails
  <2>2. halted' \in 0 .. 1 /\ regs' \subseteq Names
    BY <2>1 DEF TypeInv, TypeOK
  <2> QED BY <1>6, <2>1, <2>2
<1>11. CASE ReplaceMap
  <2>1. /\ pc = "send" /\ UNCHANGED <<op, state, fw, regs, torn, halted>> /\ Done
        /\ map' = Head(todo).name /\ Head(todo).kind = "set_reg"
    BY <1>11 DEF ReplaceMap, Doing
  <2>2. PICK f \in Firmwares : todo = LoadFrom2(f)
    <3>1. todo \notin Plans /\ todo \notin Syncs
      BY <2>1, Kinds DEF Plans
    <3>2. todo \in LoadPlans
      BY <2>1, <3>1 DEF TypeInv
    <3> QED BY <3>1, <3>2 DEF LoadPlans, Loads, Syncs
  <2>3. map' \in Firmwares
    BY <2>1, <2>2, LoadPlansFollow DEF SetReg
  <2>4. /\ pc' \in {"send", "loop", "idle"}
        /\ pc' = "send" <=> todo' # << >>
        /\ pc' = "send" => todo' \in Plans \cup LoadPlans
        /\ ret' \in -5 .. 0 /\ phase' \in {"new", "open", "started"}
        /\ failed' \subseteq {"load", "stop", "misread"}
    BY <2>1, DoneType
  <2> QED BY <2>1, <2>3, <2>4 DEF TypeInv, TypeOK
<1>12. CASE Decode
  BY <1>12 DEF Decode, history, RUNNING, BREAK_LOOP, COUNT_LIMIT, END_OF_STREAM, HOST_READ_OFF,
              TypeInv, TypeOK
<1>13. CASE Misread
  <2>1. /\ pc = "loop" /\ UNCHANGED <<pc, op, todo, ret, map, reqs, fw, regs, phase, torn, halted>>
        /\ state' \in 0 .. 5 /\ failed' \subseteq failed \cup {"misread"}
    BY <1>13 DEF Misread, RUNNING, BREAK_LOOP, COUNT_LIMIT, END_OF_STREAM, HOST_READ_OFF
  <2> QED BY <2>1 DEF TypeInv, TypeOK
<1>14. CASE LoopFails
  BY <1>14 DEF LoopFails, FATAL_ERROR, TypeInv, TypeOK
<1>15. CASE LoopReturns
  <2>1. torn' \in 0 .. 1
    BY <1>15 DEF LoopReturns, TypeInv, TypeOK
  <2>2. /\ pc = "loop" /\ UNCHANGED <<op, state, map, fw, regs, phase, halted, failed>>
        /\ \/ pc' = "send" /\ todo' = StopStream
           \/ pc' = "idle" /\ UNCHANGED todo
        /\ ret' \in {0, -1, -state}
    BY <1>15 DEF LoopReturns
  <2>3. ret' \in -5 .. 0
    BY <2>2 DEF TypeInv, TypeOK
  <2> QED BY <2>1, <2>2, <2>3, PlansFollow DEF Plans, Writes, TypeInv, TypeOK
<1>16. CASE Respond
  BY <1>16 DEF Respond, history, At, TypeInv, TypeOK
<1>17. CASE Stream
  BY <1>17 DEF Stream, history, TypeInv, TypeOK
<1>18. CASE UNCHANGED vars
  BY <1>18 DEF vars, history, TypeInv, TypeOK
<1> QED BY <1>1, <1>2, <1>3, <1>4, <1>5, <1>7, <1>8, <1>9, <1>10, <1>11, <1>12, <1>13, <1>14,
           <1>15, <1>16, <1>17, <1>18 DEF Next, UserCall, HostStep

\* Type correctness of Session.
THEOREM TypeCorrect == Spec => []TypeOK
<1>1. TypeInv => TypeOK
  BY DEF TypeInv
<1> QED BY <1>1, TypeInit, TypeStep, PTL DEF Spec
-----------------------------------------------------------------------------
(***************************************************************************)
(* The load.  Until its map is in use the FPGA has nothing set, and only   *)
(* the request that the stream is synchronised with is under way.          *)
(***************************************************************************)
Loading == pc \in {"send", "wait"} /\ todo \in LoadPlans

LoadInv ==
  /\ phase = "new" => map = Own
  /\ op = "load" /\ pc # "idle" => Loading
  /\ Loading =>
       /\ ret = 0 /\ regs = {}
       /\ \/ op = "open" /\ phase = "new" /\ fw = map /\ todo \in Opens
          \/ op = "load" /\ phase = "open" /\ todo \in {LoadPlan(fw), LoadFrom2(fw)}
       /\ pc = "send" => reqs = << >> /\ chan = << >>
       /\ pc = "wait" => \/ reqs = <<Request(Sync)>> /\ chan = << >>
                         \/ reqs = << >> /\ chan = <<AnswerTo(Request(Sync))>>

\* Without a failure of the load the map is that of the firmware.
MapInv ==
  "load" \notin failed /\ (phase # "new" \/ pc # "idle") => fw = map \/ Loading

\* The other variables that say how far a load is
stages == <<pc, op, todo, ret, map, fw, regs, reqs, chan, phase>>

LEMMA LoadInit == Init => LoadInv /\ MapInv
BY DEF Init, LoadInv, MapInv, Loading

\* A load begins, or fails before it has begun to synchronise.
LEMMA LoadStarts ==
  ASSUME TypeInv, LoadInv, NEW f \in Firmwares, NEW plan \in LoadPlans, Load(f, plan),
         \/ op' = "open" /\ phase = "new" /\ f = map /\ plan = OpenPlan
         \/ op' = "load" /\ phase = "open" /\ plan = LoadPlan(f)
  PROVE  LoadInv' /\ MapInv'
<1>1. UNCHANGED <<map, phase>>
  BY DEF Load
<1>2. CASE Configured(f) /\ pc' = "send" /\ todo' = plan /\ ret' = 0
  <2>1. fw' = f /\ regs' = {} /\ reqs' = << >> /\ chan' = << >> /\ ~(pc' = "wait")
    BY <1>2 DEF Configured
  <2>2. Loading'
    BY <1>2 DEF Loading
  <2>3. \/ op' = "open" /\ phase' = "new" /\ fw' = map' /\ todo' \in Opens
        \/ op' = "load" /\ phase' = "open" /\ todo' \in {LoadPlan(fw'), LoadFrom2(fw')}
    BY <1>1, <1>2, <2>1 DEF Opens
  <2> QED BY <1>1, <1>2, <2>1, <2>2, <2>3 DEF LoadInv, MapInv
<1>3. CASE LoadFails(f)
  BY <1>1, <1>3, LoadFailsType DEF LoadInv, MapInv, Loading
<1> QED BY <1>2, <1>3 DEF Load

\* The kind of the access at the head tells whether this is a load.
LEMMA LoadingKind ==
  ASSUME TypeInv, pc \in {"send", "wait"}
  PROVE  /\ Loading <=> Doing({"sync", "set_reg"})
         /\ ~Loading => todo \in Plans
         /\ Doing({"sync"}) => todo \in Syncs /\ Head(todo) = Sync
         /\ Doing({"set_reg"}) => \E f \in Firmwares : todo = LoadFrom2(f) /\ pc = "send"
         /\ Doing({"write"}) => todo \in Writes
         /\ todo # << >>
<1>1. todo \in Plans \cup LoadPlans /\ (pc = "wait" => todo \in Writes \cup Syncs)
  BY DEF TypeInv
<1>2. CASE todo \in Plans
  <2>1. Head(todo).kind \in {"write", "cast"} /\ todo \notin LoadPlans
        /\ (Head(todo).kind = "write" => todo \in Writes)
    BY <1>2, Kinds DEF Plans
  <2> QED BY <1>2, <2>1, NoPlanEmpty DEF Loading, Doing
<1>3. CASE todo \in Syncs
  <2>1. Head(todo) = Sync /\ Head(todo).kind = "sync" /\ todo \in LoadPlans
    BY <1>3, Kinds DEF LoadPlans, Syncs, Loads
  <2> QED BY <1>3, <2>1, NoPlanEmpty DEF Loading, Doing
<1>4. ASSUME NEW f \in Firmwares, todo = LoadFrom2(f) PROVE Doing({"set_reg"}) /\ Loading /\ pc = "send"
        /\ ~Doing({"sync"}) /\ ~Doing({"write"})
  <2>1. todo \in LoadPlans /\ Head(todo).kind = "set_reg"
    BY <1>4, Kinds DEF LoadPlans, Loads
  <2>2. todo \notin Writes \cup Syncs
    BY <2>1, Kinds
  <2> QED BY <1>1, <2>1, <2>2 DEF Loading, Doing
<1>5. todo \in Plans \/ todo \in Syncs \/ \E f \in Firmwares : todo = LoadFrom2(f)
  BY <1>1 DEF LoadPlans, Loads, Syncs
<1>6. todo \in LoadPlans => todo \notin Plans
  BY Kinds
<1>7. Doing({"sync", "set_reg"}) <=> Doing({"sync"}) \/ Doing({"set_reg"})
  BY DEF Doing
<1> QED BY <1>1, <1>2, <1>3, <1>4, <1>5, <1>6, <1>7, NoPlanEmpty

\* What follows an access of no load is none.
LEMMA NotLoading ==
  ASSUME TypeInv, pc \in {"send", "wait"}, ~Loading, Done \/ Fails
  PROVE  ~Loading' /\ (phase' = "new" => phase = "new") /\ failed \subseteq failed'
<1>1. todo \in Plans
  BY LoadingKind
<1>2. CASE Len(todo) > 1 /\ todo' = Tail(todo) /\ UNCHANGED <<ret, phase, failed>>
  <2>1. todo' \in Plans
    BY <1>1, <1>2, PlanTail
  <2> QED BY <1>2, <2>1, Kinds DEF Loading
<1>3. ASSUME NEW r, Returns(r) PROVE ~Loading' /\ (phase' = "new" => phase = "new")
        /\ failed \subseteq failed'
  BY <1>3 DEF Returns, Loading
<1>4. CASE pc' = "loop" /\ UNCHANGED <<ret, phase, failed>>
  BY <1>4 DEF Loading
<1> QED BY <1>2, <1>3, <1>4 DEF Done, Fails

\* The answer that is searched is found at once, with nothing behind it.
LEMMA SyncedTo ==
  ASSUME TypeInv, LoadInv, Synced
  PROVE  /\ pc = "wait" /\ pc' = "send" /\ Loading /\ regs = {} /\ ret = 0
         /\ reqs = << >> /\ chan' = << >>
         /\ UNCHANGED <<op, state, ret, map, fw, reqs, regs, phase, failed>>
         /\ \/ op = "open" /\ todo' = SyncAndStop
            \/ op = "open" /\ todo' = StopStream
            \/ op = "load" /\ todo' = LoadFrom2(fw) /\ todo' \in LoadPlans
<1>1. /\ pc = "wait" /\ Doing({"sync"}) /\ chan # << >>
      /\ UNCHANGED <<op, state, map, fw, reqs, regs>>
  BY DEF Synced
<1>2. Head(todo) = Sync /\ todo \in Syncs /\ Loading
  <2>1. Doing({"sync", "set_reg"})
    BY <1>1 DEF Doing
  <2> QED BY <1>1, <2>1, LoadingKind
<1>3. reqs = << >> /\ chan = <<AnswerTo(Request(Sync))>> /\ regs = {} /\ ret = 0
  BY <1>1, <1>2 DEF LoadInv
<1>4. chan' = << >> /\ Done
  BY <1>1, <1>2, <1>3 DEF Synced
<1>5. pc' = "send" /\ todo' = Tail(todo) /\ UNCHANGED <<ret, phase, failed>>
  BY <1>2, <1>4, Kinds DEF Done
<1>6. CASE todo \in {LoadPlan(fw), LoadFrom2(fw)} /\ op = "load"
  <2>1. todo = LoadPlan(fw)
    BY <1>2, <1>6, Kinds, LoadPlansFollow
  <2>2. todo \notin Opens
    <3>1. Len(OpenPlan) = 5 /\ Len(SyncAndStop) = 4 /\ Len(todo) = 2
      BY <2>1, LoadPlansFollow
    <3> QED BY <3>1 DEF Opens
  <2>3. PICK f \in Firmwares : todo = LoadPlan(f)
    BY <1>2, <2>2 DEF Syncs
  <2>4. Tail(todo) = LoadFrom2(fw) /\ Tail(todo) = LoadFrom2(f)
    BY <2>1, <2>3, LoadPlansFollow
  <2>5. LoadFrom2(f) \in LoadPlans
    BY DEF LoadPlans, Loads
  <2> QED BY <1>1, <1>2, <1>3, <1>4, <1>5, <1>6, <2>4, <2>5
<1>7. CASE todo \in Opens /\ op = "open"
  <2>1. todo' = SyncAndStop \/ todo' = StopStream
    BY <1>5, <1>7, LoadPlansFollow DEF Opens
  <2> QED BY <1>1, <1>2, <1>3, <1>4, <1>5, <1>7, <2>1
<1> QED BY <1>2, <1>6, <1>7 DEF LoadInv

\* A write that is done or has failed, or a cast that has, is an access of no load.
LEMMA NoLoadAccess ==
  ASSUME TypeInv, SendFails \/ Receive \/ ReceiveFails
  PROVE  /\ pc \in {"send", "wait"} /\ ~Loading /\ todo \in Plans
         /\ Done \/ Fails
         /\ UNCHANGED <<op, state, map, fw, regs, reqs>>
<1>1. /\ pc \in {"send", "wait"} /\ UNCHANGED <<op, state, map, fw, regs, reqs>>
      /\ Done \/ Fails
      /\ Head(todo).kind \in {"write", "cast"}
  BY DEF SendFails, Receive, ReceiveFails, Doing, device
<1>2. ~Doing({"sync", "set_reg"})
  BY <1>1 DEF Doing
<1> QED BY <1>1, <1>2, LoadingKind

LEMMA LoadStep == TypeInv /\ LoadInv /\ MapInv /\ [Next]_vars => LoadInv' /\ MapInv'
<1> SUFFICES ASSUME TypeInv, LoadInv, MapInv, [Next]_vars PROVE LoadInv' /\ MapInv'
  OBVIOUS
<1> USE DEF device
\* A step that is none of a load's
<1>1. ASSUME ~Loading, ~Loading', UNCHANGED <<map, fw>>, phase' = "new" => phase = "new",
             "load" \in failed => "load" \in failed', op' = "load" => pc' = "idle",
             pc # "idle" \/ phase # "new"
      PROVE  LoadInv' /\ MapInv'
  BY <1>1 DEF LoadInv, MapInv, Loading
<1>2. CASE Open
  BY <1>2, LoadStarts, OwnAssumption DEF Open, Calls, LoadPlans, Opens, LoadInv
<1>3. ASSUME NEW f \in Firmwares, LoadFirmware(f) PROVE LoadInv' /\ MapInv'
  BY <1>3, LoadStarts DEF LoadFirmware, Calls, LoadPlans, Loads
<1>4. CASE CaptureStart \/ Dispatch \/ CaptureStop
  <2>1. /\ pc = "idle" /\ phase # "new" /\ op' \in {"start", "dispatch", "stop"}
        /\ UNCHANGED <<map, fw, phase, failed>>
        /\ pc' \in {"send", "loop", "idle"} /\ (pc' = "send" => todo' \in {StartStream, HaltStream})
    BY <1>4 DEF CaptureStart, Dispatch, CaptureStop, Calls
  <2>2. StartStream \notin LoadPlans /\ HaltStream \notin LoadPlans
    BY Kinds DEF Plans, Writes
  <2> QED BY <1>1, <2>1, <2>2 DEF Loading
\* An access that is none of a load's
<1>5. ASSUME pc \in {"send", "wait"}, ~Loading, UNCHANGED <<op, map, fw>>,
             Done \/ Fails \/ (pc' = "wait" /\ UNCHANGED <<todo, phase, failed>>)
      PROVE  LoadInv' /\ MapInv'
  <2>1. op # "load" /\ pc # "idle"
    BY <1>5 DEF LoadInv
  <2>2. CASE pc' = "wait" /\ UNCHANGED <<todo, phase, failed>>
    BY <1>1, <1>5, <2>1, <2>2 DEF Loading
  <2>3. CASE Done \/ Fails
    BY <1>1, <1>5, <2>1, <2>3, NotLoading
  <2> QED BY <1>5, <2>2, <2>3
<1>6. CASE Send
  <2>1. /\ pc = "send" /\ UNCHANGED <<op, map, fw, chan, regs>> /\ reqs' = Append(reqs, Request(Head(todo)))
        /\ Done \/ (pc' = "wait" /\ UNCHANGED <<todo, ret, phase, failed>>)
        /\ ~Doing({"set_reg"})
    BY <1>6 DEF Send, Doing
  <2>2. CASE ~Loading
    BY <1>5, <2>1, <2>2
  <2>3. CASE Loading
    <3>1. Head(todo) = Sync /\ todo \in Syncs /\ ~Doing({"cast"})
      BY <2>1, <2>3, LoadingKind DEF Doing
    <3>2. pc' = "wait" /\ UNCHANGED <<todo, ret, phase, failed>>
      BY <1>6, <3>1 DEF Send
    <3>3. reqs = << >> /\ chan = << >>
      BY <2>1, <2>3 DEF LoadInv
    <3>4. reqs' = <<Request(Sync)>> /\ Request(Sync)' = Request(Sync)
      BY <2>1, <3>1, <3>3 DEF Request
    <3>5. Loading'
      BY <2>3, <3>2 DEF Loading
    <3> QED BY <2>1, <2>3, <3>2, <3>3, <3>4, <3>5 DEF LoadInv, MapInv
  <2> QED BY <2>2, <2>3
<1>7. CASE SendFails \/ Receive \/ ReceiveFails
  BY <1>5, <1>7, NoLoadAccess
<1>8. CASE Synced
  <2>1. /\ pc = "wait" /\ pc' = "send" /\ Loading /\ reqs = << >> /\ chan' = << >>
        /\ UNCHANGED <<op, ret, map, fw, reqs, regs, phase, failed>>
    BY <1>8, SyncedTo
  <2>2. \/ op = "open" /\ todo' = SyncAndStop
        \/ op = "open" /\ todo' = StopStream
        \/ op = "load" /\ todo' = LoadFrom2(fw) /\ todo' \in LoadPlans
    BY <1>8, SyncedTo
  <2>3. CASE todo' = StopStream /\ op = "open"
    <3>1. ~Loading'
      BY <2>3, Kinds DEF Loading, Plans, Writes
    <3> QED BY <2>1, <2>3, <3>1 DEF LoadInv, MapInv
  <2>4. CASE todo' = SyncAndStop /\ op = "open"
    <3>1. Loading'
      BY <2>1, <2>4 DEF Loading, LoadPlans, Opens
    <3> QED BY <2>1, <2>4, <3>1 DEF LoadInv, MapInv, Opens
  <2>5. CASE op = "load" /\ todo' = LoadFrom2(fw) /\ todo' \in LoadPlans
    <3>1. Loading'
      BY <2>1, <2>5 DEF Loading
    <3> QED BY <2>1, <2>5, <3>1 DEF LoadInv, MapInv
  <2> QED BY <2>2, <2>3, <2>4, <2>5
<1>9. CASE SyncFails
  <2>1. /\ Loading /\ UNCHANGED <<op, map>> /\ pc' = "idle" /\ fw' = fw
        /\ phase' \in {phase, "open", "started"} /\ (op = "open" => phase' = phase)
        /\ failed' = IF op = "load" THEN failed \cup {op} ELSE failed
    BY <1>9, LoadingKind, WayOutType DEF SyncFails, Returns, Doing, LoadInv
  <2>2. ~Loading' /\ phase' = phase
    BY <1>9, <2>1 DEF Loading, SyncFails, Returns, LoadInv
  <2> QED BY <2>1, <2>2 DEF LoadInv, MapInv
<1>10. CASE ReplaceMap
  <2>1. /\ pc = "send" /\ Loading /\ Done /\ map' = Head(todo).name /\ UNCHANGED <<op, fw>>
        /\ Doing({"set_reg"})
    BY <1>10, LoadingKind DEF ReplaceMap, Doing
  <2>2. PICK f \in Firmwares : todo = LoadFrom2(f)
    BY <2>1, LoadingKind
  <2>3. op = "load" /\ phase = "open" /\ todo = LoadFrom2(fw)
    <3>1. todo \notin Opens
      BY <2>1, Kinds DEF Syncs, Doing
    <3>2. op = "load" /\ phase = "open" /\ todo \in {LoadPlan(fw), LoadFrom2(fw)}
      BY <2>1, <3>1 DEF LoadInv
    <3>3. todo # LoadPlan(fw)
      BY <2>2, LoadPlansFollow
    <3> QED BY <3>2, <3>3
  <2>4. map' = fw /\ Len(todo) = 1
    BY <2>1, <2>3, LoadPlansFollow DEF SetReg
  <2>5. pc' = "idle" /\ phase' = "open"
    <3>1. todo # HaltStream
      BY <2>1, Kinds DEF Plans, Loading
    <3> QED BY <2>1, <2>3, <2>4, <3>1 DEF Done, Returns
  <2> QED BY <2>1, <2>4, <2>5 DEF LoadInv, MapInv, Loading
<1>11. CASE Decode \/ Misread \/ LoopFails \/ LoopReturns
  <2>1. /\ pc = "loop" /\ UNCHANGED <<op, map, fw, phase>> /\ pc' \in {"loop", "idle", "send"}
        /\ (pc' = "send" => todo' = StopStream) /\ failed \subseteq failed'
    BY <1>11 DEF Decode, Misread, LoopFails, LoopReturns, history
  <2>2. ~Loading /\ op # "load"
    BY <2>1 DEF LoadInv, Loading
  <2>3. ~Loading'
    BY <2>1, Kinds DEF Loading, Plans, Writes
  <2> QED BY <1>1, <2>1, <2>2, <2>3
<1>12. CASE Respond
  <2>1. /\ UNCHANGED <<pc, op, todo, ret, map, fw, phase, failed>>
        /\ reqs # << >> /\ reqs' = Tail(reqs) /\ chan' = Append(chan, AnswerTo(Head(reqs)))
        /\ regs' = IF Head(reqs).value = 1 THEN regs \cup At(Head(reqs).addr)
                   ELSE regs \ At(Head(reqs).addr)
    BY <1>12 DEF Respond, history
  <2>2. CASE Loading
    <3>1. pc = "wait" /\ reqs = <<Request(Sync)>> /\ chan = << >>
      BY <2>1, <2>2 DEF LoadInv, Loading
    <3>2. Head(reqs) = Request(Sync) /\ reqs' = << >>
      BY <2>1, <3>1
    <3>3. chan' = <<AnswerTo(Request(Sync))>> /\ Request(Sync)' = Request(Sync)
      BY <2>1, <3>1, <3>2 DEF Request
    <3>4. AnswerTo(Request(Sync))' = AnswerTo(Request(Sync))
      BY <3>3 DEF AnswerTo
    <3>5. Request(Sync).value = 0
      BY DEF Request, Sync
    <3>6. regs' = {} /\ Loading'
      BY <2>1, <2>2, <3>2, <3>5 DEF LoadInv, Loading
    <3> QED BY <2>1, <2>2, <3>1, <3>2, <3>3, <3>4, <3>6 DEF LoadInv, MapInv
  <2>3. CASE ~Loading
    BY <2>1, <2>3 DEF LoadInv, MapInv, Loading
  <2> QED BY <2>2, <2>3
<1>13. CASE Stream
  <2>1. UNCHANGED <<pc, op, todo, ret, map, fw, phase, failed>> /\ regs # {}
    BY <1>13 DEF Stream, Streaming, history
  <2>2. ~Loading
    BY <2>1 DEF LoadInv
  <2> QED BY <2>1, <2>2 DEF LoadInv, MapInv, Loading
<1>14. CASE UNCHANGED vars
  <2>1. UNCHANGED <<stages, failed>>
    BY <1>14 DEF vars, stages, history
  <2> QED BY <2>1 DEF LoadInv, MapInv, Loading, stages, Request, AnswerTo
<1> QED BY <1>2, <1>3, <1>4, <1>6, <1>7, <1>8, <1>9, <1>10, <1>11, <1>12, <1>13, <1>14
        DEF Next, UserCall, HostStep

-----------------------------------------------------------------------------
(***************************************************************************)
(* The order of writes.  Requests that a failed call has left under way    *)
(* are carried out before those of the next, in the order in which the     *)
(* plans sent them: a write that needs another follows it in the queue.    *)
(***************************************************************************)
\* Request r writes v to register n.
Is(r, f, n, v) == r.addr = Addr[f][n] /\ r.value = v

\* Register n is set (v = 1) or clear (v = 0) when the device comes to the k-th of
\* the requests q with the registers rs.
Set(rs, n, v) == IF v = 1 THEN n \in rs ELSE n \notin rs

Holds(f, rs, q, n, v, k) ==
  \/ Set(rs, n, v) /\ \A j \in 1 .. Len(q) : j < k => ~Is(q[j], f, n, 1 - v)
  \/ \E i \in 1 .. Len(q) :
       /\ i < k /\ Is(q[i], f, n, v)
       /\ \A j \in 1 .. Len(q) : i < j /\ j < k => ~Is(q[j], f, n, 1 - v)

\* What each request needs of the ones before it
Ordered(f, rs, q) ==
  \A k \in 1 .. Len(q) :
    /\ ~Is(q[k], f, "RING", 0)
    /\ Is(q[k], f, "SINK_GO", 1) => Holds(f, rs, q, "RING", 1, k)
    /\ Is(q[k], f, "SINK_GO", 0) => Holds(f, rs, q, "CSTREAM_CFG", 0, k)
    /\ Is(q[k], f, "CSTREAM_CFG", 1) => Holds(f, rs, q, "SINK_GO", 1, k)

Fitting(rs) ==
  /\ "CSTREAM_CFG" \in rs => "SINK_GO" \in rs
  /\ "SINK_GO" \in rs => "RING" \in rs

\* The registers when the device has carried out r
Written(rs, f, r) ==
  LET at == {n \in Names : Addr[f][n] = r.addr}
  IN  IF r.value = 1 THEN rs \cup at ELSE rs \ at

\* What holds after some requests holds if there are more behind them.
LEMMA HoldsAppend ==
  ASSUME NEW f, NEW rs, NEW R, NEW q \in Seq(R), NEW r \in R, NEW n, NEW v,
         NEW k \in Nat, k <= Len(q) + 1, Holds(f, rs, q, n, v, k)
  PROVE  Holds(f, rs, Append(q, r), n, v, k)
<1> DEFINE p == Append(q, r)
<1>1. /\ p \in Seq(R) /\ Len(p) = Len(q) + 1 /\ Len(q) \in Nat
      /\ \A j \in 1 .. Len(q) : p[j] = q[j]
  BY AppendProperties, LenProperties
<1> HIDE DEF p
<1>2. ASSUME NEW j \in 1 .. Len(p), j < k PROVE j \in 1 .. Len(q) /\ p[j] = q[j]
  BY <1>1, <1>2
<1>3. CASE Set(rs, n, v) /\ \A j \in 1 .. Len(q) : j < k => ~Is(q[j], f, n, 1 - v)
  <2>1. \A j \in 1 .. Len(p) : j < k => ~Is(p[j], f, n, 1 - v)
    BY <1>2, <1>3
  <2> QED BY <1>3, <2>1 DEF Holds, p
<1>4. ASSUME NEW i \in 1 .. Len(q), i < k, Is(q[i], f, n, v),
             \A j \in 1 .. Len(q) : i < j /\ j < k => ~Is(q[j], f, n, 1 - v)
      PROVE  Holds(f, rs, p, n, v, k)
  <2>1. i \in 1 .. Len(p) /\ Is(p[i], f, n, v)
    BY <1>1, <1>4
  <2>2. \A j \in 1 .. Len(p) : i < j /\ j < k => ~Is(p[j], f, n, 1 - v)
    BY <1>2, <1>4
  <2> QED BY <1>4, <2>1, <2>2 DEF Holds
<1> QED BY <1>3, <1>4 DEF Holds, p

\* Behind a write the register has what was written.
LEMMA HoldsBehind ==
  ASSUME NEW f, NEW rs, NEW R, NEW q \in Seq(R), NEW r \in R, NEW n, NEW v, Is(r, f, n, v)
  PROVE  Holds(f, rs, Append(q, r), n, v, Len(Append(q, r)) + 1)
<1> DEFINE p == Append(q, r)
<1>1. p \in Seq(R) /\ Len(p) = Len(q) + 1 /\ Len(q) \in Nat /\ p[Len(q) + 1] = r
  BY AppendProperties, LenProperties
<1> HIDE DEF p
<1>2. PICK l \in Nat : l = Len(p)
  BY <1>1
<1>3. /\ l \in 1 .. Len(p) /\ l < Len(p) + 1 /\ Is(p[l], f, n, v)
      /\ \A j \in 1 .. Len(p) : ~(l < j)
  BY <1>1, <1>2
<1>4. Holds(f, rs, p, n, v, Len(p) + 1)
  BY <1>3 DEF Holds
<1> QED BY <1>4 DEF p

\* A request that has what it needs may be sent.
LEMMA OrderedAppend ==
  ASSUME NEW f, NEW rs, NEW R, NEW q \in Seq(R), NEW r \in R, Ordered(f, rs, q),
         ~Is(r, f, "RING", 0),
         Is(r, f, "SINK_GO", 1) => Holds(f, rs, q, "RING", 1, Len(q) + 1),
         Is(r, f, "SINK_GO", 0) => Holds(f, rs, q, "CSTREAM_CFG", 0, Len(q) + 1),
         Is(r, f, "CSTREAM_CFG", 1) => Holds(f, rs, q, "SINK_GO", 1, Len(q) + 1)
  PROVE  Ordered(f, rs, Append(q, r))
<1> DEFINE p == Append(q, r)
<1>1. /\ p \in Seq(R) /\ Len(p) = Len(q) + 1 /\ Len(q) \in Nat
      /\ p[Len(q) + 1] = r /\ \A j \in 1 .. Len(q) : p[j] = q[j]
  BY AppendProperties, LenProperties
<1>2. ASSUME NEW n, NEW v, NEW k \in Nat, k <= Len(q) + 1, Holds(f, rs, q, n, v, k)
      PROVE  Holds(f, rs, p, n, v, k)
  BY <1>2, HoldsAppend, Zenon
<1> HIDE DEF p
<1>3. ASSUME NEW k \in 1 .. Len(p)
      PROVE  /\ ~Is(p[k], f, "RING", 0)
             /\ Is(p[k], f, "SINK_GO", 1) => Holds(f, rs, p, "RING", 1, k)
             /\ Is(p[k], f, "SINK_GO", 0) => Holds(f, rs, p, "CSTREAM_CFG", 0, k)
             /\ Is(p[k], f, "CSTREAM_CFG", 1) => Holds(f, rs, p, "SINK_GO", 1, k)
  <2>1. k \in Nat /\ k <= Len(q) + 1
    BY <1>1
  <2>2. CASE k \in 1 .. Len(q)
    BY <1>1, <1>2, <2>1, <2>2 DEF Ordered
  <2>3. CASE k = Len(q) + 1
    BY <1>1, <1>2, <2>1, <2>3
  <2> QED BY <1>1, <2>2, <2>3
<1>4. Ordered(f, rs, p)
  BY <1>3 DEF Ordered
<1> QED BY <1>4 DEF p

\* Two registers of a package have different addresses.
LEMMA WrittenIs ==
  ASSUME NEW f \in Firmwares, NEW rs, NEW r, NEW n \in Names, r.value \in {0, 1}
  PROVE  /\ Is(r, f, n, 1) => n \in Written(rs, f, r)
         /\ Is(r, f, n, 0) => n \notin Written(rs, f, r)
         /\ n \in Written(rs, f, r) => n \in rs \/ Is(r, f, n, 1)
         /\ n \in rs => n \in Written(rs, f, r) \/ Is(r, f, n, 0)
BY DEF Written, Is

LEMMA IsOne ==
  ASSUME NEW f \in Firmwares, NEW r, NEW n \in Names, NEW o \in Names, NEW v, NEW w,
         Is(r, f, n, v), Is(r, f, o, w)
  PROVE  n = o /\ v = w
BY AddrAssumption DEF Is

\* What holds before a later request holds when the device has carried out the first.
LEMMA HoldsRespond ==
  ASSUME NEW f \in Firmwares, NEW rs, NEW R, \A r \in R : r.value \in {0, 1},
         NEW q \in Seq(R), q # << >>, NEW n \in Names, NEW v \in {0, 1}, NEW k \in Nat,
         k >= 1, Holds(f, rs, q, n, v, k + 1)
  PROVE  Holds(f, Written(rs, f, Head(q)), Tail(q), n, v, k)
<1> DEFINE w == Written(rs, f, Head(q))
           t == Tail(q)
<1>1. /\ Len(q) \in Nat /\ Len(q) >= 1 /\ Head(q) = q[1] /\ q[1] \in R
      /\ Len(t) = Len(q) - 1 /\ \A j \in 1 .. Len(t) : t[j] = q[j + 1]
  BY EmptySeq, LenProperties, HeadTailProperties
<1>2. /\ Set(rs, n, v) /\ ~Is(q[1], f, n, 1 - v) => Set(w, n, v)
      /\ Is(q[1], f, n, v) => Set(w, n, v)
  <2>1. q[1].value \in {0, 1}
    BY <1>1
  <2>2. CASE v = 1
    BY <1>1, <2>1, <2>2, WrittenIs DEF Set
  <2>3. CASE v = 0
    BY <1>1, <2>1, <2>3, WrittenIs DEF Set
  <2> QED BY <2>2, <2>3
<1> HIDE DEF w, t
<1>3. ASSUME NEW j \in 1 .. Len(t), j < k
      PROVE  j + 1 \in 1 .. Len(q) /\ j + 1 < k + 1 /\ t[j] = q[j + 1]
  BY <1>1, <1>3
<1>4. CASE Set(rs, n, v) /\ \A j \in 1 .. Len(q) : j < k + 1 => ~Is(q[j], f, n, 1 - v)
  <2>1. ~Is(q[1], f, n, 1 - v)
    BY <1>1, <1>4
  <2>2. \A j \in 1 .. Len(t) : j < k => ~Is(t[j], f, n, 1 - v)
    BY <1>3, <1>4
  <2>3. Set(w, n, v)
    BY <1>2, <1>4, <2>1
  <2> QED BY <2>2, <2>3 DEF Holds, w, t
<1>5. ASSUME NEW i \in 1 .. Len(q), i < k + 1, Is(q[i], f, n, v),
             \A j \in 1 .. Len(q) : i < j /\ j < k + 1 => ~Is(q[j], f, n, 1 - v)
      PROVE  Holds(f, w, t, n, v, k)
  <2>1. CASE i = 1
    <3>1. \A j \in 1 .. Len(t) : j < k => ~Is(t[j], f, n, 1 - v)
      <4> TAKE j \in 1 .. Len(t)
      <4> HAVE j < k
      <4>1. i < j + 1
        BY <2>1
      <4> QED BY <1>3, <1>5, <4>1
    <3>2. Set(w, n, v)
      BY <1>2, <1>5, <2>1
    <3> QED BY <3>1, <3>2 DEF Holds
  <2>2. CASE i # 1
    <3>1. PICK h \in 1 .. Len(t) : i = h + 1 /\ h < k
      <4>1. i - 1 \in 1 .. Len(t) /\ i = (i - 1) + 1 /\ i - 1 < k
        BY <1>1, <1>5, <2>2
      <4> QED BY <4>1
    <3>2. Is(t[h], f, n, v)
      BY <1>1, <1>5, <3>1
    <3>3. \A j \in 1 .. Len(t) : h < j /\ j < k => ~Is(t[j], f, n, 1 - v)
      <4> TAKE j \in 1 .. Len(t)
      <4> HAVE h < j /\ j < k
      <4>1. i < j + 1
        BY <3>1
      <4> QED BY <1>3, <1>5, <4>1
    <3> QED BY <3>1, <3>2, <3>3 DEF Holds
  <2> QED BY <2>1, <2>2
<1>6. Holds(f, w, t, n, v, k)
  BY <1>4, <1>5 DEF Holds, w, t
<1> QED BY <1>6 DEF w, t

\* What the first request needs holds now.
LEMMA HoldsFirst ==
  ASSUME NEW f, NEW rs, NEW q, NEW n, NEW v, Holds(f, rs, q, n, v, 1)
  PROVE  Set(rs, n, v)
BY DEF Holds

\* The device keeps the registers fitting, and the queue in order.
LEMMA RespondKeeps ==
  ASSUME NEW f \in Firmwares, NEW rs, NEW R, \A r \in R : r.value \in {0, 1},
         NEW q \in Seq(R), q # << >>, Fitting(rs), Ordered(f, rs, q)
  PROVE  /\ Fitting(Written(rs, f, Head(q)))
         /\ Ordered(f, Written(rs, f, Head(q)), Tail(q))
<1> DEFINE w == Written(rs, f, Head(q))
           t == Tail(q)
<1>0. {"RING", "SINK_GO", "CSTREAM_CFG"} \subseteq Names
  BY DEF Names
<1>1. /\ Len(q) \in Nat /\ Len(q) >= 1 /\ Head(q) = q[1] /\ q[1] \in R
      /\ Len(t) = Len(q) - 1 /\ \A j \in 1 .. Len(t) : t[j] = q[j + 1]
      /\ q[1].value \in {0, 1} /\ 1 \in 1 .. Len(q)
  BY EmptySeq, LenProperties, HeadTailProperties
<1>2. /\ ~Is(q[1], f, "RING", 0)
      /\ Is(q[1], f, "SINK_GO", 1) => "RING" \in rs
      /\ Is(q[1], f, "SINK_GO", 0) => "CSTREAM_CFG" \notin rs
      /\ Is(q[1], f, "CSTREAM_CFG", 1) => "SINK_GO" \in rs
  BY <1>1, HoldsFirst DEF Ordered, Set
<1>3. ASSUME NEW n \in Names
      PROVE  /\ n \in w => n \in rs \/ Is(q[1], f, n, 1)
             /\ n \in rs => n \in w \/ Is(q[1], f, n, 0)
  BY <1>1, WrittenIs
<1>4. ~(Is(q[1], f, "CSTREAM_CFG", 1) /\ Is(q[1], f, "SINK_GO", 0))
  BY <1>0, IsOne
<1>5. Fitting(w)
  <2> HIDE DEF w
  <2>1. "CSTREAM_CFG" \in w => "SINK_GO" \in w
    BY <1>0, <1>2, <1>3, <1>4 DEF Fitting
  <2>2. "SINK_GO" \in w => "RING" \in w
    BY <1>0, <1>2, <1>3 DEF Fitting
  <2> QED BY <2>1, <2>2 DEF Fitting
<1>6. ASSUME NEW n \in Names, NEW v \in {0, 1}, NEW k \in Nat, k >= 1,
             Holds(f, rs, q, n, v, k + 1)
      PROVE  Holds(f, w, t, n, v, k)
  BY <1>6, HoldsRespond
<1> HIDE DEF w, t
<1>7. ASSUME NEW k \in 1 .. Len(t)
      PROVE  /\ ~Is(t[k], f, "RING", 0)
             /\ Is(t[k], f, "SINK_GO", 1) => Holds(f, w, t, "RING", 1, k)
             /\ Is(t[k], f, "SINK_GO", 0) => Holds(f, w, t, "CSTREAM_CFG", 0, k)
             /\ Is(t[k], f, "CSTREAM_CFG", 1) => Holds(f, w, t, "SINK_GO", 1, k)
  <2>1. k \in Nat /\ k >= 1 /\ k + 1 \in 1 .. Len(q) /\ t[k] = q[k + 1]
    BY <1>1
  <2> QED BY <1>0, <1>6, <2>1 DEF Ordered
<1>8. Ordered(f, w, t)
  BY <1>7 DEF Ordered
<1> QED BY <1>5, <1>8 DEF w, t

-----------------------------------------------------------------------------
\* Requests go to registers of some package.
Requests == [addr : {Addr[f][n] : f \in Firmwares, n \in Names}, value : {0, 1}]

\* What the rest of a plan may count on
Ready ==
  /\ (pc = "wait" /\ todo = StartStream) \/ (pc = "send" /\ todo = StartFrom2) =>
       Holds(fw, regs, reqs, "RING", 1, Len(reqs) + 1)
  /\ (pc = "wait" /\ todo = StartFrom2) \/ (pc = "send" /\ todo = StartFrom3) =>
       Holds(fw, regs, reqs, "SINK_GO", 1, Len(reqs) + 1)
  /\ (pc = "wait" /\ todo = StopFrom2) \/ (pc = "send" /\ todo = StopFrom3) =>
       Holds(fw, regs, reqs, "CSTREAM_CFG", 0, Len(reqs) + 1)

Known == fw = map /\ (phase # "new" \/ pc # "idle")

QueueInv ==
  /\ reqs \in Seq(Requests)
  /\ Known => Fitting(regs) /\ Ordered(fw, regs, reqs) /\ Ready

LEMMA RequestsType == \A r \in Requests : r.value \in {0, 1}
BY DEF Requests

LEMMA QueueInit == Init => QueueInv
BY DEF Init, QueueInv, Known

\* The plans that begin with what needs no other write
LEMMA PlansBegin ==
  \A p \in LoadPlans \cup {StartStream, StopStream, HaltStream} :
    p \notin {StartFrom2, StartFrom3, StopFrom2, StopFrom3}
<1>1. \A p \in LoadPlans : p \notin Plans
  BY Kinds
<1>2. HaltStream \notin Writes
  BY PlansFollow
<1> QED BY <1>1, <1>2, PlansDiffer DEF Plans, Writes

\* Nothing is under way, and no register is on but in the order of the plans.
LEMMA QueueEmpty ==
  ASSUME Fitting(regs'), reqs' = << >>,
         pc' \notin {"send", "wait"} \/ todo' \in LoadPlans \cup {StopStream}
  PROVE  QueueInv'
<1>1. Ordered(fw, regs, reqs)'
  BY DEF Ordered
<1>2. reqs' \in Seq(Requests)
  OBVIOUS
<1>3. \/ todo' \notin {StartStream, StartFrom2, StartFrom3, StopFrom2, StopFrom3}
      \/ pc' \notin {"send", "wait"}
  <2>1. StartStream \notin LoadPlans \cup {StopStream}
    BY Kinds, PlansDiffer DEF Plans, Writes
  <2> QED BY <2>1, PlansBegin
<1>4. Ready'
  BY <1>3 DEF Ready
<1> QED BY <1>1, <1>2, <1>4 DEF QueueInv

\* The request that synchronises the stream needs no other.
LEMMA SyncOrdered ==
  ASSUME TypeInv, NEW rs, NEW q \in Seq(Requests)
  PROVE  /\ Append(q, Request(Sync)) \in Seq(Requests)
         /\ Ordered(map, rs, q) => Ordered(map, rs, Append(q, Request(Sync)))
<1> DEFINE r == Request(Sync)
<1>0. map \in Firmwares /\ {"RING", "SINK_GO", "CSTREAM_CFG", "HOST_READ_GO"} \subseteq Names
  BY DEF TypeInv, TypeOK, Names
<1>1. r \in Requests /\ Is(r, map, "HOST_READ_GO", 0)
  BY <1>0 DEF Request, Sync, Requests, Is
<1> HIDE DEF r
<1>2. ASSUME NEW n \in {"RING", "SINK_GO", "CSTREAM_CFG"}, NEW v PROVE ~Is(r, map, n, v)
  <2>1. n \in Names /\ n # "HOST_READ_GO"
    BY <1>0
  <2> QED BY <1>0, <1>1, <2>1, IsOne
<1>3. Append(q, r) \in Seq(Requests)
  BY <1>1, AppendProperties
<1>4. ASSUME Ordered(map, rs, q) PROVE Ordered(map, rs, Append(q, r))
  BY <1>1, <1>2, <1>4, OrderedAppend
<1> QED BY <1>3, <1>4 DEF r

\* The registers are clear, and at most that request is under way.
LEMMA QueueClear ==
  ASSUME TypeInv, regs' = {}, reqs' \in {<< >>, <<Request(Sync)>>}, UNCHANGED map,
         pc' \notin {"send", "wait"} \/ todo' \in LoadPlans
  PROVE  QueueInv'
<1>1. Fitting(regs')
  BY DEF Fitting
<1>2. CASE reqs' = << >>
  BY <1>1, <1>2, QueueEmpty
<1>3. CASE reqs' = <<Request(Sync)>>
  <2>1. << >> \in Seq(Requests) /\ Append(<< >>, Request(Sync)) = <<Request(Sync)>>
    OBVIOUS
  <2>2. Ordered(map, {}, << >>)
    BY DEF Ordered
  <2>3. reqs' \in Seq(Requests) /\ Ordered(map, {}, reqs')
    BY <1>3, <2>1, <2>2, SyncOrdered
  <2>4. Ready'
    <3>1. StartStream \notin LoadPlans
      BY Kinds DEF Plans, Writes
    <3>2. todo' \in LoadPlans => todo' \notin {StartStream, StartFrom2, StartFrom3, StopFrom2, StopFrom3}
      BY <3>1, PlansBegin
    <3> QED BY <3>2 DEF Ready
  <2> QED BY <1>1, <2>3, <2>4 DEF QueueInv, Known
<1> QED BY <1>2, <1>3

\* A load that fails switches channel A once more.
LEMMA WayOutKeeps ==
  ASSUME TypeInv, QueueInv, WayOut, UNCHANGED map, Known' => Known, pc' \notin {"send", "wait"}
  PROVE  QueueInv'
<1>0. reqs \in Seq(Requests) /\ (Known => Fitting(regs) /\ Ordered(fw, regs, reqs)) /\ Ready'
  BY DEF QueueInv, Ready
<1>1. CASE UNCHANGED device
  BY <1>0, <1>1 DEF QueueInv, device
<1>2. CASE fw' = fw /\ regs' = regs \ At(Request(Sync).addr) /\ reqs' = << >>
  <2>1. CASE ~Known'
    BY <1>2, <2>1 DEF QueueInv
  <2>2. CASE Known'
    <3>1. Fitting(regs) /\ fw = map /\ map \in Firmwares
      BY <1>0, <2>2 DEF Known, TypeInv, TypeOK
    <3>2. At(Request(Sync).addr) \subseteq {"HOST_READ_GO"}
      BY <3>1, AddrAssumption DEF At, Names, Request, Sync
    <3>3. Fitting(regs')
      BY <1>2, <3>1, <3>2 DEF Fitting
    <3> QED BY <1>2, <3>3, QueueEmpty
  <2> QED BY <2>1, <2>2
<1>3. CASE reqs' = Append(reqs, Request(Sync)) /\ UNCHANGED <<fw, regs>>
  <2>1. reqs' \in Seq(Requests)
    BY <1>0, <1>3, SyncOrdered
  <2>2. ASSUME Known' PROVE Fitting(regs') /\ Ordered(fw, regs, reqs)'
    <3>1. Fitting(regs) /\ Ordered(map, regs, reqs) /\ fw = map
      BY <1>0, <2>2 DEF Known
    <3>2. Ordered(map, regs, reqs')
      BY <1>0, <1>3, <3>1, SyncOrdered
    <3> QED BY <1>3, <3>1, <3>2
  <2> QED BY <1>0, <2>1, <2>2 DEF QueueInv
<1> QED BY <1>1, <1>2, <1>3 DEF WayOut

\* After a write the plan goes on to what that write allows.
LEMMA DoneReady ==
  ASSUME TypeInv, pc = "wait", todo \in Writes, Ready, Done \/ Fails, UNCHANGED <<fw, regs, reqs>>
  PROVE  Ready'
<1>0. todo \in Writes
  OBVIOUS
<1>1. pc' = "send" => Len(todo) > 1 /\ todo' = Tail(todo)
  BY DEF Done, Fails, Returns
<1>2. pc' # "wait"
  BY DEF Done, Fails, Returns
<1>3. ASSUME pc' = "send"
      PROVE  /\ todo' = StartFrom2 => todo = StartStream
             /\ todo' = StartFrom3 => todo = StartFrom2
             /\ todo' = StopFrom3 => todo = StopFrom2
  <2>1. todo \in {StartStream, StartFrom2, StartFrom3, StopStream, StopFrom2}
    BY <1>0, <1>1, <1>3, PlansFollow, SMTT(30) DEF Writes
  <2>2. CASE todo = StartStream
    BY <1>1, <1>3, <2>2, PlansFollow, PlansDiffer
  <2>3. CASE todo = StartFrom2
    BY <1>1, <1>3, <2>3, PlansFollow, PlansDiffer
  <2>4. CASE todo = StartFrom3
    BY <1>1, <1>3, <2>4, PlansFollow, PlansDiffer
  <2>5. CASE todo = StopStream
    BY <1>1, <1>3, <2>5, PlansFollow, PlansDiffer
  <2>6. CASE todo = StopFrom2
    BY <1>1, <1>3, <2>6, PlansFollow, PlansDiffer
  <2> QED BY <2>1, <2>2, <2>3, <2>4, <2>5, <2>6
<1> QED BY <1>2, <1>3 DEF Ready

\* Each write of a plan has what it needs when it is sent.
LEMMA SendKeeps ==
  ASSUME TypeInv, QueueInv, Send, todo \in Plans PROVE QueueInv'
<1> DEFINE t == Head(todo)
           r == Request(t)
<1>1. /\ pc = "send" /\ reqs' = Append(reqs, r) /\ UNCHANGED <<map, fw, regs>>
      /\ \/ pc' = "wait" /\ UNCHANGED todo
         \/ t.kind = "cast" /\ Done
  BY DEF Send, Doing
<1>2. map \in Firmwares /\ todo \in Plans /\ reqs \in Seq(Requests)
  BY <1>1 DEF TypeInv, TypeOK, QueueInv
<1>3. t.name \in Names /\ t.value \in {0, 1}
  BY <1>2, PlanHeads DEF Plans, Writes, Write, Cast, Names
<1>4. r \in Requests
  BY <1>2, <1>3 DEF Requests, Request
<1>5. Is(r, map, t.name, t.value)
  BY DEF Is, Request
<1>6. reqs' \in Seq(Requests)
  BY <1>1, <1>2, <1>4, AppendProperties
<1>7. ASSUME Known'
      PROVE  Fitting(regs') /\ Ordered(fw, regs, reqs)' /\ Ready'
  <2>1. Fitting(regs) /\ Ordered(fw, regs, reqs) /\ Ready /\ fw = map
    BY <1>1, <1>7 DEF QueueInv, Known
  <2>2. ASSUME NEW n \in Names, NEW v, Is(r, map, n, v) PROVE n = t.name /\ v = t.value
    BY <1>2, <1>3, <1>5, <2>2, IsOne
  <2>3. /\ t.name = "SINK_GO" /\ t.value = 1 => todo = StartFrom2
        /\ t.name = "SINK_GO" /\ t.value = 0 => todo = StopFrom3
        /\ t.name = "CSTREAM_CFG" /\ t.value = 1 => todo = StartFrom3
        /\ ~(t.name = "RING" /\ t.value = 0)
    BY <1>2, PlanHeads DEF Plans, Writes, Write, Cast
  <2>4. /\ todo = StartFrom2 => Holds(fw, regs, reqs, "RING", 1, Len(reqs) + 1)
        /\ todo = StopFrom3 => Holds(fw, regs, reqs, "CSTREAM_CFG", 0, Len(reqs) + 1)
        /\ todo = StartFrom3 => Holds(fw, regs, reqs, "SINK_GO", 1, Len(reqs) + 1)
    BY <1>1, <2>1 DEF Ready
  <2>5. Is(r, map, t.name, t.value) => Holds(map, regs, Append(reqs, r), t.name, t.value, Len(Append(reqs, r)) + 1)
    BY <1>2, <1>4, HoldsBehind
  <2>6. /\ todo = StartStream => t.name = "RING" /\ t.value = 1
        /\ todo = StartFrom2 => t.name = "SINK_GO" /\ t.value = 1
        /\ todo = StopFrom2 => t.name = "CSTREAM_CFG" /\ t.value = 0
    BY PlanHeads DEF Write
  <2> HIDE DEF t, r
  <2>7. Ordered(map, regs, Append(reqs, r))
    <3>1. /\ ~Is(r, map, "RING", 0)
          /\ Is(r, map, "SINK_GO", 1) => Holds(map, regs, reqs, "RING", 1, Len(reqs) + 1)
          /\ Is(r, map, "SINK_GO", 0) => Holds(map, regs, reqs, "CSTREAM_CFG", 0, Len(reqs) + 1)
          /\ Is(r, map, "CSTREAM_CFG", 1) => Holds(map, regs, reqs, "SINK_GO", 1, Len(reqs) + 1)
      BY <2>1, <2>2, <2>3, <2>4 DEF Names
    <3>2. Ordered(map, regs, reqs)
      BY <2>1
    <3> QED BY <1>2, <1>4, <3>1, <3>2, OrderedAppend
  <2>8. Ready'
    <3>1. CASE pc' = "wait" /\ UNCHANGED todo
      <4>1. ~(pc' = "send")
        BY <3>1
      <4>2. /\ todo = StartStream => Holds(map, regs, Append(reqs, r), "RING", 1, Len(Append(reqs, r)) + 1)
            /\ todo = StartFrom2 => Holds(map, regs, Append(reqs, r), "SINK_GO", 1, Len(Append(reqs, r)) + 1)
            /\ todo = StopFrom2 => Holds(map, regs, Append(reqs, r), "CSTREAM_CFG", 0, Len(Append(reqs, r)) + 1)
        BY <1>5, <2>5, <2>6
      <4>3. UNCHANGED <<todo, regs>> /\ fw' = map /\ reqs' = Append(reqs, r)
        BY <1>1, <2>1, <3>1
      <4> QED BY <4>1, <4>2, <4>3 DEF Ready
    <3>2. CASE t.kind = "cast" /\ Done
      <4>1. todo \in {StartFrom4, HaltStream}
        BY <1>2, <3>2, PlanHeads DEF Plans, Writes, Write, t
      <4>2. Len(todo) = 1
        BY <4>1, PlansFollow
      <4>3. pc' \in {"loop", "idle"}
        BY <3>2, <4>2 DEF Done, Returns
      <4> QED BY <4>3 DEF Ready
    <3> QED BY <1>1, <3>1, <3>2 DEF t
  <2> QED BY <1>1, <2>1, <2>7, <2>8
<1> QED BY <1>6, <1>7 DEF QueueInv

\* The device carries out the first request.
LEMMA RespondStep ==
  ASSUME TypeInv, QueueInv, Respond PROVE QueueInv'
<1>1. /\ reqs # << >> /\ fw # "none" /\ reqs' = Tail(reqs)
      /\ UNCHANGED <<pc, todo, map, fw, phase>>
      /\ regs' = IF Head(reqs).value = 1 THEN regs \cup At(Head(reqs).addr)
                 ELSE regs \ At(Head(reqs).addr)
  BY DEF Respond, history
<1>2. reqs \in Seq(Requests)
  BY DEF QueueInv
<1>3. regs' = Written(regs, fw, Head(reqs))
  BY <1>1 DEF Written, At
<1>4. reqs' \in Seq(Requests)
  BY <1>1, <1>2, HeadTailProperties, EmptySeq
<1>5. ASSUME Known'
      PROVE  Fitting(regs') /\ Ordered(fw, regs, reqs)' /\ Ready'
  <2>1. Fitting(regs) /\ Ordered(fw, regs, reqs) /\ Ready /\ fw \in Firmwares
    BY <1>1, <1>5 DEF QueueInv, Known, TypeInv, TypeOK
  <2>2. /\ Fitting(Written(regs, fw, Head(reqs)))
        /\ Ordered(fw, Written(regs, fw, Head(reqs)), Tail(reqs))
    BY <1>1, <1>2, <2>1, RespondKeeps, RequestsType
  <2>3. PICK k \in Nat : k = Len(reqs) /\ k >= 1 /\ Len(Tail(reqs)) + 1 = k
    <3>1. Len(reqs) \in Nat /\ Len(reqs) >= 1 /\ Len(Tail(reqs)) = Len(reqs) - 1
      BY <1>1, <1>2, HeadTailProperties, EmptySeq, LenProperties
    <3> QED BY <3>1
  <2>4. ASSUME NEW n \in Names, NEW v \in {0, 1}, Holds(fw, regs, reqs, n, v, Len(reqs) + 1)
        PROVE  Holds(fw, Written(regs, fw, Head(reqs)), Tail(reqs), n, v, k)
    BY <1>1, <1>2, <2>1, <2>3, <2>4, HoldsRespond, RequestsType
  <2>5. {"RING", "SINK_GO", "CSTREAM_CFG"} \subseteq Names /\ {0, 1} = {0, 1}
    BY DEF Names
  <2>6. /\ Holds(fw, regs, reqs, "RING", 1, Len(reqs) + 1)
             => Holds(fw, regs', reqs', "RING", 1, Len(reqs') + 1)
        /\ Holds(fw, regs, reqs, "SINK_GO", 1, Len(reqs) + 1)
             => Holds(fw, regs', reqs', "SINK_GO", 1, Len(reqs') + 1)
        /\ Holds(fw, regs, reqs, "CSTREAM_CFG", 0, Len(reqs) + 1)
             => Holds(fw, regs', reqs', "CSTREAM_CFG", 0, Len(reqs') + 1)
    BY <1>1, <1>3, <2>3, <2>4, <2>5
  <2>7. Ready'
    BY <1>1, <2>1, <2>6 DEF Ready
  <2> QED BY <1>1, <1>3, <2>2, <2>7
<1> QED BY <1>4, <1>5 DEF QueueInv

LEMMA QueueStep == TypeInv /\ LoadInv /\ QueueInv /\ [Next]_vars => QueueInv'
<1> SUFFICES ASSUME TypeInv, LoadInv, QueueInv, [Next]_vars PROVE QueueInv'
  OBVIOUS
<1> USE DEF device
\* The device and the queue are as before, and no plan is in progress.
<1>1. ASSUME UNCHANGED <<map, fw, regs, reqs>>, pc' \notin {"wait"}, Known' => Known,
             pc' = "send" => todo' \in LoadPlans \cup {StartStream, StopStream, HaltStream}
      PROVE  QueueInv'
  <2>1. pc' = "send" => todo' \notin {StartFrom2, StartFrom3, StopFrom3}
    BY <1>1, PlansBegin
  <2>2. Ready'
    BY <1>1, <2>1 DEF Ready
  <2> QED BY <1>1, <2>2 DEF QueueInv
\* A load begins or fails.
<1>2. ASSUME NEW f, NEW plan \in LoadPlans, Load(f, plan), Known' => Known \/ fw' # fw \/ pc' # "idle"
      PROVE  QueueInv'
  <2>1. UNCHANGED <<map, phase>>
    BY <1>2 DEF Load
  <2>2. CASE Configured(f) /\ pc' = "send" /\ todo' = plan
    BY <1>2, <2>1, <2>2, QueueClear DEF Configured
  <2>3. CASE LoadFails(f)
    <3>1. pc' = "idle"
      BY <2>3 DEF LoadFails
    <3>2. CASE WayOut
      <4>1. fw' = fw
        BY <3>2 DEF WayOut
      <4> QED BY <1>2, <2>1, <3>1, <3>2, <4>1, WayOutKeeps
    <3>3. CASE regs' = {} /\ reqs' \in {<< >>, <<Request(Sync)>>}
      BY <2>1, <3>1, <3>3, QueueClear
    <3> QED BY <2>3, <3>2, <3>3 DEF LoadFails
  <2> QED BY <1>2, <2>2, <2>3 DEF Load
<1>3. CASE Open
  <2>1. phase = "new" /\ phase' = phase /\ Load(Own, OpenPlan) /\ OpenPlan \in LoadPlans
    BY <1>3 DEF Open, Load, LoadPlans, Opens
  <2> QED BY <1>2, <2>1 DEF Known
<1>4. ASSUME NEW f \in Firmwares, LoadFirmware(f) PROVE QueueInv'
  <2>1. phase = "open" /\ Load(f, LoadPlan(f)) /\ LoadPlan(f) \in LoadPlans /\ map' = map
    BY <1>4 DEF LoadFirmware, Load, LoadPlans, Loads
  <2> QED BY <1>2, <2>1 DEF Known
<1>5. CASE CaptureStart \/ Dispatch \/ CaptureStop
  BY <1>1, <1>5 DEF CaptureStart, Dispatch, CaptureStop, Calls, Known
<1>6. CASE Send
  <2>1. CASE todo \in Plans
    BY <1>6, <2>1, SendKeeps
  <2>2. CASE todo \notin Plans
    <3>1. pc = "send" /\ Loading /\ Doing({"sync"}) /\ UNCHANGED <<map, regs>>
          /\ reqs' = Append(reqs, Request(Head(todo))) /\ (~Doing({"cast"}) => todo' = todo)
      <4>1. pc = "send" /\ UNCHANGED <<map, regs>> /\ ~Doing({"set_reg"})
            /\ reqs' = Append(reqs, Request(Head(todo))) /\ (~Doing({"cast"}) => todo' = todo)
        BY <1>6 DEF Send
      <4>2. Loading /\ Doing({"sync", "set_reg"})
        BY <2>2, <4>1, LoadingKind
      <4> QED BY <4>1, <4>2 DEF Doing
    <3>2. Head(todo) = Sync /\ todo' = todo /\ todo \in LoadPlans
      BY <3>1, LoadingKind DEF Doing, Loading
    <3>3. reqs' = <<Request(Sync)>> /\ regs' = {}
      BY <3>1, <3>2 DEF LoadInv
    <3> QED BY <3>1, <3>2, <3>3, QueueClear
  <2> QED BY <2>1, <2>2
\* An access that failed
<1>7. CASE SendFails \/ ReceiveFails
  <2>1. pc # "idle" /\ pc' \in {"loop", "idle"} /\ UNCHANGED <<map, fw, regs, reqs>>
    BY <1>7 DEF SendFails, ReceiveFails, Fails, Returns
  <2> QED BY <1>1, <2>1 DEF Known
<1>8. CASE Receive
  <2>1. /\ pc = "wait" /\ Doing({"write"}) /\ UNCHANGED <<map, fw, regs, reqs>>
        /\ Done \/ Fails
    BY <1>8 DEF Receive
  <2>2. Known' => Known
    BY <2>1 DEF Known
  <2>3. todo \in Writes
    BY <2>1, LoadingKind
  <2>4. Known => Ready'
    BY <2>1, <2>3, DoneReady DEF QueueInv
  <2> QED BY <2>1, <2>2, <2>4 DEF QueueInv
<1>9. CASE Synced
  <2>1. /\ pc = "wait" /\ pc' = "send" /\ UNCHANGED <<map, fw, regs, reqs>>
        /\ todo' \in LoadPlans \cup {StopStream}
    BY <1>9, SyncedTo DEF LoadPlans, Opens
  <2> QED BY <1>1, <2>1 DEF Known
<1>10. CASE SyncFails
  <2>1. pc # "idle" /\ pc' = "idle" /\ UNCHANGED map
    BY <1>10 DEF SyncFails, Returns
  <2>2. WayOut
    BY <1>10 DEF SyncFails, WayOut
  <2>3. fw' = fw
    BY <2>2 DEF WayOut
  <2> QED BY <2>1, <2>2, <2>3, WayOutKeeps DEF Known
<1>11. CASE ReplaceMap
  <2>1. pc = "send" /\ UNCHANGED <<fw, regs, reqs>> /\ Loading /\ (Done)
    BY <1>11, LoadingKind DEF ReplaceMap, Doing
  <2>2. regs' = {} /\ reqs' = << >>
    BY <2>1 DEF LoadInv
  <2>3. pc' # "wait" /\ (pc' = "send" => todo' \in LoadPlans \cup {StopStream})
    <3>1. PICK f \in Firmwares : todo = LoadFrom2(f)
      BY <1>11, LoadingKind DEF ReplaceMap
    <3>2. ~(Len(todo) > 1)
      BY <3>1, LoadPlansFollow
    <3> QED BY <2>1, <3>2 DEF Done, Returns
  <2> QED BY <2>2, <2>3, QueueEmpty DEF Fitting
<1>12. CASE Decode \/ Misread \/ LoopFails \/ Stream \/ UNCHANGED vars
  <2>1. UNCHANGED <<pc, todo, map, fw, regs, reqs, phase>>
    BY <1>12 DEF Decode, Misread, LoopFails, Stream, vars, history
  <2>2. Ready' = Ready
    BY <2>1 DEF Ready
  <2> QED BY <2>1, <2>2 DEF QueueInv, Known
<1>13. CASE LoopReturns
  <2>1. /\ pc = "loop" /\ UNCHANGED <<map, fw, regs, reqs, phase>>
        /\ \/ pc' = "send" /\ todo' = StopStream
           \/ pc' = "idle"
    BY <1>13 DEF LoopReturns
  <2> QED BY <1>1, <2>1 DEF Known
<1>14. CASE Respond
  BY <1>14, RespondStep
<1> QED BY <1>3, <1>4, <1>5, <1>6, <1>7, <1>8, <1>9, <1>10, <1>11, <1>12, <1>13, <1>14
        DEF Next, UserCall, HostStep

\* The source of the stream is on only while there is a sink for it, whatever fails
\* and whichever requests of failed calls are still under way, for any packages.
THEOREM SinkBeforeSourceCorrect == Spec => []SinkBeforeSource
<1>1. QueueInv => SinkBeforeSource
  BY DEF QueueInv, Known, SinkBeforeSource, Fitting
<1> QED BY <1>1, TypeInit, TypeStep, LoadInit, LoadStep, QueueInit, QueueStep, PTL DEF Spec

-----------------------------------------------------------------------------
(***************************************************************************)
(* Silence.  The request to halt is the last one under way, its answer the *)
(* last message, and behind it the accesses are in step with their answers.*)
(***************************************************************************)
Starts == {StartStream, StartFrom2, StartFrom3, StartFrom4}
Stops  == {StopStream, StopFrom2, StopFrom3}

Messages == {Data, Last} \cup {AnswerTo(r) : r \in Requests}

\* Which call is at which plan
CallInv ==
  /\ chan \in Seq(Messages)
  /\ pc \in {"send", "wait"} =>
       \/ op = "start" /\ todo \in Starts
       \/ op \in {"open", "stop"} /\ todo \in Stops
       \/ op = "stop" /\ todo = HaltStream /\ state = RUNNING
       \/ op = "open" /\ todo \in Opens
       \/ op = "load" /\ todo \in Loads
  /\ pc = "loop" => op \in {"dispatch", "stop"}
  /\ pc # "idle" => (op = "open" <=> phase = "new")
  /\ pc = "idle" /\ phase = "new" => op = "new" \/ ret # 0

\* A request to halt
HaltOf(m) == m.addr = Addr[map]["HOST_READ_GO"] /\ m.value = 0

NoHalt ==
  /\ \A k \in 1 .. Len(reqs) : ~HaltOf(reqs[k])
  /\ \A k \in 1 .. Len(chan) : ~IsHostReadOff(chan[k])

HaltLast ==
  /\ \A k \in 1 .. Len(reqs) : HaltOf(reqs[k]) => k = Len(reqs)
  /\ \A k \in 1 .. Len(chan) :
       IsHostReadOff(chan[k]) => k = Len(chan) /\ reqs = << >> /\ "HOST_READ_GO" \notin regs

Quiet == reqs = << >> /\ chan = << >> /\ "HOST_READ_GO" \notin regs

\* The request of the access at the head of the plan
ThisRequest == Request(Head(todo))

Answered == pc = "wait" /\ reqs = << >>

\* The accesses that stop the stream
Stopping ==
  /\ "HOST_READ_GO" \notin regs
  /\ pc = "send" => reqs = << >> /\ chan = << >>
  /\ pc = "wait" => \/ reqs = <<ThisRequest>> /\ chan = << >>
                    \/ reqs = << >> /\ Len(chan) = 1 /\ chan[1].kind = "answer"
  /\ todo = StopFrom3 \/ (todo = StopFrom2 /\ Answered) => "CSTREAM_CFG" \notin regs
  /\ todo = StopFrom3 /\ Answered => "SINK_GO" \notin regs

SilentInv ==
  failed = {} /\ (phase # "new" \/ pc # "idle") =>
    /\ pc = "idle" \/ op \in {"start", "dispatch"} \/ todo = HaltStream => NoHalt
    /\ pc = "loop" /\ op = "stop" => HaltLast /\ (state = HOST_READ_OFF => Quiet)
    /\ pc \in {"send", "wait"} /\ todo \in Stops /\ ret = 0 => Stopping
    /\ SilentWhenStopped

LEMMA CallInit == Init => CallInv
BY DEF Init, CallInv

\* The rest of a plan belongs to the same call.
LEMMA PlanGoesOn ==
  /\ \A p \in Starts : Len(p) > 1 => Tail(p) \in Starts
  /\ \A p \in Stops : Len(p) > 1 => Tail(p) \in Stops
  /\ HaltStream \notin Starts \cup Stops /\ Len(HaltStream) = 1
  /\ \A p \in Starts : p \notin Stops
  /\ \A p \in Starts : Head(p).value = 1
  /\ \A p \in Stops : Head(p).value = 0 /\ Head(p).kind = "write"
  /\ Head(HaltStream).kind = "cast"
<1>1. HaltStream \notin Starts \cup Stops
  BY PlansFollow DEF Writes, Starts, Stops
<1>2. \A p \in Starts : Head(p).value = 1
  BY PlanHeads DEF Starts, Write, Cast
<1>3. \A p \in Stops : Head(p).value = 0 /\ Head(p).kind = "write"
  BY PlanHeads DEF Stops, Write
<1>4. Head(HaltStream).kind = "cast"
  BY PlanHeads DEF Cast
<1>5. ASSUME NEW p \in Starts, Len(p) > 1 PROVE Tail(p) \in Starts
  <2>1. p = StartStream \/ p = StartFrom2 \/ p = StartFrom3
    <3>1. ~(Len(StartFrom4) > 1)
      BY PlansFollow
    <3> QED BY <1>5, <3>1 DEF Starts
  <2> QED BY <2>1, PlansFollow DEF Starts
<1>6. \A p \in Stops : Len(p) > 1 => Tail(p) \in Stops
  BY PlansFollow, SMTT(30) DEF Stops
<1> QED BY <1>1, <1>2, <1>3, <1>4, <1>5, <1>6, PlansFollow

\* What is left of the stream
LEMMA RestOf ==
  ASSUME NEW R, NEW s \in Seq(R), NEW n \in 1 .. Len(s)
  PROVE  /\ SubSeq(s, n + 1, Len(s)) \in Seq(R) /\ Len(SubSeq(s, n + 1, Len(s))) = Len(s) - n
         /\ \A i \in 1 .. Len(s) - n : SubSeq(s, n + 1, Len(s))[i] = s[i + n]
<1>1. Len(s) \in Nat /\ n \in Nat /\ n >= 1 /\ n <= Len(s)
  BY LenProperties
<1>2. PICK k \in Nat : k = n + 1
  BY <1>1
<1>3. \A i \in k .. Len(s) : s[i] \in R
  BY <1>1, <1>2, ElementOfSeq
<1>4. /\ SubSeq(s, k, Len(s)) \in Seq(R)
      /\ Len(SubSeq(s, k, Len(s))) = IF k <= Len(s) THEN Len(s) - k + 1 ELSE 0
      /\ \A i \in 1 .. Len(s) - k + 1 : SubSeq(s, k, Len(s))[i] = s[k + i - 1]
  BY <1>1, <1>3, SubSeqProperties
<1>5. Len(SubSeq(s, k, Len(s))) = Len(s) - n
  BY <1>1, <1>2, <1>4
<1>6. ASSUME NEW i \in 1 .. Len(s) - n PROVE SubSeq(s, k, Len(s))[i] = s[i + n]
  <2>1. i \in 1 .. Len(s) - k + 1 /\ k + i - 1 = i + n
    BY <1>1, <1>2
  <2> QED BY <1>4, <2>1
<1> QED BY <1>2, <1>4, <1>5, <1>6

LEMMA CallStep == TypeInv /\ LoadInv /\ QueueInv /\ CallInv /\ [Next]_vars => CallInv'
<1> SUFFICES ASSUME TypeInv, LoadInv, QueueInv, CallInv, [Next]_vars PROVE CallInv'
  OBVIOUS
<1> USE DEF device
<1>0. chan \in Seq(Messages) /\ << >> \in Seq(Messages)
  BY DEF CallInv
\* A call has done what it had to, or has failed.
<1>1. ASSUME NEW r, Returns(r), pc # "idle", r # 0 \/ phase # "new" \/ op = "open", UNCHANGED op,
              chan' \in Seq(Messages)
       PROVE  CallInv'
  BY <1>1 DEF CallInv, Returns
\* An access of no load is done or has failed.
<1>2. ASSUME pc \in {"send", "wait"}, ~Loading, Done \/ Fails, UNCHANGED <<op, state>>,
             chan' \in Seq(Messages)
      PROVE  CallInv'
  <2>0. \/ op = "start" /\ todo \in Starts
        \/ op \in {"open", "stop"} /\ todo \in Stops
        \/ op = "stop" /\ todo = HaltStream /\ state = RUNNING
    BY <1>2 DEF CallInv, Loading, LoadPlans
  <2>1. CASE Len(todo) > 1 /\ pc' = "send" /\ todo' = Tail(todo) /\ UNCHANGED <<ret, phase>>
    BY <1>2, <2>0, <2>1, PlanGoesOn, SMTT(30) DEF CallInv
  <2>2. CASE todo = HaltStream /\ pc' = "loop" /\ UNCHANGED <<ret, phase>>
    BY <1>2, <2>0, <2>2, PlanGoesOn DEF CallInv
  <2>3. ASSUME NEW r, Returns(r) PROVE CallInv'
    BY <1>2, <2>3 DEF CallInv, Returns
  <2> QED BY <1>2, <2>1, <2>2, <2>3 DEF Done, Fails
\* A load begins or fails.
<1>3. ASSUME NEW f, NEW plan, Load(f, plan),
             \/ op' = "open" /\ phase = "new" /\ plan \in Opens
             \/ op' = "load" /\ phase = "open" /\ plan \in Loads
      PROVE  CallInv'
  <2>1. chan' \in Seq(Messages)
    <3>1. chan' = chan \/ chan' = << >>
      BY <1>3 DEF Load, Configured, LoadFails, WayOut
    <3> QED BY <1>0, <3>1, Zenon
  <2>2. phase' = phase
    BY <1>3 DEF Load
  <2>3. \/ pc' = "send" /\ todo' = plan /\ ret' = 0
        \/ pc' = "idle" /\ ret' = -1
    BY <1>3 DEF Load, LoadFails
  <2> QED BY <1>3, <2>1, <2>2, <2>3 DEF CallInv
<1>4. CASE Open \/ \E f \in Firmwares : LoadFirmware(f)
  BY <1>3, <1>4 DEF Open, LoadFirmware, Calls, Opens, Loads
<1>5. CASE CaptureStart
  BY <1>5 DEF CaptureStart, Calls, CallInv, Starts
<1>6. CASE Dispatch
  BY <1>6 DEF Dispatch, Calls, CallInv
<1>7. CASE CaptureStop
  BY <1>7 DEF CaptureStop, Calls, CallInv
<1>8. CASE Send
  <2>1. CASE pc' = "wait" /\ UNCHANGED <<todo, ret, phase, failed>>
    BY <1>8, <2>1 DEF Send, CallInv
  <2>2. CASE Doing({"cast"}) /\ Done
    <3>1. ~Loading
      BY <1>8, <2>2, LoadingKind DEF Send, Doing
    <3> QED BY <1>0, <1>2, <1>8, <2>2, <3>1 DEF Send
  <2> QED BY <1>8, <2>1, <2>2 DEF Send
<1>9. CASE SendFails \/ ReceiveFails
  BY <1>0, <1>2, <1>9, NoLoadAccess DEF SendFails, ReceiveFails
<1>10. CASE Receive
  <2>1. Tail(chan) \in Seq(Messages)
    BY <1>0, <1>10, HeadTailProperties DEF Receive
  <2> QED BY <1>2, <1>10, <2>1, NoLoadAccess DEF Receive
<1>11. CASE Synced
  <2>1. /\ pc = "wait" /\ pc' = "send" /\ chan' = << >> /\ UNCHANGED <<op, state, phase>>
        /\ \/ op = "open" /\ todo' = SyncAndStop
           \/ op = "open" /\ todo' = StopStream
           \/ op = "load" /\ todo' = LoadFrom2(fw) /\ todo' \in LoadPlans
    BY <1>11, SyncedTo
  <2>2. todo' = LoadFrom2(fw) => todo' \notin Opens
    <3>1. Len(OpenPlan) # 1 /\ Len(SyncAndStop) # 1 /\ Len(LoadFrom2(fw)) = 1
      BY LoadPlansFollow
    <3> QED BY <3>1 DEF Opens
  <2> QED BY <1>0, <2>1, <2>2 DEF CallInv, Stops, Opens, LoadPlans
<1>12. CASE SyncFails
  <2>1. chan' \in Seq(Messages)
    <3>1. chan' = chan \/ chan' = << >>
      BY <1>12 DEF SyncFails, WayOut
    <3> QED BY <1>0, <3>1, Zenon
  <2> QED BY <1>1, <1>12, <2>1 DEF SyncFails
<1>13. CASE ReplaceMap
  <2>1. PICK f \in Firmwares : todo = LoadFrom2(f)
    BY <1>13, LoadingKind DEF ReplaceMap
  <2>2. ~(Len(todo) > 1) /\ todo # HaltStream
    <3>1. todo \in LoadPlans
      BY <2>1 DEF LoadPlans, Loads
    <3>2. todo # HaltStream
      BY <3>1, Kinds DEF Plans
    <3>3. Len(todo) = 1
      BY <2>1, LoadPlansFollow
    <3> QED BY <3>2, <3>3
  <2>3. Returns(ret) /\ pc # "idle" /\ UNCHANGED <<op, chan>>
    BY <1>13, <2>2 DEF ReplaceMap, Done
  <2>4. phase # "new" \/ op = "open"
    BY <2>3 DEF CallInv
  <2> QED BY <1>0, <1>1, <2>3, <2>4
<1>14. CASE Decode
  <2>1. Tail(chan) \in Seq(Messages)
    BY <1>0, <1>14, HeadTailProperties DEF Decode
  <2> QED BY <1>14, <2>1 DEF Decode, CallInv, history
<1>15. CASE Misread
  <2>1. Tail(chan) \in Seq(Messages)
    BY <1>0, <1>15, HeadTailProperties DEF Misread
  <2> QED BY <1>15, <2>1 DEF Misread, CallInv
<1>16. CASE LoopFails
  BY <1>16 DEF LoopFails, CallInv
<1>17. CASE LoopReturns
  <2>1. chan' \in Seq(Messages)
    BY <1>0, <1>17, RestOf DEF LoopReturns
  <2>2. CASE op = "stop"
    BY <1>17, <2>1, <2>2 DEF LoopReturns, CallInv, Stops
  <2>3. CASE op # "stop"
    BY <1>17, <2>1, <2>3 DEF LoopReturns, CallInv
  <2> QED BY <2>2, <2>3
<1>18. CASE Respond
  <2>1. Head(reqs) \in Requests
    BY <1>18, HeadTailProperties DEF Respond, QueueInv
  <2>2. AnswerTo(Head(reqs)) \in Messages
    BY <2>1 DEF Messages
  <2>3. chan' \in Seq(Messages)
    BY <1>0, <1>18, <2>2, AppendProperties DEF Respond
  <2> QED BY <1>18, <2>3 DEF Respond, CallInv, history
<1>19. CASE Stream
  <2>1. chan' \in Seq(Messages)
    BY <1>0, <1>19, AppendProperties DEF Stream, Messages
  <2> QED BY <1>19, <2>1 DEF Stream, CallInv, history
<1>20. CASE UNCHANGED vars
  BY <1>20 DEF vars, history, CallInv
<1> QED BY <1>4, <1>5, <1>6, <1>7, <1>8, <1>9, <1>10, <1>11, <1>12, <1>13, <1>14, <1>15, <1>16,
           <1>17, <1>18, <1>19, <1>20 DEF Next, UserCall, HostStep

\* The host takes messages from the stream, or loses them.
LEMMA HaltTaken ==
  ASSUME CallInv, NEW n \in 1 .. Len(chan), UNCHANGED <<map, reqs, regs>>,
         Len(chan') = Len(chan) - n, \A i \in 1 .. Len(chan) - n : chan'[i] = chan[i + n]
  PROVE  (NoHalt => NoHalt') /\ (HaltLast => HaltLast')
<1>1. PICK L \in Nat : L = Len(chan) /\ n \in 1 .. L /\ L >= 1
  BY LenProperties DEF CallInv
<1>2. ASSUME NEW k \in 1 .. Len(chan')
      PROVE  /\ k + n \in 1 .. Len(chan) /\ IsHostReadOff(chan[k + n]) = IsHostReadOff(chan[k])'
             /\ k + n = Len(chan) => k = Len(chan')
  BY <1>1 DEF IsHostReadOff
<1>3. \A k : HaltOf(reqs[k]) = HaltOf(reqs[k])'
  BY DEF HaltOf
<1> QED BY <1>2, <1>3 DEF NoHalt, HaltLast

\* The first message is taken.
LEMMA HaltTail ==
  ASSUME CallInv, chan # << >>, chan' = Tail(chan), UNCHANGED <<map, reqs, regs>>
  PROVE  /\ (NoHalt => NoHalt') /\ (HaltLast => HaltLast')
         /\ Len(chan) \in Nat /\ Len(chan) >= 1 /\ Head(chan) = chan[1]
         /\ Len(chan') = Len(chan) - 1 /\ (Len(chan) = 1 => chan' = << >>)
<1>1. chan \in Seq(Messages)
  BY DEF CallInv
<1>2. Len(chan) \in Nat /\ Len(chan) >= 1 /\ Head(chan) = chan[1]
  BY <1>1, EmptySeq
<1>3. /\ chan' \in Seq(Messages) /\ Len(chan') = Len(chan) - 1
      /\ \A i \in 1 .. Len(chan') : chan'[i] = chan[i + 1]
  BY <1>1, HeadTailProperties
<1>4. Len(chan) = 1 => chan' = << >>
  BY <1>3, EmptySeq
<1>5. 1 \in 1 .. Len(chan)
  BY <1>2
<1>6. (NoHalt => NoHalt') /\ (HaltLast => HaltLast')
  BY <1>3, <1>5, HaltTaken
<1> QED BY <1>2, <1>3, <1>4, <1>6

\* The device streams, and so has not carried out a request to halt.
LEMMA HaltStreamed ==
  ASSUME CallInv, NEW m \in {Data, Last}, chan' = Append(chan, m), UNCHANGED <<map, reqs, regs>>,
         "HOST_READ_GO" \in regs
  PROVE  (NoHalt => NoHalt') /\ (HaltLast => HaltLast')
<1>1. chan \in Seq(Messages) /\ m \in Messages
  BY DEF CallInv, Messages
<1>2. /\ Len(chan') = Len(chan) + 1 /\ chan'[Len(chan) + 1] = m /\ Len(chan) \in Nat
      /\ \A k \in 1 .. Len(chan) : chan'[k] = chan[k]
  BY <1>1, AppendProperties, LenProperties
<1>3. ~IsHostReadOff(m)' /\ \A q : IsHostReadOff(q)' = IsHostReadOff(q)
  BY DEF IsHostReadOff, Data, Last
<1>4. \A k : HaltOf(reqs[k]) = HaltOf(reqs[k])'
  BY DEF HaltOf
<1>5. (NoHalt \/ HaltLast) => \A k \in 1 .. Len(chan) : ~IsHostReadOff(chan[k])
  BY DEF NoHalt, HaltLast
<1>6. ASSUME NoHalt \/ HaltLast, NEW k \in 1 .. Len(chan') PROVE ~IsHostReadOff(chan[k])'
  <2>1. k \in 1 .. Len(chan) \/ k = Len(chan) + 1
    BY <1>2
  <2>2. PICK q : q = chan'[k]
    OBVIOUS
  <2>3. ~IsHostReadOff(q)
    BY <1>2, <1>3, <1>5, <1>6, <2>1, <2>2
  <2> QED BY <1>3, <2>2, <2>3 DEF IsHostReadOff
<1> QED BY <1>4, <1>6 DEF NoHalt, HaltLast

\* A request is sent.
LEMMA HaltSent ==
  ASSUME QueueInv, CallInv, NoHalt, NEW r \in Requests, reqs' = Append(reqs, r),
         UNCHANGED <<map, chan, regs>>
  PROVE  HaltLast' /\ (~HaltOf(r) => NoHalt')
<1>1. reqs \in Seq(Requests)
  BY DEF QueueInv
<1>2. /\ Len(reqs') = Len(reqs) + 1 /\ reqs'[Len(reqs) + 1] = r /\ Len(reqs) \in Nat
      /\ \A k \in 1 .. Len(reqs) : reqs'[k] = reqs[k]
  BY <1>1, AppendProperties, LenProperties
<1>3. \A k \in 1 .. Len(chan') : ~IsHostReadOff(chan[k])'
  BY DEF NoHalt, IsHostReadOff
<1>4. ASSUME NEW k \in 1 .. Len(reqs') PROVE HaltOf(reqs[k])' => k = Len(reqs') /\ HaltOf(r)
  <2>1. k \in 1 .. Len(reqs) \/ k = Len(reqs) + 1
    BY <1>2
  <2> QED BY <1>2, <2>1 DEF NoHalt, HaltOf
<1> QED BY <1>3, <1>4 DEF NoHalt, HaltLast

\* The device answers.
LEMMA HaltAnswered ==
  ASSUME TypeInv, QueueInv, CallInv, Respond, fw = map
  PROVE  (NoHalt => NoHalt') /\ (HaltLast => HaltLast')
<1> DEFINE q == Head(reqs)
<1>1. /\ reqs \in Seq(Requests) /\ reqs # << >> /\ reqs' = Tail(reqs) /\ fw # "none"
      /\ chan \in Seq(Messages) /\ chan' = Append(chan, AnswerTo(q))
      /\ regs' = (IF q.value = 1 THEN regs \cup At(q.addr) ELSE regs \ At(q.addr))
      /\ UNCHANGED map
  BY DEF Respond, QueueInv, CallInv, TypeInv, TypeOK
<1>2. PICK L \in Nat : L = Len(reqs) /\ L >= 1
  BY <1>1, EmptySeq, LenProperties
<1>3. /\ q \in Requests /\ q = reqs[1] /\ 1 \in 1 .. Len(reqs) /\ Len(reqs') = L - 1
      /\ reqs' \in Seq(Requests) /\ \A k \in 1 .. L - 1 : reqs'[k] = reqs[k + 1]
  <2>1. /\ reqs' \in Seq(Requests) /\ Len(reqs') = Len(reqs) - 1
        /\ \A k \in 1 .. Len(reqs') : reqs'[k] = reqs[k + 1]
    BY <1>1, HeadTailProperties
  <2>2. q \in Requests
    BY <1>1, HeadTailProperties
  <2> QED BY <1>1, <1>2, <2>1, <2>2
<1>4. AnswerTo(q) \in Messages
  BY <1>3 DEF Messages
<1>5. PICK K \in Nat : K = Len(chan)
  BY <1>1, LenProperties
<1>6. /\ Len(chan') = K + 1 /\ chan'[K + 1] = AnswerTo(q)
      /\ \A k \in 1 .. K : chan'[k] = chan[k]
  BY <1>1, <1>4, <1>5, AppendProperties
<1>7. IsHostReadOff(AnswerTo(q)) <=> HaltOf(q)
  BY DEF IsHostReadOff, HaltOf, AnswerTo
<1>8. HaltOf(q) => "HOST_READ_GO" \notin regs'
  <2>1. "HOST_READ_GO" \in At(Addr[map]["HOST_READ_GO"])
    BY <1>1 DEF At, Names
  <2> QED BY <1>1, <2>1 DEF HaltOf
<1>9. /\ \A m : HaltOf(m)' = HaltOf(m)
      /\ \A m : IsHostReadOff(m)' = IsHostReadOff(m)
  BY <1>1 DEF HaltOf, IsHostReadOff
<1> HIDE DEF q
<1>10. ASSUME NEW k \in 1 .. Len(reqs')
       PROVE  k + 1 \in 1 .. Len(reqs) /\ reqs'[k] = reqs[k + 1] /\ (k + 1 = L => k = Len(reqs'))
  BY <1>2, <1>3
<1>11. ASSUME NEW k \in 1 .. Len(chan')
       PROVE  \/ k \in 1 .. Len(chan) /\ chan'[k] = chan[k]
              \/ k = Len(chan') /\ chan'[k] = AnswerTo(q)
  BY <1>5, <1>6
<1>12. ASSUME NoHalt PROVE NoHalt'
  <2>1. ~HaltOf(q)
    BY <1>3, <1>12 DEF NoHalt
  <2>2. ASSUME NEW k \in 1 .. Len(reqs') PROVE ~HaltOf(reqs'[k])
    BY <1>10, <1>12 DEF NoHalt
  <2>3. ASSUME NEW k \in 1 .. Len(chan') PROVE ~IsHostReadOff(chan'[k])
    BY <1>7, <1>11, <1>12, <2>1 DEF NoHalt
  <2> QED BY <1>9, <2>2, <2>3 DEF NoHalt, HaltOf, IsHostReadOff
<1>13. ASSUME HaltLast PROVE HaltLast'
  <2>1. HaltOf(q) => reqs' = << >>
    <3>1. HaltOf(q) => L = 1
      BY <1>2, <1>3, <1>13 DEF HaltLast
    <3> QED BY <1>3, <3>1, EmptySeq
  <2>2. ASSUME NEW k \in 1 .. Len(reqs'), HaltOf(reqs'[k]) PROVE k = Len(reqs')
    <3>1. k + 1 = L
      BY <1>2, <1>10, <1>13, <2>2 DEF HaltLast
    <3> QED BY <1>10, <3>1
  <2>3. ASSUME NEW k \in 1 .. Len(chan'), IsHostReadOff(chan'[k])
        PROVE  k = Len(chan') /\ reqs' = << >> /\ "HOST_READ_GO" \notin regs'
    <3>1. ~(k \in 1 .. Len(chan) /\ chan'[k] = chan[k])
      BY <1>1, <1>13, <2>3 DEF HaltLast
    <3>2. k = Len(chan') /\ chan'[k] = AnswerTo(q)
      BY <1>11, <3>1
    <3> QED BY <1>7, <1>8, <2>1, <2>3, <3>2
  <2> QED BY <1>9, <2>2, <2>3 DEF HaltLast, HaltOf, IsHostReadOff
<1> QED BY <1>12, <1>13

\* Neither the end of an access nor that of a call repairs what has gone wrong.
LEMMA DoneKeeps ==
  ASSUME Done \/ Fails
  PROVE  failed \subseteq failed' /\ pc' \in {"send", "loop", "idle"}
<1>1. ASSUME NEW r, Returns(r) PROVE failed \subseteq failed'
  BY <1>1 DEF Returns
<1> QED BY <1>1 DEF Done, Fails, Returns

\* A plan that starts or stops the stream is that of no load.
LEMMA StopsNoLoad == (Starts \cup Stops) \cap LoadPlans = {}
BY Kinds DEF Starts, Stops, Plans, Writes

Clean == failed = {} /\ (phase # "new" \/ pc # "idle")

\* An access that belongs to no plan that stops the stream is done or has failed.
LEMMA SilentDone ==
  ASSUME TypeInv, CallInv, Clean', op = "start", pc \in {"send", "wait"}, Done \/ Fails,
         op' = op, NoHalt'
  PROVE  SilentInv'
<1>1. todo \in Starts /\ todo # HaltStream
  BY PlanGoesOn DEF CallInv
<1>2. \/ todo' \in Starts
      \/ pc' = "idle"
  BY <1>1, PlanGoesOn DEF Done, Fails, Returns
<1>3. pc' # "loop"
  BY <1>1 DEF Done, Fails, Returns
<1>4. ~(pc' \in {"send", "wait"} /\ todo' \in Stops)
  BY <1>2, PlanGoesOn
<1>5. SilentWhenStopped'
  BY DEF SilentWhenStopped
<1> QED BY <1>3, <1>4, <1>5 DEF SilentInv

\* An access of a plan that stops the stream fails, and with it the call.
LEMMA StoppingFails ==
  ASSUME TypeInv, CallInv, pc \in {"send", "wait"}, todo \in Stops,
         (Returns(ret) /\ ret # 0) \/ Fails
  PROVE  ~Clean'
<1>1. todo # HaltStream /\ op \in {"open", "stop"}
  <2>1. todo \notin Loads /\ todo \notin Starts
    BY StopsNoLoad, PlanGoesOn DEF LoadPlans
  <2> QED BY <2>1, PlanGoesOn DEF CallInv
<1>2. ASSUME NEW r, r # 0, Returns(r) PROVE ~Clean'
  BY <1>1, <1>2 DEF Returns, Clean, CallInv
<1> QED BY <1>1, <1>2 DEF Fails

\* An access of such a plan is done: the next one finds nothing under way, and after
\* the last one nothing streams.
LEMMA StoppingDone ==
  ASSUME TypeInv, QueueInv, CallInv, SilentInv, Clean, Clean', Receive, todo \in Stops
  PROVE  SilentInv'
<1>1. /\ pc = "wait" /\ chan # << >> /\ chan' = Tail(chan)
      /\ UNCHANGED <<op, state, map, reqs, regs>>
      /\ IF Head(chan).kind = "answer" THEN Done ELSE Fails
  BY DEF Receive
<1>2. Done
  BY <1>1, StoppingFails
<1>3. todo # HaltStream /\ op \in {"open", "stop"}
  <2>1. todo \notin Loads /\ todo \notin Starts
    BY StopsNoLoad, PlanGoesOn DEF LoadPlans
  <2> QED BY <1>1, <2>1, PlanGoesOn DEF CallInv
<1>4. CASE ret # 0
  <2>1. Len(todo) > 1
    BY <1>1, <1>2, <1>3, <1>4, StoppingFails DEF Done
  <2>2. pc' = "send" /\ todo' = Tail(todo) /\ ret' = ret
    BY <1>2, <2>1 DEF Done
  <2>3. todo' # HaltStream
    BY <2>1, <2>2, PlanGoesOn
  <2> QED BY <1>1, <1>3, <1>4, <2>2, <2>3 DEF SilentInv, SilentWhenStopped
<1>5. CASE ret = 0
  <2>1. Stopping
    BY <1>1, <1>5 DEF SilentInv, Clean
  <2>2. reqs = << >> /\ Len(chan) = 1 /\ Answered
    BY <1>1, <2>1 DEF Stopping, Answered
  <2>3. reqs' = << >> /\ chan' = << >> /\ "HOST_READ_GO" \notin regs'
    <3>1. chan' = << >>
      BY <1>1, <2>2, HaltTail
    <3> QED BY <1>1, <2>1, <2>2, <3>1 DEF Stopping
  <2>4. CASE todo = StopStream \/ todo = StopFrom2
    <3>1. pc' = "send" /\ todo' = Tail(todo) /\ ret' = 0 /\ Len(todo) > 1
      BY <1>2, <1>5, <2>4, PlansFollow, SMTT(30) DEF Done
    <3>2. todo' # HaltStream
      BY <3>1, PlanGoesOn
    <3>3. todo' = StopFrom3 => todo = StopFrom2
      BY <2>4, <3>1, PlansFollow, PlansDiffer
    <3>4. Stopping'
      BY <1>1, <2>1, <2>2, <2>3, <3>1, <3>3 DEF Stopping, Answered
    <3> QED BY <1>1, <1>3, <3>1, <3>2, <3>4 DEF SilentInv, SilentWhenStopped
  <2>5. CASE todo = StopFrom3
    <3>1. pc' = "idle" /\ todo' = << >>
      BY <1>2, <1>3, <2>5, PlansFollow DEF Done, Returns
    <3>2. "CSTREAM_CFG" \notin regs' /\ "SINK_GO" \notin regs'
      BY <1>1, <2>1, <2>2, <2>5 DEF Stopping
    <3>3. NoHalt'
      <4>1. (\A k \in 1 .. Len(reqs') : FALSE) /\ (\A k \in 1 .. Len(chan') : FALSE)
        BY <2>3, EmptySeq
      <4> QED BY <4>1 DEF NoHalt
    <3> QED BY <2>3, <3>1, <3>2, <3>3 DEF SilentInv, SilentWhenStopped
  <2> QED BY <2>4, <2>5 DEF Stops
<1> QED BY <1>4, <1>5

LEMMA SilentSend ==
  ASSUME TypeInv, QueueInv, CallInv, SilentInv, Clean, Clean', Send, ~Loading
  PROVE  SilentInv'
<1>1. /\ pc = "send" /\ reqs' = Append(reqs, ThisRequest)
      /\ UNCHANGED <<op, state, map, chan, fw, regs>>
      /\ IF Head(todo).kind = "cast" THEN Done ELSE pc' = "wait" /\ UNCHANGED <<todo, ret, phase, failed>>
  BY DEF Send, ThisRequest, Doing
<1>2. ThisRequest \in Requests
  <2>1. map \in Firmwares /\ todo \in Plans
    BY <1>1, LoadingKind DEF TypeInv, TypeOK
  <2>2. Head(todo).name \in Names /\ Head(todo).value \in {0, 1}
    BY <2>1, PlanHeads DEF Plans, Writes, Write, Cast, Names
  <2> QED BY <2>1, <2>2 DEF ThisRequest, Requests, Request
<1>3. CASE op = "start" /\ todo \in Starts
  <2>1. NoHalt
    BY <1>3 DEF SilentInv, Clean
  <2>2. ~HaltOf(ThisRequest)
    BY <1>3, PlanGoesOn DEF HaltOf, ThisRequest, Request
  <2>3. NoHalt'
    BY <1>1, <1>2, <2>1, <2>2, HaltSent
  <2>4. CASE Done
    BY <1>1, <1>3, <2>3, <2>4, SilentDone
  <2>5. CASE pc' = "wait" /\ todo' = todo
    BY <1>1, <1>3, <2>3, <2>5, PlanGoesOn DEF SilentInv, SilentWhenStopped
  <2> QED BY <1>1, <2>4, <2>5
<1>4. CASE op \in {"open", "stop"} /\ todo \in Stops
  <2>1. pc' = "wait" /\ todo' = todo /\ ret' = ret /\ todo # HaltStream
    BY <1>1, <1>4, PlanGoesOn
  <2>2. ASSUME ret = 0 PROVE Stopping'
    <3>1. Stopping
      BY <1>1, <1>4, <2>2 DEF SilentInv, Clean
    <3>2. reqs = << >> /\ chan = << >>
      BY <1>1, <3>1 DEF Stopping
    <3>3. reqs' = <<ThisRequest>> /\ reqs' # << >> /\ ThisRequest' = ThisRequest
      BY <1>1, <2>1, <3>2 DEF ThisRequest, Request
    <3> QED BY <1>1, <2>1, <3>1, <3>2, <3>3 DEF Stopping, Answered
  <2> QED BY <1>1, <1>4, <2>1, <2>2 DEF SilentInv, SilentWhenStopped
<1>5. CASE op = "stop" /\ todo = HaltStream /\ state = RUNNING
  <2>1. pc' = "loop" /\ todo' = << >>
    BY <1>1, <1>5, PlanGoesOn DEF Done
  <2>2. HaltLast'
    BY <1>1, <1>2, <1>5, HaltSent DEF SilentInv, Clean
  <2>3. << >> # HaltStream
    BY PlansFollow DEF Plans
  <2> QED BY <1>1, <1>5, <2>1, <2>2, <2>3 DEF SilentInv, SilentWhenStopped, RUNNING, HOST_READ_OFF
<1> QED BY <1>1, <1>3, <1>4, <1>5 DEF CallInv, Loading, LoadPlans

LEMMA SilentStep ==
  TypeInv /\ LoadInv /\ MapInv /\ QueueInv /\ CallInv /\ SilentInv /\ [Next]_vars => SilentInv'
<1> SUFFICES ASSUME TypeInv, LoadInv, MapInv, QueueInv, CallInv, SilentInv, [Next]_vars, Clean'
             PROVE  SilentInv'
  BY DEF SilentInv, Clean
<1> USE DEF device
<1>0. << >> # HaltStream
  BY PlansFollow DEF Plans
\* Nothing is under way.
<1>1. ASSUME reqs' = << >>, chan' = << >> PROVE NoHalt'
  <2>1. (\A k \in 1 .. Len(reqs') : FALSE) /\ (\A k \in 1 .. Len(chan') : FALSE)
    BY <1>1, EmptySeq
  <2> QED BY <2>1 DEF NoHalt
\* A load begins, or goes on.
<1>2. ASSUME Loading', op' \in {"open", "load"} PROVE SilentInv'
  <2>1. todo' \notin Stops /\ todo' # HaltStream /\ pc' \in {"send", "wait"}
    BY <1>2, StopsNoLoad, Kinds DEF Loading, Plans
  <2> QED BY <1>2, <2>1 DEF SilentInv, SilentWhenStopped
<1>3. CASE Open \/ \E f \in Firmwares : LoadFirmware(f)
  <2>1. \E f \in Firmwares : \E plan \in LoadPlans : Load(f, plan) /\ op' \in {"open", "load"}
    <3>1. OpenPlan \in LoadPlans /\ \A f \in Firmwares : LoadPlan(f) \in LoadPlans
      BY DEF LoadPlans, Opens, Loads
    <3>2. CASE Open
      BY <3>1, <3>2, OwnAssumption DEF Open, Calls
    <3>3. ASSUME NEW f \in Firmwares, LoadFirmware(f)
          PROVE  \E plan \in LoadPlans : Load(f, plan) /\ op' \in {"open", "load"}
      BY <3>1, <3>3 DEF LoadFirmware, Calls
    <3> QED BY <1>3, <3>2, <3>3
  <2>2. \A f \in Firmwares : ~LoadFails(f)
    BY DEF LoadFails, Clean
  <2>3. Loading'
    BY <2>1, <2>2 DEF Load, Loading
  <2> QED BY <1>2, <2>1, <2>3
\* A call of the user's on an open device
<1>4. ASSUME pc = "idle", phase # "new", UNCHANGED <<map, device, failed>> PROVE NoHalt'
  <2>1. NoHalt
    BY <1>4 DEF SilentInv, Clean
  <2> QED BY <1>4, <2>1 DEF NoHalt, HaltOf, IsHostReadOff
<1>5. CASE CaptureStart
  <2>1. pc' = "send" /\ todo' = StartStream /\ op' = "start" /\ NoHalt'
    BY <1>4, <1>5 DEF CaptureStart, Calls
  <2>2. todo' \notin Stops
    BY <2>1, PlansDiffer DEF Stops
  <2> QED BY <2>1, <2>2 DEF SilentInv, SilentWhenStopped
<1>6. CASE Dispatch
  <2>1. pc' \in {"idle", "loop"} /\ op' = "dispatch" /\ NoHalt'
    BY <1>4, <1>6 DEF Dispatch, Calls
  <2> QED BY <2>1 DEF SilentInv, SilentWhenStopped
<1>7. CASE CaptureStop
  <2>1. pc' = "send" /\ todo' = HaltStream /\ op' = "stop" /\ NoHalt'
    BY <1>4, <1>7 DEF CaptureStop, Calls
  <2>2. todo' \notin Stops
    BY <2>1, PlanGoesOn
  <2> QED BY <2>1, <2>2 DEF SilentInv, SilentWhenStopped
<1>8. CASE Send
  <2>1. Clean
    BY <1>8, DoneKeeps DEF Send, Clean
  <2>2. CASE Loading
    <3>1. pc = "send" /\ op' = op /\ ~Doing({"set_reg"})
          /\ IF Doing({"cast"}) THEN Done ELSE pc' = "wait" /\ todo' = todo
      BY <1>8 DEF Send
    <3>2. ~Doing({"cast"})
      BY <2>2, <3>1, LoadingKind DEF Doing
    <3>3. Loading' /\ op \in {"open", "load"}
      BY <2>2, <3>1, <3>2 DEF Loading, LoadInv
    <3> QED BY <1>2, <3>1, <3>3
  <2> QED BY <1>8, <2>1, <2>2, SilentSend
<1>9. CASE SendFails \/ ReceiveFails
  <2>1. /\ pc \in {"send", "wait"} /\ Fails /\ UNCHANGED <<op, state, map, reqs, chan, fw, regs>>
        /\ pc = "send" \/ pc = "wait"
    BY <1>9 DEF SendFails, ReceiveFails
  <2>2. todo \notin LoadPlans
    BY <1>9, NoLoadAccess DEF Loading
  <2>3. Clean
    BY <2>1, DoneKeeps DEF Clean
  <2>4. ASSUME NoHalt PROVE NoHalt' /\ HaltLast'
    BY <2>1, <2>4 DEF NoHalt, HaltLast, HaltOf, IsHostReadOff
  <2>5. CASE op = "start" /\ todo \in Starts
    <3>1. NoHalt
      BY <2>3, <2>5 DEF SilentInv, Clean
    <3> QED BY <2>1, <2>4, <2>5, <3>1, SilentDone
  <2>6. CASE todo \in Stops
    BY <2>1, <2>6, StoppingFails
  <2>7. CASE op = "stop" /\ todo = HaltStream /\ state = RUNNING
    <3>1. HaltLast'
      BY <2>3, <2>4, <2>7 DEF SilentInv, Clean
    <3>2. pc' = "loop" /\ todo' = << >>
      BY <2>1, <2>7 DEF Fails
    <3> QED BY <1>0, <2>1, <2>7, <3>1, <3>2 DEF SilentInv, SilentWhenStopped, RUNNING, HOST_READ_OFF
  <2> QED BY <2>1, <2>5, <2>6, <2>7, <2>2 DEF CallInv, LoadPlans
<1>10. CASE Receive
  <2>1. /\ pc = "wait" /\ chan # << >> /\ chan' = Tail(chan) /\ (Done \/ Fails)
        /\ UNCHANGED <<op, state, map, reqs, fw, regs>>
    BY <1>10 DEF Receive
  <2>2. Clean
    BY <2>1, DoneKeeps DEF Clean
  <2>3. todo # HaltStream /\ todo \notin LoadPlans
    <3>1. todo \in Writes
      BY <1>10, LoadingKind DEF Receive
    <3> QED BY <3>1, PlansFollow, Kinds DEF Plans
  <2>4. CASE op = "start" /\ todo \in Starts
    <3>1. NoHalt
      BY <2>2, <2>4 DEF SilentInv, Clean
    <3>2. NoHalt'
      BY <2>1, <3>1, HaltTail
    <3> QED BY <2>1, <2>4, <3>2, SilentDone
  <2>5. CASE todo \in Stops
    BY <1>10, <2>2, <2>5, StoppingDone
  <2> QED BY <2>1, <2>3, <2>4, <2>5 DEF CallInv, LoadPlans
<1>11. CASE Synced
  <2>1. /\ pc' = "send" /\ reqs = << >> /\ chan' = << >> /\ regs = {}
        /\ UNCHANGED <<op, reqs, regs>> /\ Loading
        /\ \/ op = "open" /\ todo' = SyncAndStop
           \/ op = "open" /\ todo' = StopStream
           \/ op = "load" /\ todo' \in LoadPlans
    BY <1>11, SyncedTo
  <2>2. CASE todo' \in LoadPlans
    <3>1. Loading'
      BY <2>1, <2>2 DEF Loading
    <3> QED BY <1>2, <2>1, <2>2, <3>1
  <2>3. CASE op = "open" /\ todo' = StopStream
    <3>1. todo' # HaltStream /\ todo' # StopFrom2 /\ todo' # StopFrom3
      BY <2>3, PlansFollow, PlansDiffer DEF Writes
    <3>2. Stopping'
      BY <2>1, <3>1 DEF Stopping
    <3> QED BY <2>1, <2>3, <3>1, <3>2 DEF SilentInv, SilentWhenStopped
  <2> QED BY <2>1, <2>2, <2>3 DEF LoadPlans, Opens
<1>12. CASE SyncFails
  <2>1. /\ pc \in {"send", "wait"} /\ Doing({"sync", "set_reg"}) /\ pc' = "idle" /\ Returns(-1)
    BY <1>12 DEF SyncFails, Doing, Returns
  <2>2. op = "load" \/ (op = "open" /\ phase = "new")
    BY <2>1, LoadingKind DEF LoadInv
  <2>3. ~Clean'
    BY <2>1, <2>2 DEF Returns, Clean
  <2> QED BY <2>3
<1>13. CASE ReplaceMap
  <2>1. pc = "send" /\ Loading /\ UNCHANGED <<op, reqs, chan, regs>> /\ Done
    BY <1>13, LoadingKind DEF ReplaceMap, Doing
  <2>2. regs' = {} /\ reqs' = << >> /\ chan' = << >>
    BY <2>1 DEF LoadInv
  <2>3. pc' = "idle"
    <3>1. PICK f \in Firmwares : todo = LoadFrom2(f)
      BY <1>13, LoadingKind DEF ReplaceMap
    <3>2. Len(todo) = 1
      BY <3>1, LoadPlansFollow
    <3>3. todo # HaltStream
      BY <2>1, Kinds DEF Loading, Plans
    <3> QED BY <2>1, <3>2, <3>3 DEF Done, Returns
  <2> QED BY <1>1, <2>2, <2>3 DEF SilentInv, SilentWhenStopped
\* The first message is decoded.
<1>14. ASSUME pc = "loop", chan # << >>, chan' = Tail(chan), Clean,
              UNCHANGED <<pc, op, todo, map, reqs, regs>>,
              op = "stop" /\ HaltLast /\ state' = HOST_READ_OFF => Quiet'
       PROVE  SilentInv'
  <2>1. (NoHalt => NoHalt') /\ (HaltLast => HaltLast')
    BY <1>14, HaltTail
  <2>2. CASE op = "stop"
    <3>1. HaltLast
      BY <1>14, <2>2 DEF SilentInv, Clean
    <3>2. todo' # HaltStream
      BY <1>0, <1>14 DEF TypeInv, TypeOK
    <3> QED BY <1>14, <2>1, <2>2, <3>1, <3>2 DEF SilentInv, SilentWhenStopped
  <2>3. CASE op = "dispatch"
    BY <1>14, <2>1, <2>3 DEF SilentInv, SilentWhenStopped, Clean
  <2> QED BY <1>14, <2>2, <2>3 DEF CallInv
<1>15. CASE Decode
  <2>1. /\ pc = "loop" /\ state = RUNNING /\ chan # << >> /\ chan' = Tail(chan)
        /\ UNCHANGED <<pc, op, todo, ret, map, reqs, fw, regs, phase, failed>>
    BY <1>15 DEF Decode, history
  <2>2. /\ (NoHalt => NoHalt') /\ (HaltLast => HaltLast')
        /\ Len(chan) \in Nat /\ Len(chan) >= 1 /\ Head(chan) = chan[1]
        /\ Len(chan) = 1 => chan' = << >>
    BY <2>1, HaltTail
  <2>3. state' = HOST_READ_OFF => IsHostReadOff(Head(chan))
    BY <1>15, <2>1 DEF Decode, RUNNING, BREAK_LOOP, COUNT_LIMIT, END_OF_STREAM, HOST_READ_OFF
  <2>4. HaltLast /\ state' = HOST_READ_OFF => Quiet'
    <3>1. 1 \in 1 .. Len(chan)
      BY <2>2
    <3> QED BY <2>1, <2>2, <2>3, <3>1 DEF HaltLast, Quiet
  <2>5. Clean
    BY <2>1 DEF Clean
  <2> QED BY <1>14, <2>1, <2>4, <2>5
<1>16. CASE Misread
  <2>1. /\ pc = "loop" /\ chan # << >> /\ chan' = Tail(chan)
        /\ UNCHANGED <<pc, op, todo, map, reqs, regs, phase>>
        /\ failed \subseteq failed'
    BY <1>16 DEF Misread
  <2>2. Clean
    BY <2>1 DEF Clean
  <2>3. op = "stop" => state' # HOST_READ_OFF
    <3>1. "misread" \notin failed'
      BY DEF Clean
    <3> QED BY <1>16, <3>1 DEF Misread, RUNNING, END_OF_STREAM, HOST_READ_OFF
  <2> QED BY <1>14, <2>1, <2>2, <2>3
<1>17. CASE LoopFails
  <2>1. /\ pc = "loop" /\ state' = FATAL_ERROR
        /\ UNCHANGED <<pc, op, todo, ret, map, reqs, chan, fw, regs, phase, failed>>
    BY <1>17 DEF LoopFails
  <2>2. /\ NoHalt => NoHalt'
        /\ HaltLast => HaltLast'
    BY <2>1 DEF NoHalt, HaltLast, HaltOf, IsHostReadOff
  <2> QED BY <2>1, <2>2 DEF SilentInv, SilentWhenStopped, Clean, FATAL_ERROR, HOST_READ_OFF
<1>18. CASE LoopReturns
  <2>1. /\ pc = "loop" /\ UNCHANGED <<op, state, map, reqs, fw, regs, phase, failed>>
        /\ \/ chan' = chan
           \/ \E n \in 1 .. Len(chan) : chan' = SubSeq(chan, n + 1, Len(chan))
    BY <1>18 DEF LoopReturns
  <2>2. Clean
    BY <2>1 DEF Clean
  <2>3. CASE op = "stop"
    <3>1. /\ pc' = "send" /\ todo' = StopStream
          /\ ret' = IF state = HOST_READ_OFF THEN 0 ELSE -1
      BY <1>18, <2>3 DEF LoopReturns
    <3>2. ASSUME ret' = 0 PROVE Stopping'
      <4>1. Quiet
        BY <2>1, <2>2, <2>3, <3>1, <3>2 DEF SilentInv, Clean
      <4>2. \A n \in 1 .. Len(chan) : FALSE
        BY <4>1, EmptySeq DEF Quiet
      <4>3. chan' = chan
        BY <2>1, <4>2
      <4> QED BY <2>1, <3>1, <4>1, <4>3, PlansDiffer DEF Quiet, Stopping
    <3>3. todo' # HaltStream
      BY <3>1, PlansFollow DEF Writes
    <3> QED BY <2>1, <2>3, <3>1, <3>2, <3>3 DEF SilentInv, SilentWhenStopped
  <2>4. CASE op = "dispatch"
    <3>1. pc' = "idle"
      BY <1>18, <2>4 DEF LoopReturns
    <3>2. NoHalt
      BY <2>2, <2>4 DEF SilentInv, Clean
    <3>3. NoHalt'
      <4>1. CASE chan' = chan
        BY <2>1, <3>2, <4>1 DEF NoHalt, HaltOf, IsHostReadOff
      <4>2. ASSUME NEW n \in 1 .. Len(chan), chan' = SubSeq(chan, n + 1, Len(chan))
            PROVE  NoHalt'
        <5>1. chan \in Seq(Messages)
          BY DEF CallInv
        <5>2. Len(chan') = Len(chan) - n /\ \A i \in 1 .. Len(chan) - n : chan'[i] = chan[i + n]
          BY <4>2, <5>1, RestOf
        <5> QED BY <2>1, <3>2, <5>2, HaltTaken
      <4> QED BY <2>1, <4>1, <4>2
    <3> QED BY <2>1, <2>4, <3>1, <3>3 DEF SilentInv, SilentWhenStopped
  <2> QED BY <2>1, <2>3, <2>4 DEF CallInv
<1>19. CASE Respond
  <2>1. /\ UNCHANGED <<pc, op, todo, state, ret, map, fw, phase, failed>>
        /\ reqs # << >> /\ fw # "none" /\ reqs' = Tail(reqs) /\ chan' = Append(chan, AnswerTo(Head(reqs)))
        /\ regs' = IF Head(reqs).value = 1 THEN regs \cup At(Head(reqs).addr)
                   ELSE regs \ At(Head(reqs).addr)
    BY <1>19 DEF Respond, history
  <2>2. CASE Loading
    <3>1. Loading' /\ op' \in {"open", "load"}
      BY <2>1, <2>2 DEF Loading, LoadInv
    <3> QED BY <1>2, <3>1
  <2> SUFFICES ASSUME ~Loading PROVE SilentInv'
    BY <2>2
  <2>3. Clean /\ fw = map
    BY <2>1 DEF Clean, MapInv
  <2>4. (NoHalt => NoHalt') /\ (HaltLast => HaltLast')
    BY <1>19, <2>3, HaltAnswered
  <2>5. ~Quiet
    BY <2>1 DEF Quiet
  <2>6. ASSUME Stopping, pc \in {"send", "wait"}, todo \in Stops PROVE Stopping'
    <3>1. pc = "wait" /\ reqs = <<ThisRequest>> /\ chan = << >> /\ ~Answered
      BY <2>1, <2>6 DEF Stopping, Answered
    <3>2. Head(reqs) = ThisRequest /\ reqs' = << >>
      BY <2>1, <3>1
    <3>3. chan' = <<AnswerTo(ThisRequest)>> /\ Len(chan') = 1 /\ chan'[1].kind = "answer"
      BY <2>1, <3>1, <3>2 DEF AnswerTo
    <3>4. ThisRequest.value = 0 /\ ThisRequest.addr = Addr[fw][Head(todo).name]
      BY <2>3, <2>6, PlanGoesOn DEF ThisRequest, Request
    <3>5. regs' = regs \ At(Addr[fw][Head(todo).name])
      BY <2>1, <3>2, <3>4
    <3>6. Head(todo).name \in Names => Head(todo).name \notin regs'
      BY <2>1, <3>5 DEF At
    <3>7. /\ todo = StopFrom2 => "CSTREAM_CFG" \notin regs'
          /\ todo = StopFrom3 => "SINK_GO" \notin regs'
      BY <3>6, PlanHeads DEF Write, Names
    <3>8. "HOST_READ_GO" \notin regs' /\ (todo = StopFrom3 => "CSTREAM_CFG" \notin regs')
      BY <2>6, <3>5 DEF Stopping
    <3> QED BY <2>1, <3>1, <3>2, <3>3, <3>7, <3>8 DEF Stopping
  <2>7. SilentWhenStopped'
    BY <2>1, <2>3 DEF SilentInv, SilentWhenStopped, Clean
  <2> QED BY <2>1, <2>3, <2>4, <2>5, <2>6, <2>7 DEF SilentInv, Clean
<1>20. CASE Stream
  <2>1. /\ UNCHANGED <<pc, op, todo, state, ret, map, fw, reqs, regs, phase, failed>>
        /\ {"HOST_READ_GO", "CSTREAM_CFG"} \subseteq regs
    BY <1>20 DEF Stream, Streaming, history
  <2>2. Clean
    BY <2>1 DEF Clean
  <2>3. (NoHalt => NoHalt') /\ (HaltLast => HaltLast')
    <3>1. PICK m \in {Data, Last} : chan' = Append(chan, m)
      BY <1>20 DEF Stream
    <3> QED BY <2>1, <3>1, HaltStreamed
  <2>4. ~Quiet /\ ~Stopping
    BY <2>1 DEF Quiet, Stopping
  <2>5. SilentWhenStopped'
    BY <2>1, <2>2 DEF SilentInv, SilentWhenStopped, Clean
  <2> QED BY <2>1, <2>2, <2>3, <2>4, <2>5 DEF SilentInv, Clean
<1>21. CASE UNCHANGED vars
  <2>1. UNCHANGED <<pc, op, todo, state, ret, map, fw, reqs, chan, regs, phase, failed>>
    BY <1>21 DEF vars, history
  <2> QED BY <2>1 DEF SilentInv, Clean, NoHalt, HaltLast, HaltOf, IsHostReadOff, Quiet, Stopping,
                      Answered, ThisRequest, Request, SilentWhenStopped
<1> QED BY <1>3, <1>5, <1>6, <1>7, <1>8, <1>9, <1>10, <1>11, <1>12, <1>13, <1>15, <1>16, <1>17,
           <1>18, <1>19, <1>20, <1>21 DEF Next, UserCall, HostStep

\* A device that was opened, loaded or stopped with success is silent, for any packages
\* and however much it has streamed, unless a load or stop before has failed or a stop
\* has taken something else for its answer (src/src/ov.c:68-75, 262-288).
THEOREM SilentWhenStoppedCorrect == Spec => []SilentWhenStopped
<1>1. Init => SilentInv
  BY DEF Init, SilentInv
<1>2. CallInv /\ SilentInv => SilentWhenStopped
  BY DEF CallInv, SilentInv, SilentWhenStopped
<1> QED BY <1>1, <1>2, TypeInit, TypeStep, LoadInit, LoadStep, QueueInit, QueueStep, CallInit, CallStep,
           SilentStep, PTL DEF Spec
=============================================================================
