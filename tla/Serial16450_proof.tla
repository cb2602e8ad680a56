------------------------- MODULE Serial16450_proof -------------------------
(* Proofs about Serial16450, for every number of bytes and every chunk size. *)
EXTENDS Serial16450, SequenceTheorems, TLAPS

LEMMA SideFunctions ==
    /\ Neither \in [Side -> BOOLEAN]
    /\ \A f \in [Side -> BOOLEAN], c \in Side, b \in BOOLEAN :
          [f EXCEPT ![c] = b] \in [Side -> BOOLEAN]
    /\ \A f \in [Side -> BOOLEAN], c \in Side : f[c] \in BOOLEAN
    /\ "read" \in Side /\ "write" \in Side
BY DEF Neither, Side

LEMMA LoopPcs ==
    /\ Idle \in LoopPc /\ At("testEmpty", "read") \in LoopPc
    /\ \A c \in Side : /\ At("setReady", c) \in LoopPc /\ At("setFlag", c) \in LoopPc
                       /\ At("testEnabled", c) \in LoopPc /\ At("testOther", c) \in LoopPc
                       /\ At("testFlag", c) \in LoopPc
BY DEF LoopPc, At, Side

LEMMA CpuPcs ==
    /\ Idle \in CpuPc /\ At("storeEnable", "write") \in CpuPc
    /\ \A c \in Side : /\ At("clearReady", c) \in CpuPc /\ At("clearFlag", c) \in CpuPc
                       /\ At("notify", c) \in CpuPc /\ At("loadReady", c) \in CpuPc
                       /\ At("storeFlag", c) \in CpuPc /\ At("testWas", c) \in CpuPc
                       /\ At("testNow", c) \in CpuPc
                       /\ At("identify", c) \in CpuPc
BY DEF CpuPc, At, Side

LEMMA LocalTypes ==
    /\ NoLocal \in Locals
    /\ \A l \in Locals : l.seen \in [Side -> BOOLEAN]
    /\ \A w, s \in [Side -> BOOLEAN] : [was |-> w, seen |-> s] \in Locals
    /\ \A l \in Locals, c \in Side, b \in BOOLEAN : [l EXCEPT !.seen[c] = b] \in Locals
<1>1. NoLocal \in Locals
  BY SideFunctions DEF NoLocal, Locals
<1>2. ASSUME NEW l \in Locals, NEW c \in Side, NEW b \in BOOLEAN
      PROVE  [l EXCEPT !.seen[c] = b] \in Locals
  BY DEF Locals
<1>. QED
  BY <1>1, <1>2 DEF Locals

LEMMA Chunk ==
    ASSUME NEW a \in Nat, NEW n \in Nat
    PROVE  LET chunk == [i \in 1..n |-> a + i]
           IN  /\ chunk \in Seq(Nat) /\ Len(chunk) = n
               /\ \A i \in 1..n : chunk[i] = a + i
<1>. DEFINE chunk == [i \in 1..n |-> a + i]
<1>1. chunk \in [1..n -> Nat]
  OBVIOUS
<1>2. chunk \in Seq(Nat)
  BY <1>1, SeqDef
<1>3. Len(chunk) = n
  BY <1>1, <1>2, LenProperties
<1>. QED
  BY <1>2, <1>3

LEMMA Unqueue ==
    ASSUME NEW q \in Seq(Nat), q # <<>>
    PROVE  /\ Tail(q) \in Seq(Nat) /\ Head(q) \in Nat /\ Head(q) = q[1]
           /\ Len(q) \in Nat \ {0} /\ Len(Tail(q)) = Len(q) - 1
           /\ \A i \in 1..Len(Tail(q)) : Tail(q)[i] = q[i + 1]
BY HeadTailProperties, EmptySeq

LEMMA TypeStep ==
    ASSUME TypeOK, [Next]_vars
    PROVE  TypeOK'
<1>. USE SideFunctions, LoopPcs, CpuPcs, LocalTypes DEF TypeOK
<1>1. ASSUME NEW n \in 1..MaxChunk, DataEvent(n) PROVE TypeOK'
  <2>1. arrived' \in 0..MaxBytes
    BY <1>1, BoundsAssumption DEF DataEvent
  <2>2. [i \in 1..n |-> arrived + i] \in Seq(Nat)
    <3>1. arrived \in Nat /\ n \in Nat
      BY BoundsAssumption
    <3>. QED
      BY ONLY <3>1, Chunk
  <2>3. queue' \in Seq(Nat)
    BY <1>1, <2>2, ConcatProperties DEF DataEvent
  <2>. QED
    BY <1>1, <2>1, <2>3 DEF DataEvent, LoopStep
<1>2. ASSUME NEW c \in Side, LoopWork(c) PROVE TypeOK'
  <2>1. CASE Notified(c)
    BY <2>1 DEF Notified, LoopStep, data
  <2>2. CASE TimerFires(c)
    BY <2>2 DEF TimerFires, LoopStep, data
  <2>3. CASE TimerResumesPty
    BY <2>3 DEF TimerResumesPty, LoopStep, data
  <2>8. CASE TimerSeesByte
    BY <2>8 DEF TimerSeesByte, LoopStep, data
  <2>4. CASE TimerSetsReady(c)
    BY <2>4 DEF TimerSetsReady, LoopStep, data
  <2>5. CASE TimerSetsFlag(c)
    BY <2>5 DEF TimerSetsFlag, LoopStep, data
  <2>6. CASE TimerTestsEnabled(c)
    BY <2>6 DEF TimerTestsEnabled, LoopStep, data
  <2>7. CASE TimerTriggers(c)
    <3>1. Other(c) \in Side
      BY DEF Other, Side
    <3>. QED
      BY <2>7, <3>1 DEF TimerTriggers, LoopStep, data
  <2>9. CASE TimerTestsOther(c)
    <3>1. Other(c) \in Side
      BY DEF Other, Side
    <3>. QED
      BY <2>9, <3>1 DEF TimerTestsOther, LoopStep, data
  <2>. QED
    BY <1>2, <2>1, <2>2, <2>3, <2>4, <2>5, <2>6, <2>7, <2>8, <2>9 DEF LoopWork, TimerCallback
<1>3. ASSUME AccessWork PROVE TypeOK'
  <2>1. ASSUME NEW c \in Side,
               DataClearsReady(c) \/ DataClearsFlag(c) \/ DataNotifies(c)
        PROVE  TypeOK'
    <3>1. CASE DataClearsReady(c)
      BY <3>1 DEF DataClearsReady, CpuStep
    <3>2. CASE DataClearsFlag(c)
      BY <3>2 DEF DataClearsFlag, CpuStep
    <3>3. CASE DataNotifies(c)
      BY <3>3 DEF DataNotifies, CpuStep
    <3>. QED
      BY <2>1, <3>1, <3>2, <3>3
  <2>2. ASSUME NEW c \in Side, WriteControlLoadsReady(c) PROVE TypeOK'
    BY <2>2 DEF WriteControlLoadsReady, CpuStep
  <2>3. ASSUME NEW c \in Side, WriteControlStoresFlag(c) PROVE TypeOK'
    BY <2>3 DEF WriteControlStoresFlag, CpuStep, AfterFlag
  <2>4. ASSUME NEW w \in BOOLEAN, WriteControlStoresEnable(w) PROVE TypeOK'
    BY <2>4 DEF WriteControlStoresEnable, CpuStep, AfterFlag
  <2>5. ASSUME NEW c \in Side, WriteControlTestsWas(c) PROVE TypeOK'
    BY <2>5 DEF WriteControlTestsWas, CpuStep
  <2>6. ASSUME NEW c \in Side, WriteControlTestsNow(c) PROVE TypeOK'
    BY <2>6 DEF WriteControlTestsNow, CpuStep
  <2>7. CASE ReadStatusTestsWrite
    BY <2>7 DEF ReadStatusTestsWrite, CpuStep
  <2>8. CASE ReadStatusClearsWrite
    BY <2>8 DEF ReadStatusClearsWrite, CpuStep
  <2>. QED
    BY <1>3, <2>1, <2>2, <2>3, <2>4, <2>5, <2>6, <2>7, <2>8 DEF AccessWork
<1>4. CASE ReadData
  <2>1. queue' \in Seq(Nat) /\ receive' \in Nat
    <3>1. CASE queue = <<>>
      BY <1>4, <3>1 DEF ReadData
    <3>2. CASE queue # <<>>
      BY <1>4, <3>2, Unqueue DEF ReadData
    <3>. QED
      BY <3>1, <3>2
  <2>. QED
    BY <1>4, <2>1 DEF ReadData, CpuStep
<1>5. CASE WriteData \/ ReadStatus
  BY <1>5 DEF WriteData, ReadStatus, CpuStep
<1>6. ASSUME NEW b \in BOOLEAN, WriteLineControl(b) PROVE TypeOK'
  BY <1>6 DEF WriteLineControl, CpuStep
<1>9. ASSUME NEW b \in BOOLEAN, WriteControl(b) PROVE TypeOK'
  <2>1. local' \in Locals
    BY <1>9 DEF WriteControl
  <2>. QED
    BY <1>9, <2>1 DEF WriteControl, CpuStep
<1>7. CASE KvmTakesIrq
  BY <1>7 DEF KvmTakesIrq, data
<1>8. CASE UNCHANGED vars
  BY <1>8 DEF vars, data
<1>. QED
  BY <1>1, <1>2, <1>3, <1>4, <1>5, <1>6, <1>7, <1>8, <1>9 DEF Next, Machine, AccessBegins

\* Every variable keeps its type.
THEOREM TypeCorrect == Spec => []TypeOK
<1>1. Init => TypeOK
  <2>. SUFFICES ASSUME Init PROVE TypeOK
    OBVIOUS
  <2>1. queue \in Seq(Nat) /\ receive \in Nat /\ arrived \in 0..MaxBytes
    BY BoundsAssumption DEF Init
  <2>. QED
    BY <2>1, SideFunctions, LoopPcs, CpuPcs, LocalTypes DEF Init, TypeOK
<1>2. TypeOK /\ [Next]_vars => TypeOK'
  BY TypeStep
<1>. QED
  BY <1>1, <1>2, PTL DEF Spec

-----------------------------------------------------------------------------
(* The buffer. *)

\* Only three steps touch the buffer, its counters or the pty.
LEMMA QuietSteps ==
    ASSUME [Next]_vars
    PROVE  \/ \E n \in 1..MaxChunk : DataEvent(n)
           \/ TimerResumesPty
           \/ ReadData
           \/ UNCHANGED <<data, reading>>
<1>1. ASSUME NEW c \in Side, LoopWork(c), ~TimerResumesPty PROVE UNCHANGED <<data, reading>>
  BY <1>1 DEF LoopWork, TimerCallback, Notified, TimerFires, TimerSeesByte, TimerSetsReady,
              TimerSetsFlag, TimerTestsEnabled, TimerTestsOther, TimerTriggers, data
<1>2. ASSUME AccessWork PROVE UNCHANGED <<data, reading>>
  BY <1>2 DEF AccessWork, DataClearsReady, DataClearsFlag, DataNotifies, WriteControlLoadsReady,
              WriteControlStoresFlag, WriteControlStoresEnable, WriteControlTestsWas,
              WriteControlTestsNow, ReadStatusTestsWrite, ReadStatusClearsWrite, CpuStep, data
<1>3. ASSUME AccessBegins, ~ReadData PROVE UNCHANGED <<data, reading>>
  BY <1>3 DEF AccessBegins, WriteData, ReadStatus, WriteControl, WriteLineControl, CpuStep, data
<1>4. ASSUME KvmTakesIrq \/ UNCHANGED vars PROVE UNCHANGED <<data, reading>>
  BY <1>4 DEF KvmTakesIrq, vars, data
<1>. QED
  BY <1>1, <1>2, <1>3, <1>4 DEF Next, Machine

BufferInv == FifoOrder /\ BackPressure

LEMMA BufferStep ==
    ASSUME TypeOK, BufferInv, [Next]_vars
    PROVE  BufferInv'
<1>. USE DEF BufferInv, FifoOrder, BackPressure
<1>0. Len(queue) \in Nat /\ receive \in Nat /\ arrived \in Nat /\ queue \in Seq(Nat)
  BY LenProperties, BoundsAssumption DEF TypeOK
<1>1. ASSUME NEW n \in 1..MaxChunk, DataEvent(n) PROVE BufferInv'
  <2>. DEFINE chunk == [i \in 1..n |-> arrived + i]
  <2>1. /\ queue = <<>> /\ Len(queue) = 0 /\ arrived = receive
    BY <1>0, <1>1, EmptySeq DEF DataEvent
  <2>2. /\ chunk \in Seq(Nat) /\ Len(chunk) = n
        /\ \A i \in 1..n : chunk[i] = arrived + i
    BY <1>0, Chunk, BoundsAssumption
  <2>3. queue' = chunk
    BY <1>1, <2>1, <2>2, ConcatEmptySeq DEF DataEvent
  <2>4. arrived' = arrived + n /\ receive' = receive /\ ~reading'
    BY <1>1 DEF DataEvent
  <2>. HIDE DEF chunk
  <2>. QED
    BY <1>0, <2>1, <2>2, <2>3, <2>4, BoundsAssumption
<1>2. CASE TimerResumesPty
  BY <1>2 DEF TimerResumesPty, data
<1>3. CASE ReadData
  <2>1. CASE queue = <<>>
    BY <1>3, <2>1 DEF ReadData, CpuStep
  <2>2. CASE queue # <<>>
    <3>1. /\ queue' = Tail(queue) /\ receive' = queue[1]
          /\ arrived' = arrived /\ reading' = reading /\ ~reading
      BY <1>0, <1>3, <2>2, Unqueue DEF ReadData, CpuStep
    <3>2. queue[1] = receive + 1
      BY <1>0, <2>2, Unqueue
    <3>3. Len(queue') = arrived' - receive' /\ Len(queue') <= MaxChunk
      BY <1>0, <2>2, <3>1, <3>2, Unqueue, BoundsAssumption
    <3>4. \A i \in 1..Len(queue') : queue'[i] = receive' + i
      BY <1>0, <2>2, <3>1, <3>2, Unqueue
    <3>. QED
      BY <3>1, <3>3, <3>4
  <2>. QED
    BY <2>1, <2>2
<1>4. CASE UNCHANGED <<data, reading>>
  BY <1>4 DEF data
<1>. QED
  BY <1>1, <1>2, <1>3, <1>4, QuietSteps

LEMMA BufferInvariant == Spec => []BufferInv
<1>1. Init => BufferInv
  BY BoundsAssumption DEF Init, BufferInv, FifoOrder, BackPressure
<1>2. TypeOK /\ BufferInv /\ [Next]_vars => BufferInv'
  BY BufferStep
<1>. QED
  BY <1>1, <1>2, TypeCorrect, PTL DEF Spec

\* The buffer is the bytes that arrived and were not read, in order.
THEOREM FifoCorrect == Spec => []FifoOrder
BY BufferInvariant, PTL DEF BufferInv

\* The pty is read only while the buffer is empty, and no more is buffered than
\* one chunk.
THEOREM BackPressureCorrect == Spec => []BackPressure
BY BufferInvariant, PTL DEF BufferInv

\* Every step of the UART is an arrival, the taking of the next byte, or neither.
LEMMA InputStep ==
    ASSUME TypeOK, BufferInv, TypeOK', [Next]_vars
    PROVE  [Input!Next]_<<arrived, receive>>
<1>0. Len(queue) \in Nat /\ receive \in Nat /\ arrived \in Nat /\ queue \in Seq(Nat)
  BY LenProperties, BoundsAssumption DEF TypeOK
<1>1. ASSUME NEW n \in 1..MaxChunk, DataEvent(n) PROVE Input!Arrive
  BY <1>0, <1>1, BoundsAssumption DEF DataEvent, Input!Arrive, TypeOK
<1>2. CASE ReadData
  <2>1. CASE queue = <<>>
    BY <1>2, <2>1 DEF ReadData, CpuStep
  <2>2. CASE queue # <<>>
    <3>1. receive' = receive + 1 /\ receive < arrived /\ arrived' = arrived
      BY <1>0, <1>2, <2>2, Unqueue DEF ReadData, CpuStep, BufferInv, FifoOrder
    <3>. QED
      BY <3>1 DEF Input!Next, Input!Take
  <2>. QED
    BY <2>1, <2>2
<1>3. CASE TimerResumesPty
  BY <1>3 DEF TimerResumesPty, data
<1>4. CASE UNCHANGED <<data, reading>>
  BY <1>4 DEF data
<1>. QED
  BY <1>1, <1>2, <1>3, <1>4, QuietSteps DEF Input!Next

\* Whatever the guest does it is given each byte once, in order.
THEOREM InputImplemented == Spec => InputOrder
<1>1. Init => Input!Init
  BY DEF Init, Input!Init
<1>2. TypeOK /\ BufferInv /\ TypeOK' /\ [Next]_vars => [Input!Next]_<<arrived, receive>>
  BY InputStep
<1>. QED
  BY <1>1, <1>2, TypeCorrect, BufferInvariant, PTL DEF Spec, InputOrder, Input!Spec

-----------------------------------------------------------------------------
(* Neither half is ever left without something to wake it. *)

Wakeup == RxWakeup /\ TxWakeup

LEMMA WakeupStep ==
    ASSUME TypeOK, Wakeup, [Next]_vars
    PROVE  Wakeup'
<1>. USE DEF Wakeup, RxWakeup, TxWakeup, TypeOK, Side, Idle, At
<1>1. ASSUME NEW n \in 1..MaxChunk, DataEvent(n) PROVE Wakeup'
  BY <1>1 DEF DataEvent, LoopStep
<1>2. ASSUME NEW c \in Side, LoopWork(c) PROVE Wakeup'
  <2>1. CASE Notified(c)
    BY <2>1 DEF Notified, LoopStep
  <2>2. CASE TimerFires(c)
    BY <2>2 DEF TimerFires, LoopStep
  <2>3. CASE TimerResumesPty \/ TimerSeesByte
    BY <2>3 DEF TimerResumesPty, TimerSeesByte, LoopStep
  <2>4. CASE TimerSetsReady(c)
    BY <2>4 DEF TimerSetsReady, LoopStep
  <2>5. CASE TimerSetsFlag(c) \/ TimerTestsEnabled(c) \/ TimerTestsOther(c) \/ TimerTriggers(c)
    BY <2>5 DEF TimerSetsFlag, TimerTestsEnabled, TimerTestsOther, TimerTriggers, LoopStep
  <2>. QED
    BY <1>2, <2>1, <2>2, <2>3, <2>4, <2>5 DEF LoopWork, TimerCallback
<1>3. ASSUME AccessWork PROVE Wakeup'
  <2>1. ASSUME NEW c \in Side, DataClearsReady(c) PROVE Wakeup'
    BY <2>1 DEF DataClearsReady, CpuStep
  <2>2. ASSUME NEW c \in Side, DataClearsFlag(c) PROVE Wakeup'
    BY <2>2 DEF DataClearsFlag, CpuStep
  <2>3. ASSUME NEW c \in Side, DataNotifies(c) PROVE Wakeup'
    BY <2>3 DEF DataNotifies, CpuStep
  <2>4. ASSUME NEW c \in Side, WriteControlLoadsReady(c) \/ WriteControlStoresFlag(c) PROVE Wakeup'
    BY <2>4 DEF WriteControlLoadsReady, WriteControlStoresFlag, CpuStep
  <2>5. ASSUME NEW w \in BOOLEAN, WriteControlStoresEnable(w) PROVE Wakeup'
    BY <2>5 DEF WriteControlStoresEnable, CpuStep
  <2>6. ASSUME NEW c \in Side, WriteControlTestsWas(c) \/ WriteControlTestsNow(c) PROVE Wakeup'
    BY <2>6 DEF WriteControlTestsWas, WriteControlTestsNow, CpuStep
  <2>7. CASE ReadStatusTestsWrite \/ ReadStatusClearsWrite
    BY <2>7 DEF ReadStatusTestsWrite, ReadStatusClearsWrite, CpuStep
  <2>. QED
    BY <1>3, <2>1, <2>2, <2>3, <2>4, <2>5, <2>6, <2>7 DEF AccessWork
<1>4. CASE AccessBegins
  BY <1>4 DEF AccessBegins, ReadData, WriteData, ReadStatus, WriteControl, WriteLineControl, CpuStep
<1>5. CASE KvmTakesIrq \/ UNCHANGED vars
  BY <1>5 DEF KvmTakesIrq, vars
<1>. QED
  BY <1>1, <1>2, <1>3, <1>4, <1>5 DEF Next, Machine

LEMMA WakeupInvariant == Spec => []Wakeup
<1>1. Init => Wakeup
  BY DEF Init, Wakeup, RxWakeup, TxWakeup, Neither, Side
<1>2. TypeOK /\ Wakeup /\ [Next]_vars => Wakeup'
  BY WakeupStep
<1>. QED
  BY <1>1, <1>2, TypeCorrect, PTL DEF Spec

\* The receiver always has something under way that ends in the pty being read
\* or in a byte offered to the guest.
THEOREM RxWakeupCorrect == Spec => []RxWakeup
BY WakeupInvariant, PTL DEF Wakeup

\* A busy transmitter always has something under way that makes it writable.
THEOREM TxWakeupCorrect == Spec => []TxWakeup
BY WakeupInvariant, PTL DEF Wakeup
=============================================================================
