--------------------------- MODULE SerialIrq_proof ---------------------------
(* Proofs about SerialIrq: the handler's view of the UART, for every number   *)
(* of bytes, every chunk size and both ways of testing the flags.             *)
EXTENDS SerialIrq, Serial16450_proof

\* With a driver that does not rearm the enables stay set, the registers are reached only
\* by status reads and data accesses, and the handler acts on the status just read.
HandlerAccess ==
    /\ ~dlab /\ \A c \in Side : enabled[c]
    /\ handler \notin {"disable", "enable"}
    /\ cpu \in {Idle} \cup [access : {"identify", "clearReady", "clearFlag", "notify"}, side : Side]
    /\ cpu = At("identify", "read") => handler = "identify"
    /\ handler = "read" => cpu = Idle /\ flag["read"]
    /\ handler = "write" => cpu \in {Idle, At("identify", "write")} /\ (cpu = Idle => ~flag["write"])

\* The places of a received byte's turn, at most one of them at a time ...
InCallback(c) == loop \in {At("testEmpty", c), At("setReady", c), At("setFlag", c)}
InAccess(c)   == cpu \in {At("clearReady", c), At("clearFlag", c), At("notify", c)}
Flagged       == flag["read"] /\ cpu \notin {At("clearReady", "read"), At("clearFlag", "read")}

RxTurn == /\ reading => ~timer["read"]
          /\ (reading \/ timer["read"]) => ~InCallback("read")
          /\ (reading \/ timer["read"] \/ InCallback("read")) => ~Flagged
          /\ (reading \/ timer["read"] \/ InCallback("read") \/ Flagged) => ~InAccess("read")
          /\ (reading \/ timer["read"] \/ InCallback("read") \/ Flagged \/ InAccess("read"))
                => ~notify["read"]

\* ... and of the transmitter's.
Writable == flag["write"] \/ handler = "write"

TxTurn == /\ timer["write"] => ~InCallback("write")
          /\ (timer["write"] \/ InCallback("write")) => ~Writable
          /\ (timer["write"] \/ InCallback("write") \/ Writable) => ~InAccess("write")
          /\ (timer["write"] \/ InCallback("write") \/ Writable \/ InAccess("write"))
                => ~notify["write"]

\* What is flagged, or about to be, is so.
Truthful ==
    /\ (Flagged \/ loop \in {At("setReady", "read"), At("setFlag", "read")}) => queue # <<>>
    /\ (Writable \/ loop = At("setFlag", "write")) => ready["write"]

TurnInv    == HandlerAccess /\ RxTurn /\ TxTurn /\ Truthful
HandlerInv == ~rearm => TurnInv

-----------------------------------------------------------------------------
\* The handler is one of the guests of Serial16450, one that starts with interrupts enabled.
LEMMA HandlerIsAGuest == [IrqNext]_irqVars => [Next]_vars /\ rearm' = rearm
<1>. SUFFICES ASSUME [IrqNext]_irqVars PROVE [Next]_vars /\ rearm' = rearm
  OBVIOUS
<1>1. CASE UartStep
  BY <1>1 DEF UartStep, Next
<1>2. CASE KvmRaisesLine
  BY <1>2 DEF KvmRaisesLine, Next
<1>3. CASE GuestStep
  BY <1>3 DEF GuestStep, TakeInterrupt, HandlerReadsStatus, HandlerReadsData, HandlerWritesData,
              HandlerHasNothingToSend, HandlerEnds, HandlerRearms, Next, AccessBegins
<1>4. CASE UNCHANGED irqVars
  BY <1>4 DEF irqVars
<1>. QED
  BY <1>1, <1>2, <1>3, <1>4 DEF IrqNext

LEMMA UartInvariant == IrqSpec => [](TypeOK /\ BufferInv)
<1>1. IrqInit => TypeOK /\ BufferInv
  <2>. SUFFICES ASSUME IrqInit PROVE TypeOK /\ BufferInv
    OBVIOUS
  <2>1. queue \in Seq(Nat) /\ receive \in Nat /\ arrived \in 0..MaxBytes
    BY BoundsAssumption DEF IrqInit
  <2>2. [Neither EXCEPT !["write"] = TRUE] \in [Side -> BOOLEAN] /\ [c \in Side |-> TRUE] \in [Side -> BOOLEAN]
    BY SideFunctions
  <2>3. TypeOK
    BY <2>1, <2>2, SideFunctions, LoopPcs, CpuPcs, LocalTypes DEF IrqInit, TypeOK
  <2>4. BufferInv
    BY BoundsAssumption DEF IrqInit, BufferInv, FifoOrder, BackPressure
  <2>. QED
    BY <2>3, <2>4
<1>2. TypeOK /\ BufferInv /\ [Next]_vars => (TypeOK /\ BufferInv)'
  BY TypeStep, BufferStep
<1>. QED
  BY <1>1, <1>2, HandlerIsAGuest, PTL DEF IrqSpec

-----------------------------------------------------------------------------
LEMMA TurnInit == IrqInit => TurnInv
BY DEF IrqInit, TurnInv, HandlerAccess, RxTurn, TxTurn, Truthful, InCallback, InAccess, Flagged,
       Writable, Neither, Side, Idle, At

\* The loop thread: it touches nothing that the handler is at.
LEMMA TurnLoop ==
    ASSUME TypeOK, TypeOK', TurnInv, UNCHANGED handler,
           (\E n \in 1..MaxChunk : DataEvent(n)) \/ (\E c \in Side : LoopWork(c))
    PROVE  TurnInv'
<1>. USE DEF TurnInv, HandlerAccess, RxTurn, TxTurn, Truthful, InCallback, InAccess, Flagged,
             Writable, Side, Idle, At, TypeOK
<1>1. ASSUME NEW n \in 1..MaxChunk, DataEvent(n) PROVE TurnInv'
  BY <1>1 DEF DataEvent, LoopStep
<1>2. ASSUME NEW c \in Side, Notified(c) PROVE TurnInv'
  <2>1. CASE c = "read"
    BY <1>2, <2>1 DEF Notified, LoopStep, data
  <2>2. CASE c = "write"
    BY <1>2, <2>2 DEF Notified, LoopStep, data
  <2>. QED
    BY <2>1, <2>2
<1>3. ASSUME NEW c \in Side, TimerFires(c) PROVE TurnInv'
  <2>1. CASE c = "read"
    BY <1>3, <2>1 DEF TimerFires, LoopStep, data
  <2>2. CASE c = "write"
    BY <1>3, <2>2 DEF TimerFires, LoopStep, data
  <2>. QED
    BY <2>1, <2>2
<1>4. CASE TimerResumesPty
  BY <1>4 DEF TimerResumesPty, LoopStep, data
<1>5. CASE TimerSeesByte
  BY <1>5 DEF TimerSeesByte, LoopStep, data
<1>6. ASSUME NEW c \in Side, TimerSetsReady(c) PROVE TurnInv'
  <2>1. CASE c = "read"
    BY <1>6, <2>1 DEF TimerSetsReady, LoopStep, data
  <2>2. CASE c = "write"
    BY <1>6, <2>2 DEF TimerSetsReady, LoopStep, data
  <2>. QED
    BY <2>1, <2>2
<1>7. ASSUME NEW c \in Side, TimerSetsFlag(c) PROVE TurnInv'
  <2>1. CASE c = "read"
    BY <1>7, <2>1 DEF TimerSetsFlag, LoopStep, data
  <2>2. CASE c = "write"
    BY <1>7, <2>2 DEF TimerSetsFlag, LoopStep, data
  <2>. QED
    BY <2>1, <2>2
<1>8. ASSUME NEW c \in Side, TimerTestsEnabled(c) \/ TimerTestsOther(c) \/ TimerTriggers(c)
      PROVE  TurnInv'
  <2>1. UNCHANGED <<queue, ready, flag, enabled, dlab, reading, timer, notify, cpu>>
    BY <1>8 DEF TimerTestsEnabled, TimerTestsOther, TimerTriggers, LoopStep, data
  <2>2. /\ loop' \notin {At("testEmpty", "read"), At("setReady", "read"), At("setFlag", "read")}
        /\ loop' \notin {At("testEmpty", "write"), At("setReady", "write"), At("setFlag", "write")}
    BY <1>8 DEF TimerTestsEnabled, TimerTestsOther, TimerTriggers, LoopStep
  <2>. QED
    BY <2>1, <2>2
<1>. QED
  BY <1>1, <1>2, <1>3, <1>4, <1>5, <1>6, <1>7, <1>8 DEF LoopWork, TimerCallback

\* The rest of an access; the status read moves the handler on.
LEMMA TurnAccess ==
    ASSUME TypeOK, TypeOK', TurnInv, UartStep, AccessWork
    PROVE  TurnInv'
<1>. USE DEF TurnInv, HandlerAccess, RxTurn, TxTurn, Truthful, InCallback, InAccess, Flagged,
             Writable, Side, Idle, At, TypeOK
<1>1. ASSUME NEW c \in Side, DataClearsReady(c) PROVE TurnInv'
  <2>0. UNCHANGED handler
    BY <1>1 DEF UartStep, DataClearsReady, CpuStep
  <2>1. CASE c = "read"
    BY <1>1, <2>0, <2>1 DEF DataClearsReady, CpuStep
  <2>2. CASE c = "write"
    BY <1>1, <2>0, <2>2 DEF DataClearsReady, CpuStep
  <2>. QED
    BY <2>1, <2>2
<1>2. ASSUME NEW c \in Side, DataClearsFlag(c) PROVE TurnInv'
  <2>0. UNCHANGED handler
    BY <1>2 DEF UartStep, DataClearsFlag, CpuStep
  <2>1. CASE c = "read"
    BY <1>2, <2>0, <2>1 DEF DataClearsFlag, CpuStep
  <2>2. CASE c = "write"
    BY <1>2, <2>0, <2>2 DEF DataClearsFlag, CpuStep
  <2>. QED
    BY <2>1, <2>2
<1>3. ASSUME NEW c \in Side, DataNotifies(c) PROVE TurnInv'
  <2>0. UNCHANGED handler
    BY <1>3 DEF UartStep, DataNotifies, CpuStep
  <2>1. CASE c = "read"
    BY <1>3, <2>0, <2>1 DEF DataNotifies, CpuStep
  <2>2. CASE c = "write"
    BY <1>3, <2>0, <2>2 DEF DataNotifies, CpuStep
  <2>. QED
    BY <2>1, <2>2
<1>4. CASE ReadStatusTestsWrite
  <2>1. CASE Pending("write")
    BY <1>4, <2>1 DEF ReadStatusTestsWrite, CpuStep, UartStep, Pending
  <2>2. CASE ~Pending("write")
    BY <1>4, <2>2 DEF ReadStatusTestsWrite, CpuStep, UartStep
  <2>. QED
    BY <2>1, <2>2
<1>5. CASE ReadStatusClearsWrite
  BY <1>5 DEF ReadStatusClearsWrite, CpuStep, UartStep
<1>6. \/ \E c \in Side : DataClearsReady(c) \/ DataClearsFlag(c) \/ DataNotifies(c)
      \/ ReadStatusTestsWrite \/ ReadStatusClearsWrite
  BY DEF AccessWork, WriteControlLoadsReady, WriteControlStoresFlag, WriteControlStoresEnable,
         WriteControlTestsWas, WriteControlTestsNow, CpuStep
<1>. QED
  BY <1>1, <1>2, <1>3, <1>4, <1>5, <1>6

LEMMA TurnGuest ==
    ASSUME TypeOK, TypeOK', TurnInv, ~rearm, GuestStep
    PROVE  TurnInv'
<1>. USE DEF TurnInv, HandlerAccess, RxTurn, TxTurn, Truthful, InCallback, InAccess, Flagged,
             Writable, Side, Idle, At, TypeOK
<1>1. CASE TakeInterrupt
  BY <1>1 DEF TakeInterrupt, vars, data
<1>2. CASE HandlerReadsStatus
  <2>1. CASE Pending("read")
    BY <1>2, <2>1 DEF HandlerReadsStatus, ReadStatus, CpuStep, Pending
  <2>2. CASE ~Pending("read")
    BY <1>2, <2>2 DEF HandlerReadsStatus, ReadStatus, CpuStep
  <2>. QED
    BY <2>1, <2>2
<1>3. CASE HandlerReadsData
  BY <1>3 DEF HandlerReadsData, ReadData, CpuStep
<1>4. CASE HandlerWritesData
  BY <1>4 DEF HandlerWritesData, WriteData, CpuStep
<1>5. CASE HandlerHasNothingToSend
  BY <1>5 DEF HandlerHasNothingToSend, vars, data
<1>6. CASE HandlerEnds
  BY <1>6 DEF HandlerEnds, vars, data
<1>7. CASE HandlerRearms
  BY <1>7 DEF HandlerRearms
<1>. QED
  BY <1>1, <1>2, <1>3, <1>4, <1>5, <1>6, <1>7 DEF GuestStep

LEMMA HandlerInvariant == IrqSpec => []HandlerInv
<1>1. TypeOK /\ TypeOK' /\ HandlerInv /\ [IrqNext]_irqVars => HandlerInv'
  <2>. SUFFICES ASSUME TypeOK, TypeOK', HandlerInv, [IrqNext]_irqVars, ~rearm PROVE TurnInv'
    BY HandlerIsAGuest DEF HandlerInv
  <2>1. TurnInv
    BY DEF HandlerInv
  <2>2. CASE UartStep /\ AccessWork
    BY <2>1, <2>2, TurnAccess
  <2>3. CASE UartStep /\ ~AccessWork
    <3>1. (\E n \in 1..MaxChunk : DataEvent(n)) \/ (\E c \in Side : LoopWork(c))
      BY <2>3 DEF UartStep, Machine
    <3>2. cpu' = cpu
      BY <3>1 DEF DataEvent, LoopWork, TimerCallback, Notified, TimerFires, TimerResumesPty,
                  TimerSeesByte, TimerSetsReady, TimerSetsFlag, TimerTestsEnabled,
                  TimerTestsOther, TimerTriggers, LoopStep
    <3>. QED
      BY <2>1, <2>3, <3>1, <3>2, TurnLoop DEF UartStep
  <2>4. CASE KvmRaisesLine
    BY <2>1, <2>4 DEF KvmRaisesLine, KvmTakesIrq, data, TurnInv, HandlerAccess, RxTurn, TxTurn,
                      Truthful, InCallback, InAccess, Flagged, Writable
  <2>5. CASE GuestStep
    BY <2>1, <2>5, TurnGuest
  <2>6. CASE UNCHANGED irqVars
    BY <2>1, <2>6 DEF irqVars, vars, data, TurnInv, HandlerAccess, RxTurn, TxTurn,
                      Truthful, InCallback, InAccess, Flagged, Writable
  <2>. QED
    BY <2>2, <2>3, <2>4, <2>5, <2>6 DEF IrqNext
<1>2. IrqInit => HandlerInv
  BY TurnInit DEF HandlerInv
<1>. QED
  BY <1>1, <1>2, UartInvariant, PTL DEF IrqSpec

-----------------------------------------------------------------------------
\* The UART's invariants hold for an interrupt-driven guest, which starts with interrupts
\* enabled: the buffer is in order, the pty is read only while it is empty, and each half has
\* something under way that wakes it.
THEOREM UartCorrect == IrqSpec => [](TypeOK /\ FifoOrder /\ BackPressure /\ RxWakeup /\ TxWakeup)
<1>1. IrqInit => Wakeup
  BY DEF IrqInit, Wakeup, RxWakeup, TxWakeup, Neither, Side
<1>2. TypeOK /\ Wakeup /\ [Next]_vars => Wakeup'
  BY WakeupStep
<1>3. BufferInv => FifoOrder /\ BackPressure
  BY DEF BufferInv
<1>4. Wakeup => RxWakeup /\ TxWakeup
  BY DEF Wakeup
<1>. QED
  BY <1>1, <1>2, <1>3, <1>4, UartInvariant, HandlerIsAGuest, PTL DEF IrqSpec

\* Such a guest, too, is given the terminal's bytes in order and once, rearming or not.
THEOREM IrqInputImplemented == IrqSpec => InputOrder
<1>1. IrqInit => Input!Init
  BY DEF IrqInit, Input!Init
<1>2. TypeOK /\ BufferInv /\ TypeOK' /\ [Next]_vars => [Input!Next]_<<arrived, receive>>
  BY InputStep
<1>. QED
  BY <1>1, <1>2, UartInvariant, HandlerIsAGuest, PTL DEF IrqSpec, InputOrder, Input!Spec

\* A handler that does not rearm and reads data because the status said so gets the next
\* byte, never a stale one.
THEOREM HandlerReadIsNewCorrect == IrqSpec => HandlerReadIsNew
<1>1. TypeOK /\ BufferInv /\ HandlerInv => [HandlerReadsData /\ ~rearm => receive' = receive + 1]_irqVars
  <2>. SUFFICES ASSUME TypeOK, BufferInv, HandlerInv, HandlerReadsData, ~rearm
                PROVE  receive' = receive + 1
    OBVIOUS
  <2>1. Flagged
    BY DEF HandlerReadsData, HandlerInv, TurnInv, HandlerAccess, Flagged, Idle, At
  <2>2. queue # <<>> /\ queue \in Seq(Nat)
    BY <2>1 DEF HandlerInv, TurnInv, Truthful, TypeOK
  <2>3. receive' = queue[1] /\ Len(queue) \in Nat \ {0}
    BY <2>2, Unqueue DEF HandlerReadsData, ReadData
  <2>. QED
    BY <2>3 DEF BufferInv, FifoOrder
<1>. QED
  BY <1>1, UartInvariant, HandlerInvariant, PTL DEF HandlerReadIsNew

\* A handler that does not rearm and writes data because the status said so finds the
\* transmitter ready.
THEOREM HandlerWriteIsPacedCorrect == IrqSpec => HandlerWriteIsPaced
<1>1. HandlerInv => [HandlerWritesData /\ ~rearm => ready["write"]]_irqVars
  BY DEF HandlerInv, TurnInv, Truthful, Writable, HandlerWritesData
<1>. QED
  BY <1>1, HandlerInvariant, PTL DEF HandlerWriteIsPaced

=============================================================================
