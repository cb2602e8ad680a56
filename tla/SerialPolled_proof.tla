------------------------- MODULE SerialPolled_proof -------------------------
(* Proofs about SerialPolled: the polling guest's view of the UART. *)
EXTENDS SerialPolled, Serial16450_proof

\* A polling guest is one of the guests of Serial16450.
LEMMA PolledStep == PolledNext \/ UNCHANGED polledVars => [Next]_vars
<1>1. ASSUME NEW c \in Side, ReadLineStatus(c) PROVE UNCHANGED vars
  BY <1>1 DEF ReadLineStatus, CpuStep, vars, data
<1>2. ASSUME UNCHANGED polledVars PROVE UNCHANGED vars
  BY <1>2 DEF polledVars
<1>. QED
  BY <1>1, <1>2 DEF PolledNext, GuestWork, GuestReads, GuestWrites, Next, AccessBegins

THEOREM PolledIsAGuest == PolledSpec => Spec
<1>1. PolledInit => Init
  BY DEF PolledInit
<1>. QED
  BY <1>1, PolledStep, PTL DEF PolledSpec, Spec

\* The places of the tokens one by one, "exactly one" being "some" (the wakeup
\* invariants of Serial16450) and "no two".
RxCallback == loop \in {At("testEmpty", "read"), At("setReady", "read")}
TxCallback == loop = At("setReady", "write")
Accessing(c) == cpu \in {At("clearFlag", c), At("notify", c)}

RxAlone == /\ reading => ~timer["read"]
           /\ (reading \/ timer["read"]) => ~RxCallback
           /\ (reading \/ timer["read"] \/ RxCallback) => ~ready["read"]
           /\ (reading \/ timer["read"] \/ RxCallback \/ ready["read"]) => ~Accessing("read")
           /\ (reading \/ timer["read"] \/ RxCallback \/ ready["read"] \/ Accessing("read"))
                 => ~notify["read"]

TxAlone == /\ timer["write"] => ~TxCallback
           /\ (timer["write"] \/ TxCallback) => ~ready["write"]
           /\ (timer["write"] \/ TxCallback \/ ready["write"]) => ~Accessing("write")
           /\ (timer["write"] \/ TxCallback \/ ready["write"] \/ Accessing("write"))
                 => ~notify["write"]

LEMMA RxTokenIs == RxWakeup /\ RxAlone => OneRxToken
<1>. SUFFICES ASSUME RxWakeup, RxAlone PROVE OneRxToken
  OBVIOUS
<1>. USE DEF RxWakeup, RxAlone, RxCallback, Accessing, RxPlace, RxAt, OneRxToken
<1>1. CASE reading
  <2>. \A q \in RxPlace : RxAt(q) <=> q = "reading"
    BY <1>1
  <2>. QED
    OBVIOUS
<1>2. CASE timer["read"]
  <2>. \A q \in RxPlace : RxAt(q) <=> q = "timer"
    BY <1>2
  <2>. QED
    OBVIOUS
<1>3. CASE RxCallback
  <2>. \A q \in RxPlace : RxAt(q) <=> q = "callback"
    BY <1>3
  <2>. QED
    OBVIOUS
<1>4. CASE ready["read"]
  <2>. \A q \in RxPlace : RxAt(q) <=> q = "ready"
    BY <1>4
  <2>. QED
    OBVIOUS
<1>5. CASE Accessing("read")
  <2>. \A q \in RxPlace : RxAt(q) <=> q = "access"
    BY <1>5
  <2>. QED
    OBVIOUS
<1>6. CASE notify["read"]
  <2>. \A q \in RxPlace : RxAt(q) <=> q = "notify"
    BY <1>6
  <2>. QED
    OBVIOUS
<1>. QED
  BY <1>1, <1>2, <1>3, <1>4, <1>5, <1>6

LEMMA TxTokenIs == TxWakeup /\ TxAlone => OneTxToken
<1>. SUFFICES ASSUME TxWakeup, TxAlone PROVE OneTxToken
  OBVIOUS
<1>. USE DEF TxWakeup, TxAlone, TxCallback, Accessing, RxPlace, TxPlace, TxAt, OneTxToken
<1>1. CASE timer["write"]
  <2>. \A q \in TxPlace : TxAt(q) <=> q = "timer"
    BY <1>1
  <2>. QED
    OBVIOUS
<1>2. CASE TxCallback
  <2>. \A q \in TxPlace : TxAt(q) <=> q = "callback"
    BY <1>2
  <2>. QED
    OBVIOUS
<1>3. CASE ready["write"]
  <2>. \A q \in TxPlace : TxAt(q) <=> q = "ready"
    BY <1>3
  <2>. QED
    OBVIOUS
<1>4. CASE Accessing("write")
  <2>. \A q \in TxPlace : TxAt(q) <=> q = "access"
    BY <1>4
  <2>. QED
    OBVIOUS
<1>5. CASE notify["write"]
  <2>. \A q \in TxPlace : TxAt(q) <=> q = "notify"
    BY <1>5
  <2>. QED
    OBVIOUS
<1>. QED
  BY <1>1, <1>2, <1>3, <1>4, <1>5

\* The strengthening that makes the tokens inductive: the guest only ever makes
\* data accesses, each of them begun while its side was ready.
PolledAccess ==
    /\ guest \in GuestPc
    /\ cpu \in {Idle} \cup [access : {"clearReady", "clearFlag", "notify"}, side : Side]
    /\ \A c \in Side : /\ cpu = At("clearReady", c) => ready[c]
                       /\ guest = c => ready[c] /\ cpu = Idle
    /\ loop = At("setReady", "read") => queue # <<>>
    /\ (ready["read"] /\ cpu # At("clearReady", "read")) => queue # <<>>

PolledInv == PolledAccess /\ RxAlone /\ TxAlone

LEMMA PolledInvInit == PolledInit => PolledInv
BY DEF PolledInit, Init, PolledInv, PolledAccess, RxAlone, TxAlone, RxCallback, TxCallback,
       Accessing, GuestPc, Side, Neither, Idle, At

LEMMA PolledInvStep ==
    ASSUME TypeOK, TypeOK', PolledInv, PolledNext
    PROVE  PolledInv'
<1>. USE DEF PolledInv, PolledAccess, RxAlone, TxAlone, RxCallback, TxCallback, Accessing,
             Side, Idle, At, GuestPc, TypeOK
<1>1. ASSUME NEW n \in 1..MaxChunk, DataEvent(n), UNCHANGED guest PROVE PolledInv'
  BY <1>1 DEF DataEvent, LoopStep
<1>2. ASSUME NEW c \in Side, LoopWork(c), UNCHANGED guest PROVE PolledInv'
  <2>1. CASE Notified(c)
    <3>1. CASE c = "read"
      BY <1>2, <2>1, <3>1 DEF Notified, LoopStep, data
    <3>2. CASE c = "write"
      BY <1>2, <2>1, <3>2 DEF Notified, LoopStep, data
    <3>. QED
      BY <3>1, <3>2
  <2>2. CASE TimerFires(c)
    <3>1. CASE c = "read"
      BY <1>2, <2>2, <3>1 DEF TimerFires, LoopStep, data
    <3>2. CASE c = "write"
      BY <1>2, <2>2, <3>2 DEF TimerFires, LoopStep, data
    <3>. QED
      BY <3>1, <3>2
  <2>3. CASE TimerResumesPty
    BY <1>2, <2>3 DEF TimerResumesPty, LoopStep, data
  <2>4. CASE TimerSeesByte
    BY <1>2, <2>4 DEF TimerSeesByte, LoopStep, data
  <2>5. CASE TimerSetsReady(c)
    <3>1. CASE c = "read"
      BY <1>2, <2>5, <3>1 DEF TimerSetsReady, LoopStep, data
    <3>2. CASE c = "write"
      BY <1>2, <2>5, <3>2 DEF TimerSetsReady, LoopStep, data
    <3>. QED
      BY <3>1, <3>2
  <2>6. CASE TimerSetsFlag(c) \/ TimerTestsEnabled(c) \/ TimerTestsOther(c) \/ TimerTriggers(c)
    <3>1. UNCHANGED <<queue, ready, reading, timer, notify, cpu>>
      BY <2>6 DEF TimerSetsFlag, TimerTestsEnabled, TimerTestsOther, TimerTriggers, LoopStep, data
    <3>2. loop' \notin {At("testEmpty", "read"), At("setReady", "read"), At("setReady", "write")}
      BY <2>6 DEF TimerSetsFlag, TimerTestsEnabled, TimerTestsOther, TimerTriggers, LoopStep
    <3>. QED
      BY <1>2, <3>1, <3>2
  <2>. QED
    BY <1>2, <2>1, <2>2, <2>3, <2>4, <2>5, <2>6 DEF LoopWork, TimerCallback
<1>3. ASSUME NEW c \in Side, DataClearsReady(c), UNCHANGED guest PROVE PolledInv'
  <2>1. CASE c = "read"
    BY <1>3, <2>1 DEF DataClearsReady, CpuStep
  <2>2. CASE c = "write"
    BY <1>3, <2>2 DEF DataClearsReady, CpuStep
  <2>. QED
    BY <2>1, <2>2
<1>4. ASSUME NEW c \in Side, DataClearsFlag(c), UNCHANGED guest PROVE PolledInv'
  <2>1. CASE c = "read"
    BY <1>4, <2>1 DEF DataClearsFlag, CpuStep
  <2>2. CASE c = "write"
    BY <1>4, <2>2 DEF DataClearsFlag, CpuStep
  <2>. QED
    BY <2>1, <2>2
<1>5. ASSUME NEW c \in Side, DataNotifies(c), UNCHANGED guest PROVE PolledInv'
  <2>1. CASE c = "read"
    BY <1>5, <2>1 DEF DataNotifies, CpuStep
  <2>2. CASE c = "write"
    BY <1>5, <2>2 DEF DataNotifies, CpuStep
  <2>. QED
    BY <2>1, <2>2
<1>6. AccessWork => \E c \in Side : DataClearsReady(c) \/ DataClearsFlag(c) \/ DataNotifies(c)
  BY DEF AccessWork, WriteControlLoadsReady, WriteControlStoresFlag, WriteControlStoresEnable,
         WriteControlTestsWas, WriteControlTestsNow, ReadStatusTestsWrite, ReadStatusClearsWrite,
         CpuStep
<1>7. ASSUME NEW c \in Side, ReadLineStatus(c) PROVE PolledInv'
  <2>1. CASE c = "read"
    BY <1>7, <2>1 DEF ReadLineStatus, CpuStep
  <2>2. CASE c = "write"
    BY <1>7, <2>2 DEF ReadLineStatus, CpuStep
  <2>. QED
    BY <2>1, <2>2
<1>8. CASE GuestReads
  BY <1>8 DEF GuestReads, ReadData, CpuStep
<1>9. CASE GuestWrites
  BY <1>9 DEF GuestWrites, WriteData, CpuStep
<1>. QED
  BY <1>1, <1>2, <1>3, <1>4, <1>5, <1>6, <1>7, <1>8, <1>9 DEF PolledNext, GuestWork, Machine

LEMMA PolledInvariant == PolledSpec => [](TypeOK /\ PolledInv /\ Wakeup /\ BufferInv)
<1>1. PolledInv /\ TypeOK /\ TypeOK' /\ [PolledNext]_polledVars => PolledInv'
  <2>1. CASE PolledNext
    BY <2>1, PolledInvStep
  <2>2. CASE UNCHANGED polledVars
    BY <2>2 DEF polledVars, vars, data, PolledInv, PolledAccess, RxAlone, TxAlone, RxCallback,
                TxCallback, Accessing
  <2>. QED
    BY <2>1, <2>2
<1>. QED
  BY <1>1, PolledInvInit, PolledIsAGuest, TypeCorrect, WakeupInvariant, BufferInvariant, PTL
     DEF PolledSpec

\* Under a polling guest the receiver is in exactly one place of its cycle.
THEOREM OneRxTokenCorrect == PolledSpec => []OneRxToken
<1>1. PolledInv /\ Wakeup => OneRxToken
  BY RxTokenIs DEF PolledInv, Wakeup
<1>. QED
  BY <1>1, PolledInvariant, PTL

\* And so is the transmitter.
THEOREM OneTxTokenCorrect == PolledSpec => []OneTxToken
<1>1. PolledInv /\ Wakeup => OneTxToken
  BY TxTokenIs DEF PolledInv, Wakeup
<1>. QED
  BY <1>1, PolledInvariant, PTL

\* The receive bit a polling guest acts on is never set over an empty buffer.
THEOREM ReadableIsTrueCorrect == PolledSpec => []ReadableIsTrue
<1>1. PolledInv => ReadableIsTrue
  BY DEF PolledInv, PolledAccess, ReadableIsTrue, Side
<1>. QED
  BY <1>1, PolledInvariant, PTL

\* A polling guest never reads a stale byte: each of its data reads yields the
\* successor of the byte before.
THEOREM EachReadIsNewCorrect == PolledSpec => EachReadIsNew
<1>1. TypeOK /\ PolledInv /\ BufferInv => [GuestReads => receive' = receive + 1]_polledVars
  <2>. SUFFICES ASSUME TypeOK, PolledInv, BufferInv, GuestReads PROVE receive' = receive + 1
    OBVIOUS
  <2>1. queue # <<>> /\ queue \in Seq(Nat)
    BY DEF GuestReads, PolledInv, PolledAccess, Side, Idle, At, TypeOK
  <2>2. receive' = queue[1] /\ Len(queue) \in Nat \ {0}
    BY <2>1, Unqueue DEF GuestReads, ReadData
  <2>. QED
    BY <2>2 DEF BufferInv, FifoOrder
<1>. QED
  BY <1>1, PolledInvariant, PTL DEF EachReadIsNew
=============================================================================
