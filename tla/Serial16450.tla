---------------------------- MODULE Serial16450 ----------------------------
(***************************************************************************)
(* One emulated 16450 UART (src/src/hardware/Serial.cpp).                  *)
(*                                                                         *)
(* Two threads share it.  The CPU thread runs ioread8 and iowrite8 for the *)
(* guest, each under the mutex.  The uvw loop thread runs the callbacks of *)
(* the pty, of two one-shot timers and of two async handles, one callback  *)
(* at a time; it takes the mutex only around the queue, and reads and      *)
(* writes the register booleans without it.  An action is therefore one    *)
(* access to those booleans: the mutex is held exactly while cpu # Idle,   *)
(* and a locked section of the loop thread is one action enabled when the  *)
(* CPU thread is idle.                                                     *)
(*                                                                         *)
(* The receiving and the sending half have the same registers and nearly   *)
(* the same code, so both are functions of a Side: ready is readable and   *)
(* writable, flag the two interrupt flags, enabled the two enables, timer  *)
(* and notify the two timers and async handles.                            *)
(*                                                                         *)
(* Received bytes are numbered 1, 2, 3, ... in the order the terminal sent *)
(* them, so a byte's value tells lost, repeated and reordered bytes apart. *)
(* Times are abstracted: a started timer fires at any later moment.        *)
(***************************************************************************)
EXTENDS Naturals, Sequences

CONSTANTS MaxBytes,   \* bytes the terminal sends in a behaviour
          MaxChunk,   \* most bytes one data_event carries (uv's read buffer)
          Builds      \* how the compiled code may test a flag it has just stored

ASSUME BoundsAssumption == MaxBytes \in Nat /\ MaxChunk \in Nat \ {0}
ASSUME BuildsAssumption == Builds \subseteq {"reload", "reuse"}

VARIABLES queue, receive, arrived, ready, flag, enabled, dlab,
          reading, timer, notify, irqfd, loop, cpu, local

data == <<queue, receive, arrived>>
vars == <<data, ready, flag, enabled, dlab, reading, timer, notify, irqfd, loop, cpu, local>>

Side == {"read", "write"}
Other(c) == IF c = "read" THEN "write" ELSE "read"
Neither == [c \in Side |-> FALSE]

\* Where a thread is: outside the UART, or before the named access of a side.
At(access, c) == [access |-> access, side |-> c]
Idle   == At("idle", "read")
LoopPc == {Idle, At("testEmpty", "read")} \cup
          [access : {"setReady", "setFlag", "testEnabled", "testOther", "testFlag"}, side : Side]
CpuPc  == {Idle, At("storeEnable", "write")} \cup
          [access : {"clearReady", "clearFlag", "notify", "loadReady", "storeFlag",
                     "testWas", "testNow", "identify"}, side : Side]

\* The locals of iowrite8: the previous enables, and the values loaded for the flags.
Locals  == [was : [Side -> BOOLEAN], seen : [Side -> BOOLEAN]]
NoLocal == [was |-> Neither, seen |-> Neither]

TypeOK ==
    /\ queue \in Seq(Nat) /\ receive \in Nat /\ arrived \in 0..MaxBytes
    /\ ready \in [Side -> BOOLEAN] /\ flag \in [Side -> BOOLEAN]
    /\ enabled \in [Side -> BOOLEAN] /\ dlab \in BOOLEAN
    /\ reading \in BOOLEAN /\ timer \in [Side -> BOOLEAN] /\ notify \in [Side -> BOOLEAN]
    /\ irqfd \in BOOLEAN /\ loop \in LoopPc /\ cpu \in CpuPc /\ local \in Locals

Init ==
    /\ queue = <<>> /\ receive = 0 /\ arrived = 0
    /\ ready = [Neither EXCEPT !["write"] = TRUE]
    /\ flag = Neither /\ enabled = Neither /\ dlab = FALSE
    /\ reading = TRUE /\ timer = Neither /\ notify = Neither
    /\ irqfd = FALSE /\ loop = Idle /\ cpu = Idle /\ local = NoLocal

\* The conditions an interrupt status read would report.
Pending(c) == enabled[c] /\ flag[c]

LoopStep(from, to) == loop = from /\ loop' = to /\ UNCHANGED <<cpu, local, dlab, enabled>>
CpuStep(from, to)  == cpu = from /\ cpu' = to /\ UNCHANGED <<loop, arrived, reading, timer>>

-----------------------------------------------------------------------------
(* The loop thread. *)

\* Slip: handle.stop() is left out.
DataEventKeepsReading(n) ==
    /\ LoopStep(Idle, Idle)
    /\ cpu = Idle /\ reading /\ arrived + n <= MaxBytes
    /\ queue' = queue \o [i \in 1..n |-> arrived + i]
    /\ arrived' = arrived + n
    /\ timer' = [timer EXCEPT !["read"] = TRUE]
    /\ UNCHANGED <<receive, ready, flag, reading, notify, irqfd>>

\* The pty's data_event with n bytes: queue them, stop reading, start the timer.
DataEvent(n) ==
    /\ LoopStep(Idle, Idle)
    /\ cpu = Idle /\ reading /\ arrived + n <= MaxBytes
    /\ queue' = queue \o [i \in 1..n |-> arrived + i]
    /\ arrived' = arrived + n
    /\ reading' = FALSE /\ timer' = [timer EXCEPT !["read"] = TRUE]
    /\ UNCHANGED <<receive, ready, flag, notify, irqfd>>

\* Slip: the second handle's callback, a copy of the first, starts readTimer too.
NotifiedStartsRead(c) ==
    /\ LoopStep(Idle, Idle)
    /\ notify[c] /\ notify' = [notify EXCEPT ![c] = FALSE]
    /\ timer' = [timer EXCEPT !["read"] = TRUE]
    /\ UNCHANGED <<data, ready, flag, reading, irqfd>>

\* An async handle: start the timer unless it is already running.
Notified(c) ==
    /\ LoopStep(Idle, Idle)
    /\ notify[c] /\ notify' = [notify EXCEPT ![c] = FALSE]
    /\ timer' = [timer EXCEPT ![c] = TRUE]
    /\ UNCHANGED <<data, ready, flag, reading, irqfd>>

\* Slips: a timer with a repeat interval; both timers given the reader's callback.
TimerFiresRepeating(c) ==
    /\ LoopStep(Idle, IF c = "read" THEN At("testEmpty", c) ELSE At("setReady", c))
    /\ timer[c]
    /\ UNCHANGED <<data, ready, flag, reading, timer, notify, irqfd>>

TimerFiresReader(c) ==
    /\ LoopStep(Idle, At("testEmpty", c))
    /\ timer[c] /\ timer' = [timer EXCEPT ![c] = FALSE]
    /\ UNCHANGED <<data, ready, flag, reading, notify, irqfd>>

TimerFires(c) ==
    /\ LoopStep(Idle, IF c = "read" THEN At("testEmpty", c) ELSE At("setReady", c))
    /\ timer[c] /\ timer' = [timer EXCEPT ![c] = FALSE]
    /\ UNCHANGED <<data, ready, flag, reading, notify, irqfd>>

\* The locked look at the queue: read the pty again, or go on to the flags.
TimerResumesPty ==
    /\ LoopStep(At("testEmpty", "read"), Idle)
    /\ cpu = Idle /\ queue = <<>> /\ reading' = TRUE
    /\ UNCHANGED <<data, ready, flag, timer, notify, irqfd>>

\* Slip: the callback does not look at the queue.
TimerAssumesByte ==
    /\ LoopStep(At("testEmpty", "read"), At("setReady", "read"))
    /\ cpu = Idle
    /\ UNCHANGED <<data, ready, flag, reading, timer, notify, irqfd>>

TimerSeesByte ==
    /\ LoopStep(At("testEmpty", "read"), At("setReady", "read"))
    /\ cpu = Idle /\ queue # <<>>
    /\ UNCHANGED <<data, ready, flag, reading, timer, notify, irqfd>>

TimerSetsReady(c) ==
    /\ LoopStep(At("setReady", c), At("setFlag", c))
    /\ ready' = [ready EXCEPT ![c] = TRUE]
    /\ UNCHANGED <<data, flag, reading, timer, notify, irqfd>>

\* Slip: the reader's callback, a copy of the writer's, sets the writer's flag.
TimerSetsWriteFlag(c) ==
    /\ LoopStep(At("setFlag", c), At("testEnabled", c))
    /\ flag' = [flag EXCEPT !["write"] = TRUE]
    /\ UNCHANGED <<data, ready, reading, timer, notify, irqfd>>

TimerSetsFlag(c) ==
    /\ LoopStep(At("setFlag", c), At("testEnabled", c))
    /\ flag' = [flag EXCEPT ![c] = TRUE]
    /\ UNCHANGED <<data, ready, reading, timer, notify, irqfd>>

TimerTestsEnabled(c) ==
    /\ LoopStep(At("testEnabled", c), IF enabled[c] THEN At("testOther", c) ELSE Idle)
    /\ UNCHANGED <<data, ready, flag, reading, timer, notify, irqfd>>

\* No new interrupt while the other condition is enabled and flagged: two accesses.
TimerTestsOther(c) ==
    /\ LoopStep(At("testOther", c), IF enabled[Other(c)] THEN At("testFlag", c) ELSE Idle)
    /\ irqfd' = (irqfd \/ ~enabled[Other(c)])
    /\ UNCHANGED <<data, ready, flag, reading, timer, notify>>

TimerTriggers(c) ==
    /\ LoopStep(At("testFlag", c), Idle)
    /\ irqfd' = (irqfd \/ ~flag[Other(c)])
    /\ UNCHANGED <<data, ready, flag, reading, timer, notify>>

-----------------------------------------------------------------------------
(* The CPU thread: register accesses, all of them under the mutex. *)

\* Slip: the newest byte is taken.
ReadDataNewest ==
    /\ CpuStep(Idle, At("clearReady", "read"))
    /\ ~dlab
    /\ IF queue = <<>> THEN UNCHANGED <<queue, receive>>
       ELSE /\ receive' = queue[Len(queue)]
            /\ queue' = SubSeq(queue, 1, Len(queue) - 1)
    /\ UNCHANGED <<ready, flag, enabled, dlab, notify, irqfd, local>>

\* Data read (DLAB clear): take the oldest byte, or keep the last one.
ReadData ==
    /\ CpuStep(Idle, At("clearReady", "read"))
    /\ ~dlab
    /\ IF queue = <<>> THEN UNCHANGED <<queue, receive>>
                       ELSE queue' = Tail(queue) /\ receive' = Head(queue)
    /\ UNCHANGED <<ready, flag, enabled, dlab, notify, irqfd, local>>

\* Data write (DLAB clear): pty->write, then the transmitter is busy.
WriteData ==
    /\ CpuStep(Idle, At("clearReady", "write"))
    /\ ~dlab
    /\ UNCHANGED <<queue, receive, ready, flag, enabled, dlab, notify, irqfd, local>>

\* What both data accesses go on to do to their own side.
DataClearsReady(c) ==
    /\ CpuStep(At("clearReady", c), At("clearFlag", c))
    /\ ready' = [ready EXCEPT ![c] = FALSE]
    /\ UNCHANGED <<queue, receive, flag, enabled, dlab, notify, irqfd, local>>

\* Slips in the next two steps: the flag stays set; writeNotify is sent by both.
DataKeepsFlag(c) ==
    /\ CpuStep(At("clearFlag", c), At("notify", c))
    /\ UNCHANGED <<queue, receive, ready, flag, enabled, dlab, notify, irqfd, local>>

DataNotifiesWriter(c) ==
    /\ CpuStep(At("notify", c), Idle)
    /\ notify' = [notify EXCEPT !["write"] = TRUE]
    /\ UNCHANGED <<queue, receive, ready, flag, enabled, dlab, irqfd, local>>

DataClearsFlag(c) ==
    /\ CpuStep(At("clearFlag", c), At("notify", c))
    /\ flag' = [flag EXCEPT ![c] = FALSE]
    /\ UNCHANGED <<queue, receive, ready, enabled, dlab, notify, irqfd, local>>

DataNotifies(c) ==
    /\ CpuStep(At("notify", c), Idle)
    /\ notify' = [notify EXCEPT ![c] = TRUE]
    /\ UNCHANGED <<queue, receive, ready, flag, enabled, dlab, irqfd, local>>

\* Interrupt control write (DLAB clear).  Only the CPU thread writes the enables,
\* so saving both and storing the first one is a single action.
WriteControl(r) ==
    /\ CpuStep(Idle, At("storeEnable", "write"))
    /\ ~dlab
    /\ local' = [was |-> enabled, seen |-> Neither]
    /\ enabled' = [enabled EXCEPT !["read"] = r]
    /\ UNCHANGED <<queue, receive, ready, flag, dlab, notify, irqfd>>

\* The next access: a flag is set from its condition only where enabled.
AfterFlag(c, e) == IF c = "read" /\ e["write"] THEN At("loadReady", "write")
                                               ELSE At("testWas", "read")

WriteControlStoresEnable(w) ==
    /\ enabled' = [enabled EXCEPT !["write"] = w]
    /\ CpuStep(At("storeEnable", "write"),
               IF enabled["read"] THEN At("loadReady", "read") ELSE AfterFlag("read", enabled'))
    /\ UNCHANGED <<queue, receive, ready, flag, dlab, notify, irqfd, local>>

WriteControlLoadsReady(c) ==
    /\ CpuStep(At("loadReady", c), At("storeFlag", c))
    /\ local' = [local EXCEPT !.seen[c] = ready[c]]
    /\ UNCHANGED <<queue, receive, ready, flag, enabled, dlab, notify, irqfd>>

WriteControlStoresFlag(c) ==
    /\ CpuStep(At("storeFlag", c), AfterFlag(c, enabled))
    /\ flag' = [flag EXCEPT ![c] = local.seen[c]]
    /\ UNCHANGED <<queue, receive, ready, enabled, dlab, notify, irqfd, local>>

\* What a test of the flag sees: a build reloads the boolean, or reuses the value
\* it has stored there.  Each flag is tested twice.
Tested(c) == {IF b = "reuse" /\ enabled[c] THEN local.seen[c] ELSE flag[c] : b \in Builds}

\* No new interrupt if an old enable's flag is set ...
WriteControlTestsWas(c) ==
    /\ \E v \in Tested(c) :
          \/ /\ local.was[c] /\ v
             /\ CpuStep(At("testWas", c), Idle) /\ local' = NoLocal
          \/ /\ ~(local.was[c] /\ v) /\ UNCHANGED local
             /\ CpuStep(At("testWas", c),
                        IF c = "read" THEN At("testWas", "write") ELSE At("testNow", "read"))
    /\ UNCHANGED <<queue, receive, ready, flag, enabled, dlab, notify, irqfd>>

\* ... and one if a new enable's is.
WriteControlTestsNow(c) ==
    /\ \E v \in Tested(c) :
          \/ /\ (enabled[c] /\ v) \/ c = "write"
             /\ CpuStep(At("testNow", c), Idle) /\ local' = NoLocal
             /\ irqfd' = (irqfd \/ (enabled[c] /\ v))
          \/ /\ ~(enabled[c] /\ v) /\ c = "read"
             /\ CpuStep(At("testNow", c), At("testNow", "write"))
             /\ UNCHANGED <<irqfd, local>>
    /\ UNCHANGED <<queue, receive, ready, flag, enabled, dlab, notify>>

\* Interrupt status read: 0x04 or 0x02 for a pending side, the second of which
\* clears its cause, 0x01 for none.
ReadStatus ==
    /\ CpuStep(Idle, IF Pending("read") THEN Idle ELSE At("identify", "read"))
    /\ UNCHANGED <<queue, receive, ready, flag, enabled, dlab, notify, irqfd, local>>

ReadStatusTestsWrite ==
    /\ CpuStep(At("identify", "read"), IF Pending("write") THEN At("identify", "write") ELSE Idle)
    /\ UNCHANGED <<queue, receive, ready, flag, enabled, dlab, notify, irqfd, local>>

ReadStatusClearsWrite ==
    /\ CpuStep(At("identify", "write"), Idle)
    /\ flag' = [flag EXCEPT !["write"] = FALSE]
    /\ UNCHANGED <<queue, receive, ready, enabled, dlab, notify, irqfd, local>>

\* Line control write.  While DLAB is set, offsets 0 and 1 reach the divisor,
\* which only sets the timers' delays and is not part of the state.
WriteLineControl(b) ==
    /\ CpuStep(Idle, Idle)
    /\ dlab' = b
    /\ UNCHANGED <<queue, receive, ready, flag, enabled, notify, irqfd, local>>

\* KVM consumes the eventfd written by triggerInterrupt.
KvmTakesIrq ==
    /\ irqfd /\ irqfd' = FALSE
    /\ UNCHANGED <<data, ready, flag, enabled, dlab, reading, timer, notify, loop, cpu, local>>

-----------------------------------------------------------------------------
TimerCallback(c) == \/ c = "read" /\ (TimerResumesPty \/ TimerSeesByte)
                    \/ TimerSetsReady(c) \/ TimerSetsFlag(c)
                    \/ TimerTestsEnabled(c) \/ TimerTestsOther(c) \/ TimerTriggers(c)

\* The loop thread, but for the arrival of bytes, which is the terminal's doing.
LoopWork(c) == Notified(c) \/ TimerFires(c) \/ TimerCallback(c)

\* The rest of a register access already begun, up to the unlock.
AccessWork ==
    \/ \E c \in Side : \/ DataClearsReady(c) \/ DataClearsFlag(c) \/ DataNotifies(c)
                       \/ WriteControlLoadsReady(c) \/ WriteControlStoresFlag(c)
                       \/ WriteControlTestsWas(c) \/ WriteControlTestsNow(c)
    \/ \E w \in BOOLEAN : WriteControlStoresEnable(w)
    \/ ReadStatusTestsWrite \/ ReadStatusClearsWrite

\* An arbitrary guest: any register access at any time.
AccessBegins ==
    \/ ReadData \/ WriteData \/ ReadStatus
    \/ \E b \in BOOLEAN : WriteControl(b) \/ WriteLineControl(b)

\* What runs whatever the guest is.
Machine == \/ \E n \in 1..MaxChunk : DataEvent(n)
           \/ \E c \in Side : LoopWork(c)
           \/ AccessWork

Next == Machine \/ AccessBegins \/ KvmTakesIrq

Spec == Init /\ [][Next]_vars

\* An access begun by the CPU thread ends.  The loop thread keeps running: every
\* iteration of libuv runs all expired timers and all signalled handles, so neither
\* side's are passed over for the other's for ever, nor for ever refused the mutex.
Fairness ==
    /\ WF_vars(AccessWork)
    /\ \A c \in Side : SF_vars(LoopWork(c))

-----------------------------------------------------------------------------
(* What the UART owes its guest, whatever the guest does. *)

\* The buffer holds exactly the bytes that arrived and were not yet read, oldest
\* first: filling it from the loop and draining it from a register read never
\* lose, repeat or reorder a byte (data_event, Serial.cpp:34, ioread8, 262).
FifoOrder == /\ Len(queue) = arrived - receive
             /\ \A i \in 1..Len(queue) : queue[i] = receive + i

\* The pty is read only while the buffer is empty, so the buffer never holds more
\* than one chunk: a guest slower than its terminal blocks it (Serial.cpp:43, 60).
BackPressure == /\ reading => queue = <<>>
                /\ Len(queue) <= MaxChunk

\* The receiver is never left with nothing to wake it: the pty is being read, or
\* the chain notify, timer, callback that ends in reading it or in a readable
\* byte is under way, or a byte is offered to the guest (Serial.cpp:34-81, 268).
RxWakeup == \/ reading \/ notify["read"] \/ timer["read"] \/ ready["read"]
            \/ loop \in {At("testEmpty", "read"), At("setReady", "read")}
            \/ cpu \in {At("clearFlag", "read"), At("notify", "read")}

\* Likewise the transmitter: busy only while something is on its way to make it
\* writable again (Serial.cpp:84-104, 192-195).
TxWakeup == \/ ready["write"] \/ notify["write"] \/ timer["write"]
            \/ loop = At("setReady", "write")
            \/ cpu \in {At("clearFlag", "write"), At("notify", "write")}

\* Seen from outside, the guest is given the terminal's bytes in order, each once:
\* the UART implements TerminalInput but for its liveness.
Input == INSTANCE TerminalInput WITH taken <- receive
InputOrder == Input!Spec

=============================================================================
