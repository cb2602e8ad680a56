---------------------------- MODULE SerialPolled ----------------------------
(***************************************************************************)
(* The UART of Serial16450 under the simplest driver, a guest that polls:  *)
(* it reads the line status register, reads data only after the receive    *)
(* bit was set and writes data only after the transmit bit was set, and    *)
(* leaves interrupts disabled.  Under it the receiver implements           *)
(* TerminalInput, and each data read yields a byte not seen before.        *)
(***************************************************************************)
EXTENDS Serial16450

VARIABLE guest    \* what the polling loop does next

polledVars == <<vars, guest>>

GuestPc == {"pollRead", "read", "pollWrite", "write"}

PolledTypeOK == TypeOK /\ guest \in GuestPc

PolledInit == Init /\ guest = "pollRead"

\* A line status read, of which the guest tests one side's bit.  It moves on when
\* the bit is clear, and may when the transmitter is ready but nothing is to send.
ReadLineStatus(c) ==
    /\ CpuStep(Idle, Idle)
    /\ guest = IF c = "read" THEN "pollRead" ELSE "pollWrite"
    /\ \/ ready[c] /\ guest' = c
       \/ ~ready[c] /\ c = "read" /\ guest' = "pollWrite"
       \/ c = "write" /\ guest' = "pollRead"
    /\ UNCHANGED <<queue, receive, ready, flag, enabled, dlab, notify, irqfd, local>>

GuestReads  == ReadData  /\ guest = "read"  /\ guest' = "pollWrite"
GuestWrites == WriteData /\ guest = "write" /\ guest' = "pollRead"

GuestWork == (\E c \in Side : ReadLineStatus(c)) \/ GuestReads \/ GuestWrites

PolledNext == (Machine /\ UNCHANGED guest) \/ GuestWork

PolledSpec == PolledInit /\ [][PolledNext]_polledVars

\* The polling loop never stops, and gets the mutex as often as it asks for it.
PolledFairness == Fairness /\ SF_polledVars(GuestWork)

PolledFairSpec == PolledSpec /\ PolledFairness

-----------------------------------------------------------------------------
(* The token each half passes around: the receiver is in exactly one of the  *)
(* places RxPlace, the transmitter in exactly one of TxPlace.                *)

RxPlace == {"reading", "timer", "callback", "ready", "access", "notify"}
RxAt(p) == \/ p = "reading" /\ reading
           \/ p = "timer" /\ timer["read"]
           \/ p = "callback" /\ loop \in {At("testEmpty", "read"), At("setReady", "read")}
           \/ p = "ready" /\ ready["read"]
           \/ p = "access" /\ cpu \in {At("clearFlag", "read"), At("notify", "read")}
           \/ p = "notify" /\ notify["read"]

TxPlace == RxPlace \ {"reading"}
TxAt(p) == \/ p = "timer" /\ timer["write"]
           \/ p = "callback" /\ loop = At("setReady", "write")
           \/ p = "ready" /\ ready["write"]
           \/ p = "access" /\ cpu \in {At("clearFlag", "write"), At("notify", "write")}
           \/ p = "notify" /\ notify["write"]

\* Each half has one token: no timer runs while the guest may access it, no
\* notification is pending while a timer runs, so none is ever merged with
\* another or wakes the half twice (Serial.cpp:34-104, 190-196, 260-269).
OneRxToken == \E p \in RxPlace : \A q \in RxPlace : RxAt(q) <=> q = p
OneTxToken == \E p \in TxPlace : \A q \in TxPlace : TxAt(q) <=> q = p

\* The receive bit of the line status never lies to a polling guest, not even
\* between the loop's unlock and the register access: a byte is buffered while it
\* is set (Serial.cpp:53-64, 296).
ReadableIsTrue == /\ (ready["read"] /\ cpu # At("clearReady", "read")) => queue # <<>>
                  /\ guest = "read" => ready["read"]

\* Each data read yields the next byte, never the stale one that stays in the
\* receive register (Serial.cpp:262-269).
EachReadIsNew == [][GuestReads => receive' = receive + 1]_polledVars

\* The receiver as the terminal and the guest see it: each byte is given to the
\* guest, in order, once, and some day (Serial.cpp:34-81, 262-269).
InputSpec == Input!FairSpec

\* A transmitter made busy by a write becomes writable again (Serial.cpp:84-104).
TxBecomesWritable == ~ready["write"] ~> ready["write"]
=============================================================================
