------------------------------ MODULE SerialIrq ------------------------------
(***************************************************************************)
(* The UART of Serial16450, KVM's irqfd in resample mode, the in-kernel    *)
(* edge-triggered 8259, and a guest that does all its work in an interrupt *)
(* handler.  KVM and the 8259 are external: what they do with the eventfd  *)
(* registered at Serial.cpp:122 is                                         *)
(*   - a signalled eventfd raises the line; raising a line that is already *)
(*     high is no edge and requests nothing;                               *)
(*   - the end-of-interrupt write lowers the line and signals the resample *)
(*     eventfd, which no code reads (the reader at Serial.cpp:134-151 is   *)
(*     compiled out).                                                      *)
(***************************************************************************)
EXTENDS Serial16450

CONSTANTS MaxSend,   \* bytes the guest has to send
          Rearms     \* the drivers: TRUE for one whose handler ends by switching
                     \* the enables off and on, FALSE for one that does not

ASSUME GuestAssumption == MaxSend \in Nat /\ Rearms \subseteq BOOLEAN

VARIABLES line, irr, isr,   \* the interrupt line, and its request and service bits
          handler,          \* the guest: "main", or where its interrupt handler is
          sent,
          rearm             \* the driver, fixed at the start

pic     == <<line, irr, isr>>
irqVars == <<vars, pic, handler, sent, rearm>>

Handler == {"main", "identify", "read", "write", "eoi", "disable", "enable"}

IrqTypeOK == /\ TypeOK
             /\ line \in BOOLEAN /\ irr \in BOOLEAN /\ isr \in BOOLEAN
             /\ handler \in Handler /\ sent \in 0..MaxSend /\ rearm \in Rearms

\* The state right after the guest's first interrupt control write of 0x03, made
\* while the line was still quiet: the transmitter's condition was triggered.
IrqInit ==
    /\ queue = <<>> /\ receive = 0 /\ arrived = 0
    /\ ready = [Neither EXCEPT !["write"] = TRUE] /\ flag = ready
    /\ enabled = [c \in Side |-> TRUE] /\ dlab = FALSE
    /\ reading = TRUE /\ timer = Neither /\ notify = Neither
    /\ irqfd = TRUE /\ loop = Idle /\ cpu = Idle /\ local = NoLocal
    /\ line = FALSE /\ irr = FALSE /\ isr = FALSE /\ handler = "main" /\ sent = 0
    /\ rearm \in Rearms

KvmRaisesLine ==
    /\ KvmTakesIrq
    /\ line' = TRUE
    /\ irr' = (irr \/ ~line)
    /\ UNCHANGED <<isr, handler, sent, rearm>>

\* The CPU thread enters the handler between two instructions of the guest.
TakeInterrupt ==
    /\ cpu = Idle /\ handler = "main" /\ irr /\ ~isr
    /\ irr' = FALSE /\ isr' = TRUE /\ handler' = "identify"
    /\ UNCHANGED <<vars, line, sent, rearm>>

HandlerReadsStatus ==
    /\ handler = "identify" /\ ReadStatus
    /\ handler' = IF Pending("read") THEN "read" ELSE "identify"
    /\ UNCHANGED <<pic, sent, rearm>>

HandlerReadsData ==
    /\ handler = "read" /\ ReadData
    /\ handler' = "identify"
    /\ UNCHANGED <<pic, sent, rearm>>

\* The transmitter is ready: send the next byte, if there is one.
HandlerWritesData ==
    /\ handler = "write" /\ sent < MaxSend /\ WriteData
    /\ handler' = "identify" /\ sent' = sent + 1
    /\ UNCHANGED <<pic, rearm>>

HandlerHasNothingToSend ==
    /\ handler = "write" /\ sent = MaxSend /\ cpu = Idle
    /\ handler' = "identify"
    /\ UNCHANGED <<vars, pic, sent, rearm>>

HandlerEnds ==
    /\ handler = "eoi" /\ cpu = Idle
    /\ isr' = FALSE /\ line' = FALSE
    /\ handler' = IF rearm THEN "disable" ELSE "main"
    /\ UNCHANGED <<vars, irr, sent, rearm>>

HandlerRearms ==
    /\ \/ handler = "disable" /\ WriteControl(FALSE) /\ handler' = "enable"
       \/ handler = "enable" /\ WriteControl(TRUE) /\ handler' = "main"
    /\ UNCHANGED <<pic, sent, rearm>>

\* A step of the UART itself.  The guest writes both enables alike, and acts on
\* the status it has read.
UartStep ==
    /\ Machine
    /\ cpu = At("storeEnable", "write") /\ cpu' # cpu => enabled'["write"] = enabled["read"]
    /\ handler' = IF cpu = At("identify", "read") /\ cpu' # cpu
                  THEN IF Pending("write") THEN "write" ELSE "eoi"
                  ELSE handler
    /\ UNCHANGED <<pic, sent, rearm>>

GuestStep == \/ TakeInterrupt \/ HandlerReadsStatus \/ HandlerReadsData \/ HandlerWritesData
             \/ HandlerHasNothingToSend \/ HandlerEnds \/ HandlerRearms

IrqNext == UartStep \/ KvmRaisesLine \/ GuestStep

IrqSpec == IrqInit /\ [][IrqNext]_irqVars

\* KVM delivers, and the guest is neither stopped nor kept from the mutex.
IrqFairSpec == /\ IrqSpec /\ Fairness
               /\ WF_irqVars(KvmRaisesLine) /\ SF_irqVars(GuestStep)

-----------------------------------------------------------------------------
\* A handler that reads data because the status said so gets the next byte, not
\* a stale one: a read condition never outlives its byte (Serial.cpp:63, 262-279),
\* unless the driver rearms: its control write may flag a byte that the callback is
\* still about to flag, once more after it was read.
HandlerReadIsNew == [][HandlerReadsData /\ ~rearm => receive' = receive + 1]_irqVars

\* A handler that writes data because the status said so finds the transmitter
\* ready, so it never overruns it (Serial.cpp:87, 192-194, 281), with the same
\* exception: rearming flags a transmitter that the callback flags once more.
HandlerWriteIsPaced == [][HandlerWritesData /\ ~rearm => ready["write"]]_irqVars

\* With a handler that rearms, in a build that loads a flag again to test it, every
\* byte from the terminal is taken some day: a trigger that is lost, or that comes
\* between any two steps of the control write, is made good by a later one
\* (Serial.cpp:180, 205-231).  InputOrder says that bytes are taken in order and once.
\* A build that tests the value it has just stored can miss the other thread's.
InputServed == rearm /\ "reuse" \notin Builds => []<>(receive = arrived)

\* And it gets to send everything it has (Serial.cpp:87-94, 195, 205-231).
TxDrains == rearm => <>(sent = MaxSend)

\* "whenever the refresh event occurs, retrigger the interrupt if needed"
\* (Serial.cpp:135): no condition waits for ever, so buffered bytes are taken.
RxServed == queue # <<>> ~> queue = <<>>
=============================================================================
