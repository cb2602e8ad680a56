-------------------------------- MODULE Timer --------------------------------
(***************************************************************************)
(* One channel of the emulated interval timer (src/src/hardware/Timer.cpp) *)
(* and the clock prescaler that feeds it (i386EXClockPrescaler.cpp).  The  *)
(* channels share nothing but the commands: one that is not for this       *)
(* channel only brings its count up to date.                               *)
(*                                                                         *)
(* The count is kept lazily.  A command, a read or a new prescaler first   *)
(* turns the time since the last one into ticks; every such action takes   *)
(* that time, in periods of the 25 MHz source clock, as a parameter.  The  *)
(* code's bytes have 256 values and its decimal ones 100: Radix and        *)
(* Hundred.  The operating mode and the output, which nothing depends on,  *)
(* are left out.  main leaves the device out as well (main.cpp:592).       *)
(***************************************************************************)
EXTENDS Naturals

CONSTANTS Radix, Hundred,   \* the values of a byte, and of one in decimal format
          Bytes,            \* values the guest writes to the data register
          Divisors,         \* values the guest writes to the prescaler's register
          Delays            \* times between two accesses

VARIABLES value, reload, latch, latched,
          pendingLoad, waitingForLoad,
          accessMode, numberFormat, writeByte, accessByte,
          prescaler,        \* the prescaler's register
          timerPrescaler,   \* what the timer has been told of it
          trapped,          \* a division by zero has ended the process
          first,            \* history: the first byte of a load of two
          session, low,     \* history: how far a read of a latched count has come
          due               \* history: source clock periods a running count must take to zero

count   == <<value, pendingLoad, due>>
load    == <<reload, waitingForLoad, writeByte, first>>
read    == <<latch, latched, accessByte, session, low>>
modes   == <<accessMode, numberFormat>>
divider == <<prescaler, timerPrescaler>>
vars    == <<count, load, read, modes, divider, trapped>>

Byte == 0..(Radix - 1)
Word == 0..(Radix * Radix - 1)

TypeOK == /\ {value, reload, latch, prescaler, timerPrescaler} \subseteq Word
          /\ {latched, pendingLoad, waitingForLoad, trapped} \subseteq BOOLEAN
          /\ accessMode \in {"low", "high", "both"} /\ numberFormat \in {"binary", "decimal"}
          /\ writeByte \in {"low", "high"} /\ accessByte \in {"low", "high", "status"}
          /\ first \in Byte /\ low \in Byte /\ session \in {"none", "low", "torn"} /\ due \in Nat

\* The constructors: a channel is paused until a count is loaded.
Init == /\ value = 0 /\ reload = 0 /\ latch = 0 /\ latched = FALSE
        /\ pendingLoad = FALSE /\ waitingForLoad = TRUE
        /\ accessMode = "both" /\ numberFormat = "binary"
        /\ writeByte = "low" /\ accessByte = "low"
        /\ prescaler = 0 /\ timerPrescaler = 2 /\ trapped = FALSE
        /\ first = 0 /\ session = "none" /\ low = 0 /\ due = 0

Unit == IF numberFormat = "binary" THEN Radix ELSE Hundred
Part(byte, n) == IF byte = "low" THEN n % Unit ELSE (n \div Unit) % Radix
First(mode) == IF mode = "high" THEN "high" ELSE "low"

-----------------------------------------------------------------------------
(* The count. *)

\* What a number of ticks makes of a count.
Counted(n, ticks) == IF ticks > n THEN reload - ((ticks - n) % (reload + 1)) ELSE n - ticks

\* Slip: a tick that has begun counts.
ResolveRoundingUp(delay) ==
    IF waitingForLoad THEN UNCHANGED <<value, pendingLoad, trapped>>
    ELSE IF timerPrescaler = 0 THEN trapped' = TRUE /\ UNCHANGED <<value, pendingLoad>>
    ELSE LET ticks == (delay + timerPrescaler - 1) \div timerPrescaler
         IN  /\ value' = Counted(value, ticks)
             /\ pendingLoad' = (pendingLoad /\ ticks <= value)
             /\ UNCHANGED trapped

\* resolveTimers: a remainder of the time is lost.
Resolve(delay) ==
    IF waitingForLoad THEN UNCHANGED <<value, pendingLoad, trapped>>
    ELSE IF timerPrescaler = 0 THEN trapped' = TRUE /\ UNCHANGED <<value, pendingLoad>>
    ELSE LET ticks == delay \div timerPrescaler
         IN  /\ value' = Counted(value, ticks)
             /\ pendingLoad' = (pendingLoad /\ ticks <= value)
             /\ UNCHANGED trapped

Less(time, delay) == IF delay < time THEN time - delay ELSE 0

\* It, and the history: the delay is taken off what is due, after a wrap off what the
\* new period adds to it.
Elapse(delay) ==
    /\ Resolve(delay)
    /\ due' = IF waitingForLoad \/ timerPrescaler = 0 THEN due
              ELSE IF delay \div timerPrescaler > value
                   THEN Less(due + reload * timerPrescaler, delay)
              ELSE Less(due, delay)

-----------------------------------------------------------------------------
(* Commands. *)

\* One for another channel, and a read of another channel.
OtherChannel(delay) == Elapse(delay) /\ UNCHANGED <<load, read, modes, divider>>

Configure(mode, format, delay) ==
    /\ Resolve(delay) /\ due' = 0
    /\ accessMode' = mode /\ numberFormat' = format
    /\ waitingForLoad' = TRUE
    /\ accessByte' = First(mode) /\ writeByte' = First(mode)
    /\ session' = "none" /\ low' = 0 /\ first' = 0
    /\ UNCHANGED <<reload, latch, latched, divider>>

\* One that comes between the two bytes of a read leaves it at the second.
CounterLatch(delay) ==
    /\ Elapse(delay)
    /\ latch' = value' /\ latched' = TRUE
    /\ session' = (IF accessByte = "high" THEN "torn" ELSE "none") /\ low' = 0
    /\ UNCHANGED <<accessByte, load, modes, divider>>

\* The status, the count or both are asked for, and any read starts over.
ReadBack(status, counts, delay) ==
    /\ Elapse(delay)
    /\ accessByte' = IF status THEN "status" ELSE First(accessMode)
    /\ IF counts THEN latch' = value' /\ latched' = TRUE ELSE UNCHANGED <<latch, latched>>
    /\ session' = "none" /\ low' = 0
    /\ UNCHANGED <<load, modes, divider>>

-----------------------------------------------------------------------------
(* The data register. *)

\* The byte is taken before the count is brought up to date.
Answer == Part(accessByte, IF latched THEN latch ELSE value)

\* Slip: the first byte ends a latch.
AdvanceUnlatching ==
    /\ accessByte' = IF accessByte = "low" /\ accessMode # "low" THEN "high" ELSE First(accessMode)
    /\ latched' = (latched /\ accessByte = "status")
    /\ latch' = latch

\* The bytes alternate; the last one ends a latch, which nothing reads any more and
\* the model forgets.
Advance ==
    /\ accessByte' = IF accessByte = "low" /\ accessMode # "low" THEN "high" ELSE First(accessMode)
    /\ latched' = (latched /\ (accessByte = "status" \/ (accessByte = "low" /\ accessMode # "low")))
    /\ latch' = IF latched' THEN latch ELSE 0

ReadRegister(delay) ==
    /\ Elapse(delay)
    /\ Advance
    /\ IF latched /\ accessByte = "low" /\ accessMode = "both"
       THEN session' = "low" /\ low' = Answer
       ELSE session' = "none" /\ low' = 0
    /\ UNCHANGED <<load, modes, divider>>

\* Slip: the high byte replaces the low one.
HalfAlone(byte) == (IF writeByte = "low" THEN (reload - (reload % Unit)) + byte
                    ELSE Unit * byte) % (Radix * Radix)

Half(byte) == (IF writeByte = "low" THEN (reload - (reload % Unit)) + byte
               ELSE Unit * byte + (reload % Unit)) % (Radix * Radix)

\* The last byte of a load starts a channel that waits for it.
Starts == waitingForLoad /\ (writeByte = "high" \/ accessMode # "both")

\* Slip: a byte written to a running channel does not count as a pending load.
TakeLoadQuietly ==
    IF Starts THEN /\ waitingForLoad' = FALSE /\ value' = reload' /\ pendingLoad' = FALSE
                   /\ due' = reload' * timerPrescaler
    ELSE UNCHANGED <<waitingForLoad, value, pendingLoad, due>>

TakeLoad ==
    IF Starts THEN /\ waitingForLoad' = FALSE /\ value' = reload' /\ pendingLoad' = FALSE
                   /\ due' = reload' * timerPrescaler
    ELSE pendingLoad' = TRUE /\ UNCHANGED <<waitingForLoad, value, due>>

WriteRegister(byte) ==
    /\ reload' = Half(byte)
    /\ TakeLoad
    /\ writeByte' = IF accessMode # "both" THEN writeByte
                    ELSE IF writeByte = "low" THEN "high" ELSE "low"
    /\ first' = IF accessMode = "both" /\ writeByte = "low" THEN byte ELSE 0
    /\ UNCHANGED <<read, modes, divider, trapped>>

-----------------------------------------------------------------------------
(* The prescaler's register, of which the timer keeps the divisor. *)

\* The count is brought up to date with the divisor before.
SetPrescaler(word, delay) ==
    /\ Resolve(delay)
    /\ prescaler' = word
    /\ timerPrescaler' = (word + 2) % (Radix * Radix)
    /\ due' = IF waitingForLoad THEN 0 ELSE value' * timerPrescaler'
    /\ UNCHANGED <<load, read, modes>>

\* A word, or one byte of it.
WritePrescaler(part, word, delay) ==
    SetPrescaler(CASE part = "word" -> word
                   [] part = "low"  -> (prescaler \div Radix) * Radix + (word % Radix)
                   [] part = "high" -> (word \div Radix) * Radix + (prescaler % Radix), delay)

Next == ~trapped /\
    \/ \E d \in Delays :
         \/ OtherChannel(d) \/ CounterLatch(d) \/ ReadRegister(d)
         \/ \E mode \in {"low", "high", "both"}, format \in {"binary", "decimal"} :
                Configure(mode, format, d)
         \/ \E status, counts \in BOOLEAN : ReadBack(status, counts, d)
         \/ \E part \in {"low", "high", "word"}, word \in Divisors : WritePrescaler(part, word, d)
    \/ \E byte \in Bytes : WriteRegister(byte)

Spec == Init /\ [][Next]_vars

-----------------------------------------------------------------------------
\* A count that was latched reads whole, whatever time passes, whatever is written and
\* whatever status is asked for: once its low byte has been read, the high byte of the
\* same count comes next, and no high byte of a latched count comes without its low
\* one.  In decimal, to its low digits.  The exception, "torn", is another latch of the
\* channel between the two bytes: it replaces the count and leaves the read at the
\* high byte (Timer.cpp:37-59, 132-190).
LatchedReadIsWhole ==
    /\ session = "low" => accessByte = "high" /\ low + Unit * Answer = latch % (Unit * Radix)
    /\ latched /\ accessMode = "both" /\ accessByte = "high" => session \in {"low", "torn"}

\* A clear null-count bit of the status tells the truth: the count has taken over
\* the reload value, and is within it (Timer.cpp:88, 102-104, 161, 209-216).
NullCountHonest == ~pendingLoad /\ ~waitingForLoad => value <= reload

\* A channel that waits for two bytes starts with the count they spell, whatever
\* it was loaded with before and whatever is read in between (Timer.cpp:83-130).
LoadIsWhole ==
    [][\A byte \in Bytes :
         WriteRegister(byte) /\ waitingForLoad /\ ~waitingForLoad'
             /\ accessMode = "both" /\ numberFormat = "binary"
         => value' = first + Radix * byte]_vars

\* However often it is looked at, and however the times between fall, a count does not
\* run ahead of its clock, over a wrap either: it is at least what the time since its
\* load leaves of it.  (It may lag: every look at any channel drops the part of a tick
\* that has passed, Timer.cpp:197-216.)
NeverAhead == value * timerPrescaler >= due

=============================================================================
