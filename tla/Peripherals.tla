----------------------------- MODULE Peripherals -----------------------------
(***************************************************************************)
(* The peripherals that no thread but the CPU thread touches: the way to   *)
(* them (Ports), the interval timer with its prescaler (Timer), a chip     *)
(* select unit (Decoding) and the real-time clock (DS12887).  They share   *)
(* no state and call each other never, so that nothing is lost by looking  *)
(* at one at a time: focus says which one a behaviour is about.            *)
(***************************************************************************)
EXTENDS Integers

CONSTANTS Radix, Hundred, Bytes, Divisors, Delays,
          Windows, Addresses, Memories,
          Accesses, Builds,
          Selections, Values, Hours, Sixtieths

\* A window of a chip select unit: a power of two of addresses, no fewer than its
\* registers can tell apart, at a multiple of their number and in its 64 MB or ports.
IsWindow(w) ==
    /\ w.base \in Nat
    /\ w.size \in {2^k : k \in IF w.cycle = "memory" THEN 11..26 ELSE 1..16}
    /\ w.base % w.size = 0
    /\ w.base + w.size <= 2^(IF w.cycle = "memory" THEN 26 ELSE 16)

ASSUME InputsAssumption ==
    /\ Radix \in Nat /\ Hundred \in 1..Radix
    /\ Bytes \subseteq 0..(Radix - 1) /\ Divisors \subseteq 0..(Radix * Radix - 1)
    /\ Delays \subseteq Nat
    /\ \A w \in Windows : w.cycle \in {"memory", "io"} /\ IsWindow(w)
    /\ \A m \in Memories : m.length \in 0..2^26
    /\ Addresses \subseteq Nat /\ Accesses \subseteq 0..65535 /\ Builds \subseteq {"debug", "release"}
    /\ Selections \subseteq 0..255 /\ Values \subseteq 0..255
    /\ Hours \subseteq 0..23 /\ Sixtieths \subseteq 0..59

VARIABLES
    focus,
    value, reload, latch, latched, pendingLoad, waitingForLoad, accessMode, numberFormat,
    writeByte, accessByte, prescaler, timerPrescaler, trapped, first, session, low, due,
    addressRegister, maskRegister, device, goal, orderly,
    access, area, handler, build, ended,
    selectedRegister, alarm, DataMode, twentyFourHourTime, ram, file, process, failed, copied

timer == <<value, reload, latch, latched, pendingLoad, waitingForLoad, accessMode, numberFormat,
           writeByte, accessByte, prescaler, timerPrescaler, trapped, first, session, low, due>>
unit  == <<addressRegister, maskRegister, device, goal, orderly>>
ports == <<access, area, handler, build, ended>>
clock == <<selectedRegister, alarm, DataMode, twentyFourHourTime, ram, file, process, failed, copied>>
vars  == <<focus, timer, unit, ports, clock>>

Pit == INSTANCE Timer
Csu == INSTANCE Decoding
Bus == INSTANCE Ports
Rtc == INSTANCE DS12887

\* What a behaviour is not about has one initial state.
Init == /\ focus \in {"timer", "unit", "ports", "clock"}
        /\ Pit!Init /\ Csu!Init /\ Bus!Init /\ Rtc!Init
        /\ focus # "unit" => /\ device = CHOOSE m \in Memories : TRUE
                             /\ goal = CHOOSE w \in Windows : TRUE
        /\ focus # "ports" => build = CHOOSE b \in Builds : TRUE

Next == \/ /\ focus = "timer" /\ Pit!Next
           /\ UNCHANGED <<focus, unit, ports, clock>>
        \/ /\ focus = "unit" /\ Csu!Next
           /\ UNCHANGED <<focus, timer, ports, clock>>
        \/ /\ focus = "ports" /\ Bus!Next
           /\ UNCHANGED <<focus, timer, unit, clock>>
        \/ /\ focus = "clock" /\ Rtc!Next
           /\ UNCHANGED <<focus, timer, unit, ports>>

Spec == Init /\ [][Next]_vars

-----------------------------------------------------------------------------
(* The properties of the parts, which their own modules explain.             *)

\* A latched count reads whole unless it is latched again (Timer.cpp:37-59, 132-190).
LatchedReadIsWhole == focus = "timer" => Pit!LatchedReadIsWhole

\* The null-count bit tells the truth (Timer.cpp:88, 161, 209-216).
NullCountHonest == focus = "timer" => Pit!NullCountHonest

\* A channel starts with the count that its two bytes spell (Timer.cpp:83-130).
LoadIsWhole == Pit!LoadIsWhole

\* However it is looked at, a count does not run ahead of its clock (Timer.cpp:197-216).
NeverAhead == focus = "timer" => Pit!NeverAhead

\* A programmed unit selects its window and nothing else (ChipSelectUnit.cpp:5-54).
WindowIsExact == focus = "unit" => Csu!WindowIsExact

\* An upper unit reprogrammed in order never loses its new window (main.cpp:627).
StaysSelected == focus = "unit" => Csu!StaysSelected

\* A memory is repeated whole throughout its unit's window (RAM.cpp:23-30, ROM.cpp:44-55).
MemoryIsRepeated == focus = "unit" => Csu!MemoryIsRepeated

\* A port reaches the one entry of the tables that has it (main.cpp:677-692).
DispatchExact == focus = "ports" => Bus!DispatchExact

\* Accesses are served, and nothing stale is taken for an answer (main.cpp:42-181).
AccessesAreAnswered == focus = "ports" => Bus!AccessesAreAnswered

\* The CMOS memory implements NonVolatileRam (DS12887.cpp:13-16, 94-98).
Survives == Rtc!Survives

\* An alarm means the time it was copied from (DS12887.cpp:33-67, 120-172).
AlarmReadsAsClock == focus = "clock" => Rtc!AlarmReadsAsClock

=============================================================================
