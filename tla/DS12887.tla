------------------------------ MODULE DS12887 -------------------------------
(***************************************************************************)
(* The emulated real-time clock (src/src/hardware/DS12887.cpp): its index  *)
(* and data ports, the three alarm registers in the formats register B     *)
(* selects, and the 114 bytes of CMOS memory, which are written to a file  *)
(* at every change and read when the emulator starts.                      *)
(*                                                                         *)
(* The process may die at any moment, within the writing of the file too.  *)
(* The stream holds the 114 bytes in its buffer until it is closed, so     *)
(* the file is truncated by one system call and written by another.        *)
(* Registers A, C, D and the date, which keep or show data that nothing    *)
(* else depends on, are left out, and the clock is an input.               *)
(***************************************************************************)
EXTENDS Naturals

CONSTANTS Selections,  \* values the guest writes to the index port
          Values,      \* values the guest writes to a CMOS byte
          Hours,       \* hours the clock may show
          Sixtieths    \* seconds and minutes the clock may show

VARIABLES selectedRegister, alarm, DataMode, twentyFourHourTime, ram,
          file,     \* the CMOS file: its length and what it was written from
          process,  \* where the process is: down, running or within a store
          failed,   \* history: the store of the last CMOS write has failed
          copied    \* history: the time the guest has set the alarm to

registers == <<alarm, DataMode, twentyFourHourTime, copied>>
vars == <<selectedRegister, registers, ram, file, process, failed>>

Cells == 0..113
Units == {"seconds", "minutes", "hours"}
AlarmOf == [seconds |-> 1, minutes |-> 3, hours |-> 5]
B == 11
Century == 50
Zeros == [i \in Cells |-> 0]

TypeOK ==
    /\ selectedRegister \in 0..127 /\ alarm \in [Units -> 0..255]
    /\ DataMode \in BOOLEAN /\ twentyFourHourTime \in BOOLEAN
    /\ ram \in [Cells -> 0..255]
    /\ file \in [length : {0, 114}, data : [Cells -> 0..255]]
    /\ process \in {"down", "running", "opening", "writing"}
    /\ failed \in BOOLEAN /\ copied \in [Units -> 0..59]

\* The first start: there is no file, which reads as an empty one.
Init == /\ selectedRegister = 0 /\ alarm = [u \in Units |-> 0]
        /\ DataMode = FALSE /\ twentyFourHourTime = FALSE
        /\ ram = Zeros /\ file = [length |-> 0, data |-> Zeros]
        /\ process = "running" /\ failed = FALSE /\ copied = [u \in Units |-> 0]

\* What reading the file into a zeroed array gives.
Contents(f) == [i \in Cells |-> IF i < f.length THEN f.data[i] ELSE 0]

-----------------------------------------------------------------------------
(* The formats. *)

mapToBCD(n) == (n \div 10) * 16 + (n % 10)

\* A time of day as ioread8 shows it: binary or BCD, in 12-hour mode with a PM bit.
Shown(u, n, binary, full) ==
    LET half  == u = "hours" /\ ~full
        value == IF half THEN n % 12 ELSE n
    IN  (IF binary THEN value ELSE mapToBCD(value))
            + (IF half /\ n \div 12 # 0 THEN 128 ELSE 0)

\* Slip: the PM bit is not looked at.
ParsedWithoutPm(u, v, binary, full) ==
    LET tens == IF u = "hours" THEN 4 ELSE 8
    IN  IF binary THEN v % (IF u = "hours" THEN 32 ELSE 64)
                  ELSE (v % 16) + 10 * ((v \div 16) % tens)

\* What iowrite8 makes of a value written to an alarm register.
Parsed(u, v, binary, full) ==
    LET tens == IF u = "hours" THEN 4 ELSE 8
    IN  (IF binary THEN v % (IF u = "hours" THEN 32 ELSE 64)
                   ELSE (v % 16) + 10 * ((v \div 16) % tens))
            + (IF u = "hours" /\ ~full /\ v >= 128 THEN 12 ELSE 0)

-----------------------------------------------------------------------------
(* The guest's accesses. *)

\* The index port: a register number in seven bits.
Select(v) ==
    /\ process = "running" /\ selectedRegister' = v % 128
    /\ UNCHANGED <<registers, ram, file, process, failed>>

\* The guest sets an alarm register to what the clock's register shows.
SetAlarm(u, n) ==
    /\ process = "running" /\ selectedRegister = AlarmOf[u]
    /\ LET shown == Shown(u, n, DataMode, twentyFourHourTime)
       IN  alarm' = [alarm EXCEPT ![u] = Parsed(u, shown, DataMode, twentyFourHourTime)]
    /\ copied' = [copied EXCEPT ![u] = n]
    /\ UNCHANGED <<selectedRegister, DataMode, twentyFourHourTime, ram, file, process, failed>>

WriteB(binary, full) ==
    /\ process = "running" /\ selectedRegister = B
    /\ DataMode' = binary /\ twentyFourHourTime' = full
    /\ UNCHANGED <<selectedRegister, alarm, copied, ram, file, process, failed>>

\* A CMOS byte: the array first, then the file.
WriteCmos(v) ==
    /\ process = "running"
    /\ selectedRegister > 13 /\ selectedRegister # Century
    /\ ram' = [ram EXCEPT ![selectedRegister - 14] = v]
    /\ process' = "opening"
    /\ UNCHANGED <<selectedRegister, registers, file, failed>>

\* Opening the stream truncates the file, or fails, which nothing looks at.
OpenFile ==
    /\ process = "opening" /\ process' = "writing"
    /\ file' = [file EXCEPT !.length = 0]
    /\ UNCHANGED <<selectedRegister, registers, ram, failed>>

OpenFails ==
    /\ process = "opening" /\ process' = "running" /\ failed' = TRUE
    /\ UNCHANGED <<selectedRegister, registers, ram, file>>

\* Slip: only the byte just written goes to the new file.
CloseFileOneByte ==
    /\ process = "writing" /\ process' = "running" /\ failed' = FALSE
    /\ file' = [length |-> 114,
                data |-> [Zeros EXCEPT ![selectedRegister - 14] = ram[selectedRegister - 14]]]
    /\ UNCHANGED <<selectedRegister, registers, ram>>

\* Closing it writes the bytes, or fails, say of a full disk.
CloseFile ==
    /\ process = "writing" /\ process' = "running" /\ failed' = FALSE
    /\ file' = [length |-> 114, data |-> ram]
    /\ UNCHANGED <<selectedRegister, registers, ram>>

CloseFails ==
    /\ process = "writing" /\ process' = "running" /\ failed' = TRUE
    /\ UNCHANGED <<selectedRegister, registers, ram, file>>

-----------------------------------------------------------------------------
(* The process. *)

\* It ends in an orderly way or is killed: nothing is written then.
Dies ==
    /\ process # "down" /\ process' = "down"
    /\ selectedRegister' = 0 /\ alarm' = [u \in Units |-> 0] /\ copied' = alarm'
    /\ DataMode' = FALSE /\ twentyFourHourTime' = FALSE
    /\ ram' = Zeros /\ failed' = FALSE
    /\ UNCHANGED file

\* The constructor.
Starts ==
    /\ process = "down" /\ process' = "running"
    /\ ram' = Contents(file)
    /\ UNCHANGED <<selectedRegister, registers, file, failed>>

GuestWork == \/ \E v \in Selections : Select(v)
             \/ \E n \in Hours : SetAlarm("hours", n)
             \/ \E n \in Sixtieths : SetAlarm("seconds", n) \/ SetAlarm("minutes", n)
             \/ \E binary, full \in BOOLEAN : WriteB(binary, full)
             \/ \E v \in Values : WriteCmos(v)

StoreWork == OpenFile \/ OpenFails \/ CloseFile \/ CloseFails

Next == GuestWork \/ StoreWork \/ Dies \/ Starts

Spec == Init /\ [][Next]_vars

-----------------------------------------------------------------------------
\* The memory is non-volatile: bytes whose store has succeeded survive the death
\* of the process at any moment, and one within a store leaves the bytes of before,
\* or of after, or none, but no mixture (DS12887.cpp:13-16, 94-98).
Memory == INSTANCE NonVolatileRam WITH
    bytes   <- IF process = "down" THEN Contents(file) ELSE ram,
    state   <- IF process = "down" THEN "stored"
               ELSE IF failed THEN "failed"
               ELSE IF process = "running" THEN "stored" ELSE "storing"
Survives == Memory!Spec

\* An alarm set from what the clock shows is an alarm at that time: whatever the
\* format it was written in and the format it is read in, the alarm reads as the
\* clock does at the time (DS12887.cpp:33-67, 120-172).
AlarmReadsAsClock ==
    \A u \in Units, binary, full \in BOOLEAN :
        Shown(u, alarm[u], binary, full) = Shown(u, copied[u], binary, full)

=============================================================================
