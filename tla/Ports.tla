-------------------------------- MODULE Ports --------------------------------
(***************************************************************************)
(* The way of a port access from the guest to a device and back            *)
(* (src/src/main.cpp:675-698, the two tables, DevicePio.hpp and the static *)
(* handlers): the devices' table first, then the handlers', then the       *)
(* handler of unhandled ports.  The data travel in an area that every      *)
(* access uses again.                                                      *)
(*                                                                         *)
(* What a device answers is left to its own module; here a byte of the     *)
(* area is only known by who wrote it last.  In a release build, which     *)
(* leaves the assertions out, more accesses reach the handlers.            *)
(***************************************************************************)
EXTENDS Naturals

CONSTANTS Accesses,   \* the ports the guest accesses
          Builds      \* with or without assertions: "debug", "release"

VARIABLES access,     \* the access under way, or none
          area,       \* who wrote each byte of the area last
          handler,    \* history: who took the last access
          build,
          ended       \* an exception or an assertion has ended the process

vars == <<access, area, handler, build, ended>>

Lengths == {1, 2, 4}
Area == 0..7

Entry(start, length, name) == [start |-> start, length |-> length, name |-> name]

pioDeviceTable ==
    {Entry(63492, 2, "prescaler"), Entry(1016, 8, "com1"), Entry(760, 8, "com2"),
     Entry(57344, 8, "hexDisplay"), Entry(112, 2, "rtc")}
        \cup {Entry(62464 + 8 * i, 8, "csu") : i \in 0..7}

ioHandlerTable ==
    {Entry(96, 5, "Keyboard"), Entry(114, 2, "LCD"), Entry(116, 1, "ProductCode"),
     Entry(117, 1, "OptionCode"), Entry(119, 1, "JumperRegister"), Entry(128, 1, "POSTCode"),
     Entry(146, 1, "A20Gate"), Entry(408, 8, "ManufacturerSpecific"),
     Entry(53248, 8, "DiskRegisters"), Entry(63540, 1, "TimerConfiguration"),
     Entry(63584, 1, "Port1Pin"), Entry(63600, 1, "Port3Pin")}

none == [write |-> FALSE, port |-> 0, length |-> 0, count |-> 0]

Names == {e.name : e \in pioDeviceTable \cup ioHandlerTable}

TypeOK == /\ access = none \/ access \in [write : BOOLEAN, port : Accesses,
                                             length : Lengths, count : {1, 2}]
          /\ area \in [Area -> {"guest", "handler", "old"}]
          /\ handler \in {"none", "Unhandled"} \cup Names
          /\ build \in Builds /\ ended \in BOOLEAN

Init == /\ access = none /\ area = [i \in Area |-> "old"] /\ handler = "none"
        /\ build \in Builds /\ ended = FALSE

-----------------------------------------------------------------------------
(* The tables are maps ordered by AddressRange: a port finds what is neither   *)
(* before nor after it.                                                        *)

\* Slip: a range ends one port later.
BeforeLong(a, b) == a.start + a.length < b.start

Before(a, b) == a.start + a.length - 1 < b.start

Find(table, port) ==
    {e.name : e \in {e \in table : ~Before(e, Entry(port, 1, "")) /\ ~Before(Entry(port, 1, ""), e)}}

IsDevice(port) == Find(pioDeviceTable, port) # {}

Found(port) ==
    IF IsDevice(port) THEN Find(pioDeviceTable, port)
    ELSE IF Find(ioHandlerTable, port) # {} THEN Find(ioHandlerTable, port)
    ELSE {"Unhandled"}

-----------------------------------------------------------------------------
(* The widths that devices implement, and the accesses that handlers assert.   *)

Implemented(device, write) ==
    CASE device \in {"com1", "com2", "rtc"} -> {1}
      [] device = "prescaler" -> {1, 2}
      [] device = "csu" -> {2}
      [] device = "hexDisplay" -> IF write THEN Lengths ELSE {}

Assertion(name) ==
    CASE name \in {"Keyboard", "LCD", "Unhandled"} -> TRUE
      [] name = "DiskRegisters" \/ IsDevice(access.port) -> access.count = 1
      [] OTHER -> access.length = 1 /\ access.count = 1

Ends(name) == \/ build = "debug" /\ ~Assertion(name)
              \/ IsDevice(access.port) /\ access.length \notin Implemented(name, access.write)

\* Slip: the handler of unhandled ports only clears the data of repeated accesses.
AnsweredIfRepeated(name) ==
    IF access.write THEN {}
    ELSE IF name = "POSTCode" THEN {}
    ELSE IF name = "Unhandled" /\ access.count = 1 THEN {}
    ELSE 0..(access.length - 1)

\* The bytes a handler writes to the area.  The disk registers answer the length of the
\* access from their byte on, past their end too (main.cpp:219-220): not told apart.
Answered(name) ==
    IF name = "Unhandled" /\ (~access.write \/ access.count # 1) THEN 0..(access.length - 1)
    ELSE IF access.write \/ name = "POSTCode" THEN {}
    ELSE IF name = "DiskRegisters" \/ IsDevice(access.port) THEN 0..(access.length - 1)
    ELSE {0}

-----------------------------------------------------------------------------
\* An exit of KVM_RUN: the data of an OUT are in the area.
Exits(a) ==
    /\ access = none /\ access' = a
    /\ area' = [i \in Area |-> IF a.write /\ i < a.length * a.count THEN "guest" ELSE "old"]
    /\ UNCHANGED <<handler, build, ended>>

Serves ==
    /\ access # none /\ handler = "none"
    /\ \E name \in Found(access.port) :
          /\ handler' = name
          /\ ended' = Ends(name)
          /\ area' = [i \in Area |-> IF i \in Answered(name) /\ ~ended' THEN "handler" ELSE area[i]]
    /\ UNCHANGED <<access, build>>

\* The guest goes on, with the answer of an IN.
Resumes == /\ handler # "none" /\ access' = none /\ handler' = "none"
           /\ UNCHANGED <<area, build, ended>>

Next == ~ended /\ \/ Serves \/ Resumes
                  \/ \E write \in BOOLEAN, port \in Accesses, length \in Lengths, count \in {1, 2} :
                        Exits([write |-> write, port |-> port, length |-> length, count |-> count])

Spec == Init /\ [][Next]_vars

-----------------------------------------------------------------------------
Holders == {e \in pioDeviceTable \cup ioHandlerTable :
               access.port \in e.start..(e.start + e.length - 1)}

\* An access is served by the one entry of the two tables whose ports include its
\* port, at both ends of every range, and by none if there is none
\* (AddressRange.hpp:12-14, main.cpp:225-240, 590-634, 677-692).
DispatchExact ==
    handler # "none" => {e.name : e \in Holders} = {handler} \ {"Unhandled"}

\* Every access to one byte is served: it does not end the process, but at the chip
\* selects' words and in a read of the display, and what the guest reads was written
\* for it, and not left in the area by an earlier access, but at the POST port, whose
\* handler answers nothing.  So are all bytes of a wider read that does not end the
\* process, but of the keyboard and the LCD, which answer one byte of any width, and
\* in a build without assertions (DevicePio.hpp:10-87, main.cpp:42-181).
AccessesAreAnswered ==
    handler # "none" /\ access.count = 1 =>
        IF ended
        THEN access.length # 1 \/ handler = "csu" \/ (handler = "hexDisplay" /\ ~access.write)
        ELSE \/ access.write \/ handler = "POSTCode"
             \/ access.length # 1 /\ (build = "release" \/ handler \in {"Keyboard", "LCD"})
             \/ \A i \in 0..(access.length - 1) : area[i] = "handler"

=============================================================================
