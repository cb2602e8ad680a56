---------------------------- MODULE PeripheralsMC ----------------------------
(* Inputs for TLC: windows of memory and of ports, memories of a length that    *)
(* is a power of two and one that is not, and what lies at and next to their    *)
(* edges; the edges of the ranges in the ports' tables.                         *)
EXTENDS Peripherals

\* The BIOS's place in the flash memory, the smallest window, a display's ports.
MCWindows == {[cycle |-> "memory", base |-> 54525952, size |-> 524288],
              [cycle |-> "memory", base |-> 6144, size |-> 2048],
              [cycle |-> "io", base |-> 58, size |-> 2]}

MCAddresses == {0, 58, 60, 2047, 6144, 8191, 8192, 54525951, 54525952, 54575104,
                54591488, 54624256, 55050239, 55050240, 121634816}

MCMemories == {[kind |-> "RAM", length |-> 65536, place |-> 0, decoded |-> {}],
               [kind |-> "ROM", length |-> 49152, place |-> 65536, decoded |-> {16}]}

MCAccesses == LET starts == {96, 112, 114, 116, 117, 119, 128, 146, 408, 760, 1016,
                             53248, 57344, 62464, 62520, 63492, 63540, 63584, 63600}
                  ends   == {100, 113, 115, 415, 767, 1023, 53255, 57351, 62527, 63493}
              IN  starts \cup ends \cup {p + 1 : p \in ends} \cup {p - 1 : p \in starts}
=============================================================================
