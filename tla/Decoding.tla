------------------------------- MODULE Decoding -------------------------------
(***************************************************************************)
(* A chip select unit of the 386EX (src/src/hardware/ChipSelectUnit.cpp)   *)
(* with a decoder and a memory behind it (SimpleAddressDecoder.hpp,        *)
(* RAM.cpp, ROM.cpp).  A register is the set of its bits.  The guest       *)
(* writes it a word at a time.                                             *)
(*                                                                         *)
(* main creates the units and gives their registers to the guest, and      *)
(* attaches no memory to them yet; the memory here is any that the classes *)
(* can make.  The enable bit is stored and not looked at.                  *)
(***************************************************************************)
EXTENDS Integers

CONSTANTS Windows,    \* what the guest programs: [cycle, base, size] (IsWindow in Peripherals)
          Addresses,  \* addresses that are looked at
          Memories    \* what is attached: [kind, length, place, decoded], by the bits decoded

VARIABLES addressRegister, maskRegister, device,
          goal,     \* the window the guest programs
          orderly   \* history: it has written no mask before the address, and nothing else

vars == <<addressRegister, maskRegister, device, goal, orderly>>

Words == {"AddressLowWord", "AddressHighWord", "AddressMaskLowWord", "AddressMaskHighWord"}
HardwareMask == 11..25
MemoryCycle == 8
Enable == 0

TypeOK == /\ addressRegister \subseteq 0..31 /\ maskRegister \subseteq 0..31
          /\ device \in Memories /\ goal \in Windows /\ orderly \in BOOLEAN

\* Unit 7 at reset: 0xFFFF, 0xFF6F and a mask of ones.
Init == /\ addressRegister = (0..31) \ {4, 7} /\ maskRegister = 0..31
        /\ device \in Memories /\ goal \in Windows /\ orderly = TRUE

Bits(n) == {i \in 0..29 : (n \div 2^i) % 2 = 1}

-----------------------------------------------------------------------------
(* The comparison. *)

mask == HardwareMask \ maskRegister

\* Slip: the bits outside the hardware's mask are compared as well.
selectsMemoryAddressAllBits(address) ==
    /\ MemoryCycle \in addressRegister
    /\ Bits(address) \ maskRegister = addressRegister \ maskRegister

selectsMemoryAddress(address) ==
    /\ MemoryCycle \in addressRegister
    /\ Bits(address) \cap mask = addressRegister \cap mask

\* Ports are in the upper bits of the registers.
PortBits(bits) == {b - 10 : b \in bits \cap HardwareMask}

selectsIOAddress(address) ==
    /\ MemoryCycle \notin addressRegister
    /\ Bits(address) \cap PortBits(mask) = PortBits(addressRegister) \cap PortBits(mask)

-----------------------------------------------------------------------------
(* The registers. *)

Low == {"AddressLowWord", "AddressMaskLowWord"}

\* A register with one half replaced by a word.
With(register, r, word) ==
    IF r \in Low THEN {b \in register : b >= 16} \cup word
                 ELSE {b \in register : b < 16} \cup {b + 16 : b \in word}

iowrite16(r, word) ==
    IF r \in {"AddressLowWord", "AddressHighWord"}
    THEN addressRegister' = With(addressRegister, r, word) /\ UNCHANGED maskRegister
    ELSE maskRegister' = With(maskRegister, r, word) /\ UNCHANGED addressRegister

\* What the guest has to write for its window.
Shift(n) == IF goal.cycle = "memory" THEN Bits(n) ELSE {b + 10 : b \in Bits(n)}
GoalAddress == Shift(goal.base) \cup IF goal.cycle = "memory" THEN {MemoryCycle} ELSE {}
GoalMask == Shift(goal.size - 1) \cup {Enable}
Half(register, r) == IF r \in Low THEN register \cap (0..15) ELSE {b - 16 : b \in register \cap (16..31)}

\* It programs its window, in some order.
Programs(r) ==
    LET ofAddress == r \in {"AddressLowWord", "AddressHighWord"}
    IN  /\ iowrite16(r, Half(IF ofAddress THEN GoalAddress ELSE GoalMask, r))
        /\ orderly' = (orderly /\ (ofAddress \/ addressRegister = GoalAddress))
        /\ UNCHANGED <<device, goal>>

\* It stores ones or zeros, or programs another window.
Scrambles(r) ==
    /\ \E word \in {{}, 0..15} : iowrite16(r, word)
    /\ orderly' = FALSE /\ UNCHANGED <<device, goal>>

Turns == /\ goal' \in Windows \ {goal} /\ orderly' = FALSE
         /\ UNCHANGED <<addressRegister, maskRegister, device>>

Next == Turns \/ \E r \in Words : Programs(r) \/ Scrambles(r)

Spec == Init /\ [][Next]_vars

-----------------------------------------------------------------------------
(* The memory. *)

Highest(n) == CHOOSE i \in Bits(n) : \A j \in Bits(n) : j <= i

\* Slip: down instead of up.
roundDownToPowerOfTwo(n) == IF n = 0 THEN 0 ELSE 2^Highest(n)

roundUpToPowerOfTwo(n) ==
    IF n = 0 THEN 0
    ELSE IF Bits(n) = {Highest(n)} THEN n ELSE 2^(Highest(n) + 1)

\* The offset an address is mapped to, if any; a read-only memory maps no write.
MemoryMap(address, write) ==
    LET length == device.length
        offset == IF length = 0 THEN address ELSE address % roundUpToPowerOfTwo(length)
    IN  IF offset >= length \/ (write /\ device.kind = "ROM") THEN {} ELSE {offset}

\* SimpleAddressDecoder: a memory at one place of its unit's window.
DecoderSelects(address) == Bits(address) \cap device.decoded = Bits(device.place) \cap device.decoded

DecoderMap(address, write) == IF DecoderSelects(address) THEN MemoryMap(address, write) ELSE {}

UnitMap(address, write) == IF selectsMemoryAddress(address) THEN DecoderMap(address, write) ELSE {}

-----------------------------------------------------------------------------
InWindow(address) == address \in goal.base..(goal.base + goal.size - 1)
Programmed == addressRegister = GoalAddress /\ maskRegister = GoalMask

\* A unit that has been programmed for a window selects the addresses in it and no
\* other of its 64 MB, or of the ports, whatever it was before; and one that
\* selects memory selects no port (ChipSelectUnit.cpp:5-18, 38-54).
WindowIsExact ==
    Programmed =>
        \A a \in Addresses :
            /\ goal.cycle = "memory" => /\ selectsMemoryAddress(a) = InWindow(a % 2^26)
                                        /\ ~selectsIOAddress(a % 2^16)
            /\ goal.cycle = "io" => /\ selectsIOAddress(a % 2^16) = InWindow(a % 2^16)
                                    /\ ~selectsMemoryAddress(a)

\* The BIOS moves the upper unit while the processor runs from it: as long as the
\* address is written before the mask, the unit that matches everything at reset
\* matches the new window at every moment (readme.md:75, main.cpp:627).
StaysSelected ==
    orderly /\ goal.cycle = "memory" =>
        \A a \in Addresses : InWindow(a % 2^26) => selectsMemoryAddress(a)

\* A memory is repeated throughout its unit's window: with k the least power of two
\* that holds it, every 2^k addresses from the window's start on it is there again, whole,
\* wherever its decoder selects it, for reads and, unless it is read-only, for writes;
\* and nothing else is mapped.  (A window smaller than that shows a part of it.)
\* (RAM.cpp:23-30, ROM.cpp:44-55, Math.hpp:9-36, ChipSelectUnit.cpp:5-18).
MemoryIsRepeated ==
    Programmed /\ goal.cycle = "memory" =>
        \E k \in 0..29 :
            /\ device.length <= 2^k /\ (k = 0 \/ 2^(k - 1) < device.length)
            /\ 2^k <= goal.size =>
                 \A a \in Addresses :
                     LET offset == ((a % 2^26) - goal.base) % 2^k
                     IN  /\ UnitMap(a, FALSE) = IF /\ InWindow(a % 2^26) /\ DecoderSelects(a)
                                                    /\ offset < device.length
                                                 THEN {offset} ELSE {}
                         /\ UnitMap(a, TRUE) = IF device.kind = "ROM" THEN {}
                                                ELSE UnitMap(a, FALSE)

=============================================================================
