------------------------------- MODULE Flash -------------------------------
(***************************************************************************)
(* The flash chip of the machine: the command decoder in the CPU thread's  *)
(* handling of KVM_EXIT_MMIO (src/src/main.cpp:797-886), and KVM's memory  *)
(* slots 4 and 5, which map the chip and its alias read-only.              *)
(*                                                                         *)
(* While the slots are mapped a guest's read is served by KVM and never    *)
(* reaches the emulator, and a write always does; while they are not, both *)
(* do.  That, and the errors of KVM_SET_USER_MEMORY_REGION, is external.   *)
(* The chip is 8 sectors of 64 KiB; Offsets is the part a run looks at.    *)
(***************************************************************************)
EXTENDS Naturals, Sequences

CONSTANTS Offsets,    \* offsets the guest accesses
          Commands,   \* values the guest writes
          MayFail     \* whether KVM may refuse a mapping for want of memory

ASSUME OffsetsAssumption == \A o \in Offsets : o \in Nat /\ o < 8 * 65536
ASSUME CommandsAssumption == Commands \subseteq 0..255

VARIABLES mem,           \* the chip's contents, flashMemory
          flashState,
          chip, alias,   \* is slot 4, slot 5 mapped
          requestExit,
          written        \* history: the writes since flashState was last Read

vars == <<mem, flashState, chip, alias, requestExit, written>>

FlashState == {"Read", "CommandByte_1", "CommandByte_2", "CommandByte_3", "CommandByte_4",
               "CommandByte_5", "Program", "ProductIdentification"}

Low(o)    == o % 2048       \* offset & 0x7FF
Sector(o) == o \div 65536   \* offset & 0x70000

Write(o, c) == [low |-> Low(o), command |-> c]
Unlock1 == Write(1365, 170)   \* 0xAA at 0x555
Unlock2 == Write(682, 85)     \* 0x55 at 0x2AA
Erase    == Write(1365, 128)  \* 0x80 at 0x555
Program  == Write(1365, 160)  \* 0xA0
Identify == Write(1365, 144)  \* 0x90

TypeOK == /\ mem \in [Offsets -> 0..255]
          /\ flashState \in FlashState
          /\ chip \in BOOLEAN /\ alias \in BOOLEAN /\ requestExit \in BOOLEAN
          /\ written \in Seq([low : 0..2047, command : Commands]) /\ Len(written) <= 6

Init == /\ mem = [o \in Offsets |-> 0]
        /\ flashState = "Read"
        /\ chip = TRUE /\ alias = TRUE /\ requestExit = FALSE
        /\ written = <<>>

-----------------------------------------------------------------------------
Moves(state, w, next) == [in |-> state, on |-> w, to |-> next]

\* The writes that lead on in a command sequence, and to which state.
Transition ==
    {Moves("Read",          Unlock1,  "CommandByte_1"),
     Moves("CommandByte_1", Unlock2,  "CommandByte_2"),
     Moves("CommandByte_2", Erase,    "CommandByte_3"),
     Moves("CommandByte_3", Unlock1,  "CommandByte_4"),
     Moves("CommandByte_4", Unlock2,  "CommandByte_5"),
     Moves("CommandByte_2", Program,  "Program"),
     Moves("CommandByte_2", Identify, "ProductIdentification")}

\* Slip: the offset is not compared.
DecodedAnywhere(state, w) ==
    LET matches == {t \in Transition : t.in = state /\ t.on.command = w.command}
    IN  IF matches = {} THEN "Read" ELSE (CHOOSE t \in matches : TRUE).to

\* The state after a write in a state that decodes it: an erase, decoded separately,
\* ends in Read, and so does an unknown command sequence.
Decoded(state, w) ==
    LET matches == {t \in Transition : t.in = state /\ t.on = w}
    IN  IF matches = {} THEN "Read" ELSE (CHOOSE t \in matches : TRUE).to

\* Slip: the sector's offset is not masked out of the address.
ErasedFrom(state, o, c) ==
    IF state # "CommandByte_5" THEN {}
    ELSE IF c = 48 THEN {p \in Offsets : o <= p /\ p < o + 65536}
    ELSE IF Write(o, c) = Write(1365, 16) THEN Offsets
    ELSE {}

\* The bytes an erase command at o blanks: its sector, the whole chip, or none.
Erased(state, o, c) ==
    IF state # "CommandByte_5" THEN {}
    ELSE IF c = 48 THEN {p \in Offsets : Sector(p) = Sector(o)}
    ELSE IF Write(o, c) = Write(1365, 16) THEN Offsets
    ELSE {}

Remember(w, state) == written' = IF state = "Read" THEN <<>> ELSE Append(written, w)

\* Both slots are set, the chip's first; when KVM refuses one the machine stops
\* there.  Deleting a slot that does not exist is always refused.
SetSlots(mapped) ==
    \E chipOk \in BOOLEAN, aliasOk \in BOOLEAN :
        /\ (~mapped /\ ~chip)  => ~chipOk
        /\ (~mapped /\ ~alias) => ~aliasOk
        /\ ~chipOk  => (MayFail \/ (~mapped /\ ~chip))
        /\ ~aliasOk => (MayFail \/ (~mapped /\ ~alias))
        /\ chip'  = IF chipOk THEN mapped ELSE chip
        /\ alias' = IF chipOk /\ aliasOk THEN mapped ELSE alias
        /\ requestExit' = ~(chipOk /\ aliasOk)

\* A write in state Program is the byte to store, whatever its value.
ProgramByte(o, c) ==
    /\ flashState = "Program"
    /\ mem' = [mem EXCEPT ![o] = c]
    /\ flashState' = "Read" /\ written' = <<>>
    /\ UNCHANGED <<chip, alias, requestExit>>

\* 0xF0 ends any command sequence.
Reset(o, c) ==
    /\ flashState # "Program" /\ c = 240
    /\ flashState' = "Read" /\ written' = <<>>
    /\ UNCHANGED <<mem, chip, alias, requestExit>>

Command(o, c) ==
    /\ flashState # "Program" /\ c # 240
    /\ LET erased == Erased(flashState, o, c)
       IN  mem' = [p \in Offsets |-> IF p \in erased THEN 255 ELSE mem[p]]
    /\ flashState' = Decoded(flashState, Write(o, c))
    /\ Remember(Write(o, c), flashState')
    /\ IF flashState' = "ProductIdentification"
       THEN SetSlots(FALSE)
       ELSE UNCHANGED <<chip, alias, requestExit>>

\* A write of one byte.  A wider one fails the assertion at line 806, and without
\* assertions is taken for its first byte.
GuestWrites(o, c) == ~requestExit /\ (ProgramByte(o, c) \/ Reset(o, c) \/ Command(o, c))

\* Slip: the identifier stays selected after the read that maps the chip again.
GuestReadsOn ==
    /\ ~requestExit /\ ~(chip /\ alias)
    /\ IF flashState = "ProductIdentification"
       THEN SetSlots(TRUE)
       ELSE UNCHANGED <<chip, alias, requestExit>>
    /\ UNCHANGED <<mem, flashState, written>>

\* A read while the chip is not mapped: an identifier byte maps it again.
GuestReads ==
    /\ ~requestExit /\ ~(chip /\ alias)
    /\ flashState' = "Read" /\ written' = <<>>
    /\ IF flashState = "ProductIdentification"
       THEN SetSlots(TRUE)
       ELSE UNCHANGED <<chip, alias, requestExit>>
    /\ UNCHANGED mem

Next == (\E o \in Offsets, c \in Commands : GuestWrites(o, c)) \/ GuestReads

Spec == Init /\ [][Next]_vars

-----------------------------------------------------------------------------
\* The sequences of writes that arm a change of the contents.
ProgramArmed == <<Unlock1, Unlock2, Program>>
EraseArmed   == <<Unlock1, Unlock2, Erase, Unlock1, Unlock2>>

\* The flash file is only ever changed by a complete program or erase sequence:
\* no other series of writes, interrupted, repeated or mixed, alters a byte, and
\* programming alters at most one (main.cpp:809-845).
ChangesOnlyWhenArmed ==
    [][ mem' # mem => \/ written = EraseArmed
                      \/ /\ written = ProgramArmed
                         /\ \E o \in Offsets : \A p \in Offsets \ {o} : mem'[p] = mem[p] ]_vars

\* An erase leaves other sectors alone unless it is the erase of the whole chip.
EraseIsWhole ==
    [][ (mem' # mem /\ written = EraseArmed)
          => \/ \A p \in Offsets : mem'[p] = 255
             \/ \E s \in 0..7 : \A p \in Offsets :
                    mem'[p] = IF Sector(p) = s THEN 255 ELSE mem[p] ]_vars

\* While the identifier is offered the chip is not mapped, so that the read comes
\* to the emulator, and a half-mapped chip never outlives its failed call.
IdentifierVisible ==
    ~requestExit => /\ chip = alias
                    /\ flashState = "ProductIdentification" => ~chip

\* "reset device" (main.cpp:813): after it, the array can be read again.
ResetMakesReadable ==
    [][ (\E o \in Offsets : Reset(o, 240)) => chip' /\ alias' ]_vars
=============================================================================
