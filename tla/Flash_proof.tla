---------------------------- MODULE Flash_proof ----------------------------
(* Proofs about Flash, for every set of offsets and of command values. *)
EXTENDS Flash, SequenceTheorems, TLAPS

\* A write either falls back to Read or follows one of the transitions.
LEMMA DecodedFollows ==
    ASSUME NEW state, NEW w, Decoded(state, w) # "Read"
    PROVE  \E t \in Transition : t.in = state /\ t.on = w /\ Decoded(state, w) = t.to
<1>. DEFINE matches == {t \in Transition : t.in = state /\ t.on = w}
<1>1. matches # {} /\ Decoded(state, w) = (CHOOSE t \in matches : TRUE).to
  BY DEF Decoded
<1>2. (CHOOSE t \in matches : TRUE) \in matches
  BY <1>1
<1>. QED
  BY <1>1, <1>2

\* A sequence that has the elements of s and then e is s with e appended.
LEMMA AppendedIs ==
    ASSUME NEW S, NEW s \in Seq(S), NEW e \in S, NEW t \in Seq(S),
           Len(t) = Len(s) + 1, \A i \in 1..Len(s) : t[i] = s[i], t[Len(s) + 1] = e
    PROVE  Append(s, e) = t
<1>1. /\ Append(s, e) \in Seq(S) /\ Len(Append(s, e)) = Len(s) + 1
      /\ \A i \in 1..Len(s) : Append(s, e)[i] = s[i]
      /\ Append(s, e)[Len(s) + 1] = e
  BY AppendProperties
<1>2. Len(s) \in Nat
  OBVIOUS
<1>3. \A i \in 1..Len(t) : i \in 1..Len(s) \/ i = Len(s) + 1
  BY <1>2
<1>4. \A i \in 1..Len(t) : Append(s, e)[i] = t[i]
  BY <1>1, <1>3, Zenon
<1>. QED
  BY <1>1, <1>4, SeqEqual

\* Which the provers need to be told of the sequences that follow.
LEMMA AppendTo1 ==
    ASSUME NEW a, NEW b
    PROVE  Append(<<a>>, b) = <<a, b>>
<1>. DEFINE S == {a, b}
            s == <<a>>
            t == <<a, b>>
<1>1. s \in Seq(S) /\ t \in Seq(S) /\ b \in S
  OBVIOUS
<1>2. Len(s) = 1 /\ Len(t) = 2 /\ t[2] = b /\ \A i \in 1..1 : t[i] = s[i]
  OBVIOUS
<1>. HIDE DEF S, s, t
<1>3. Len(t) = Len(s) + 1 /\ t[Len(s) + 1] = b /\ \A i \in 1..Len(s) : t[i] = s[i]
  <2>1. Len(s) + 1 = 2
    BY <1>2
  <2>. QED
    BY <1>2, <2>1, Zenon
<1>4. Append(s, b) = t
  BY <1>1, <1>3, AppendedIs, Zenon
<1>. QED
  BY <1>4 DEF s, t

LEMMA AppendTo2 ==
    ASSUME NEW a, NEW b, NEW c
    PROVE  Append(<<a, b>>, c) = <<a, b, c>>
<1>. DEFINE S == {a, b, c}
            s == <<a, b>>
            t == <<a, b, c>>
<1>1. s \in Seq(S) /\ t \in Seq(S) /\ c \in S
  OBVIOUS
<1>2. Len(s) = 2 /\ Len(t) = 3 /\ t[3] = c /\ \A i \in 1..2 : t[i] = s[i]
  OBVIOUS
<1>. HIDE DEF S, s, t
<1>3. Len(t) = Len(s) + 1 /\ t[Len(s) + 1] = c /\ \A i \in 1..Len(s) : t[i] = s[i]
  <2>1. Len(s) + 1 = 3
    BY <1>2
  <2>. QED
    BY <1>2, <2>1, Zenon
<1>4. Append(s, c) = t
  BY <1>1, <1>3, AppendedIs, Zenon
<1>. QED
  BY <1>4 DEF s, t

LEMMA AppendTo3 ==
    ASSUME NEW a, NEW b, NEW c, NEW d
    PROVE  Append(<<a, b, c>>, d) = <<a, b, c, d>>
<1>. DEFINE S == {a, b, c, d}
            s == <<a, b, c>>
            t == <<a, b, c, d>>
<1>1. s \in Seq(S) /\ t \in Seq(S) /\ d \in S
  OBVIOUS
<1>2. Len(s) = 3 /\ Len(t) = 4 /\ t[4] = d /\ \A i \in 1..3 : t[i] = s[i]
  OBVIOUS
<1>. HIDE DEF S, s, t
<1>3. Len(t) = Len(s) + 1 /\ t[Len(s) + 1] = d /\ \A i \in 1..Len(s) : t[i] = s[i]
  <2>1. Len(s) + 1 = 4
    BY <1>2
  <2>. QED
    BY <1>2, <2>1, Zenon
<1>4. Append(s, d) = t
  BY <1>1, <1>3, AppendedIs, Zenon
<1>. QED
  BY <1>4 DEF s, t

LEMMA AppendTo4 ==
    ASSUME NEW a, NEW b, NEW c, NEW d, NEW e
    PROVE  Append(<<a, b, c, d>>, e) = <<a, b, c, d, e>>
<1>. DEFINE S == {a, b, c, d, e}
            s == <<a, b, c, d>>
            t == <<a, b, c, d, e>>
<1>1. s \in Seq(S) /\ t \in Seq(S) /\ e \in S
  OBVIOUS
<1>2. Len(s) = 4 /\ Len(t) = 5 /\ t[5] = e /\ \A i \in 1..4 : t[i] = s[i]
  OBVIOUS
<1>. HIDE DEF S, s, t
<1>3. Len(t) = Len(s) + 1 /\ t[Len(s) + 1] = e /\ \A i \in 1..Len(s) : t[i] = s[i]
  <2>1. Len(s) + 1 = 5
    BY <1>2
  <2>. QED
    BY <1>2, <2>1, Zenon
<1>4. Append(s, e) = t
  BY <1>1, <1>3, AppendedIs, Zenon
<1>. QED
  BY <1>4 DEF s, t

-----------------------------------------------------------------------------
\* While the machine runs, the slots agree with each other, and the chip is not
\* mapped while its identifier is offered: this is inductive as it stands.
LEMMA IdentifierStep == IdentifierVisible /\ [Next]_vars => IdentifierVisible'
<1>. SUFFICES ASSUME IdentifierVisible, [Next]_vars PROVE IdentifierVisible'
  OBVIOUS
<1>. USE DEF IdentifierVisible
<1>1. ASSUME NEW o \in Offsets, NEW c \in Commands, GuestWrites(o, c) PROVE IdentifierVisible'
  <2>1. CASE ProgramByte(o, c) \/ Reset(o, c)
    BY <1>1, <2>1 DEF GuestWrites, ProgramByte, Reset
  <2>2. CASE Command(o, c)
    <3>1. CASE flashState' = "ProductIdentification"
      BY <1>1, <2>2, <3>1 DEF Command, SetSlots
    <3>2. CASE flashState' # "ProductIdentification"
      BY <1>1, <2>2, <3>2 DEF Command, GuestWrites
    <3>. QED
      BY <3>1, <3>2
  <2>. QED
    BY <1>1, <2>1, <2>2 DEF GuestWrites
<1>2. CASE GuestReads
  <2>1. flashState' = "Read"
    BY <1>2 DEF GuestReads
  <2>2. CASE flashState = "ProductIdentification"
    <3>1. PICK chipOk \in BOOLEAN, aliasOk \in BOOLEAN :
             /\ chip' = IF chipOk THEN TRUE ELSE chip
             /\ alias' = IF chipOk /\ aliasOk THEN TRUE ELSE alias
             /\ requestExit' = ~(chipOk /\ aliasOk)
      BY <1>2, <2>2 DEF GuestReads, SetSlots
    <3>2. CASE chipOk /\ aliasOk
      BY <2>1, <3>1, <3>2
    <3>3. CASE ~(chipOk /\ aliasOk)
      BY <3>1, <3>3
    <3>. QED
      BY <3>2, <3>3
  <2>3. CASE flashState # "ProductIdentification"
    BY <1>2, <2>1, <2>3 DEF GuestReads
  <2>. QED
    BY <2>2, <2>3
<1>3. CASE UNCHANGED vars
  BY <1>3 DEF vars
<1>. QED
  BY <1>1, <1>2, <1>3 DEF Next

\* The identifier is only ever offered by an unmapped chip, and the machine never
\* goes on with a half-mapped one.
THEOREM IdentifierVisibleCorrect == Spec => []IdentifierVisible
<1>1. Init => IdentifierVisible
  BY DEF Init, IdentifierVisible
<1>. QED
  BY <1>1, IdentifierStep, PTL DEF Spec

-----------------------------------------------------------------------------
\* What makes ChangesOnlyWhenArmed follow: the state of the decoder tells exactly
\* which writes have led to it.
ArmedInv ==
    /\ mem \in [Offsets -> 0..255]
    /\ flashState = "Read" => written = <<>>
    /\ flashState = "CommandByte_1" => written = <<Unlock1>>
    /\ flashState = "CommandByte_2" => written = <<Unlock1, Unlock2>>
    /\ flashState = "CommandByte_3" => written = <<Unlock1, Unlock2, Erase>>
    /\ flashState = "CommandByte_4" => written = <<Unlock1, Unlock2, Erase, Unlock1>>
    /\ flashState = "CommandByte_5" => written = EraseArmed
    /\ flashState = "Program" => written = ProgramArmed

LEMMA MemoryStep ==
    ASSUME mem \in [Offsets -> 0..255], [Next]_vars
    PROVE  mem' \in [Offsets -> 0..255]
<1>1. ASSUME NEW o \in Offsets, NEW c \in Commands, GuestWrites(o, c)
      PROVE  mem' \in [Offsets -> 0..255]
  <2>1. CASE ProgramByte(o, c)
    <3>1. c \in 0..255
      BY CommandsAssumption
    <3>. QED
      BY <2>1, <3>1 DEF ProgramByte
  <2>2. CASE Reset(o, c)
    BY <2>2 DEF Reset
  <2>3. CASE Command(o, c)
    <3>1. \A p \in Offsets : mem[p] \in 0..255 /\ 255 \in 0..255
      OBVIOUS
    <3>2. \E erased : mem' = [p \in Offsets |-> IF p \in erased THEN 255 ELSE mem[p]]
      BY <2>3, Zenon DEF Command
    <3>. QED
      BY <3>1, <3>2
  <2>. QED
    BY <1>1, <2>1, <2>2, <2>3 DEF GuestWrites
<1>2. CASE GuestReads
  BY <1>2 DEF GuestReads
<1>. QED
  BY <1>1, <1>2 DEF Next, vars

\* The sequences of ArmedInv, each the one before with one more write.
LEMMA Follows ==
    /\ Append(<<>>, Unlock1) = <<Unlock1>>
    /\ Append(<<Unlock1>>, Unlock2) = <<Unlock1, Unlock2>>
    /\ Append(<<Unlock1, Unlock2>>, Erase) = <<Unlock1, Unlock2, Erase>>
    /\ Append(<<Unlock1, Unlock2, Erase>>, Unlock1) = <<Unlock1, Unlock2, Erase, Unlock1>>
    /\ Append(<<Unlock1, Unlock2, Erase, Unlock1>>, Unlock2) = EraseArmed
    /\ Append(<<Unlock1, Unlock2>>, Program) = ProgramArmed
<1>1. Append(<<>>, Unlock1) = <<Unlock1>>
  OBVIOUS
<1>2. Append(<<Unlock1>>, Unlock2) = <<Unlock1, Unlock2>>
  BY AppendTo1, Zenon
<1>3. Append(<<Unlock1, Unlock2>>, Program) = <<Unlock1, Unlock2, Program>>
  BY AppendTo2, Zenon
<1>4. Append(<<Unlock1, Unlock2>>, Erase) = <<Unlock1, Unlock2, Erase>>
  BY AppendTo2, Zenon
<1>5. Append(<<Unlock1, Unlock2, Erase>>, Unlock1) = <<Unlock1, Unlock2, Erase, Unlock1>>
  BY AppendTo3, Zenon
<1>6. Append(<<Unlock1, Unlock2, Erase, Unlock1>>, Unlock2)
        = <<Unlock1, Unlock2, Erase, Unlock1, Unlock2>>
  BY AppendTo4, Zenon
<1>. QED
  BY <1>1, <1>2, <1>3, <1>4, <1>5, <1>6 DEF EraseArmed, ProgramArmed

LEMMA ArmedStep == ArmedInv /\ [Next]_vars => ArmedInv'
<1>. SUFFICES ASSUME ArmedInv, [Next]_vars PROVE ArmedInv'
  OBVIOUS
<1>1. mem' \in [Offsets -> 0..255]
  <2>1. mem \in [Offsets -> 0..255]
    BY DEF ArmedInv
  <2>. QED
    BY <2>1, MemoryStep
<1>2. ASSUME flashState' = "Read", written' = <<>> PROVE ArmedInv'
  BY <1>1, <1>2 DEF ArmedInv
<1>3. ASSUME NEW o \in Offsets, NEW c \in Commands, Command(o, c) PROVE ArmedInv'
  <2>. DEFINE w == Write(o, c)
  <2>1. CASE flashState' = "Read"
    BY <1>2, <1>3, <2>1 DEF Command, Remember
  <2>2. CASE flashState' # "Read"
    <3>1. written' = Append(written, w)
      BY <1>3, <2>2 DEF Command, Remember
    <3>2. PICK t \in Transition : t.in = flashState /\ t.on = w /\ flashState' = t.to
      BY <1>3, <2>2, DecodedFollows DEF Command
    <3>. HIDE DEF w
    <3>3. CASE t = Moves("Read", Unlock1, "CommandByte_1")
      <4>1. flashState = "Read" /\ w = Unlock1 /\ flashState' = "CommandByte_1"
        BY <3>2, <3>3 DEF Moves
      <4>2. written' = <<Unlock1>>
        BY <3>1, <4>1, Follows, Zenon DEF ArmedInv
      <4>. QED
        BY <1>1, <4>1, <4>2 DEF ArmedInv
    <3>4. CASE t = Moves("CommandByte_1", Unlock2, "CommandByte_2")
      <4>1. flashState = "CommandByte_1" /\ w = Unlock2 /\ flashState' = "CommandByte_2"
        BY <3>2, <3>4 DEF Moves
      <4>2. written' = <<Unlock1, Unlock2>>
        BY <3>1, <4>1, Follows, Zenon DEF ArmedInv
      <4>. QED
        BY <1>1, <4>1, <4>2 DEF ArmedInv
    <3>5. CASE t = Moves("CommandByte_2", Erase, "CommandByte_3")
      <4>1. flashState = "CommandByte_2" /\ w = Erase /\ flashState' = "CommandByte_3"
        BY <3>2, <3>5 DEF Moves
      <4>2. written' = <<Unlock1, Unlock2, Erase>>
        BY <3>1, <4>1, Follows, Zenon DEF ArmedInv
      <4>. QED
        BY <1>1, <4>1, <4>2 DEF ArmedInv
    <3>6. CASE t = Moves("CommandByte_3", Unlock1, "CommandByte_4")
      <4>1. flashState = "CommandByte_3" /\ w = Unlock1 /\ flashState' = "CommandByte_4"
        BY <3>2, <3>6 DEF Moves
      <4>2. written' = <<Unlock1, Unlock2, Erase, Unlock1>>
        BY <3>1, <4>1, Follows, Zenon DEF ArmedInv
      <4>. QED
        BY <1>1, <4>1, <4>2 DEF ArmedInv
    <3>7. CASE t = Moves("CommandByte_4", Unlock2, "CommandByte_5")
      <4>1. flashState = "CommandByte_4" /\ w = Unlock2 /\ flashState' = "CommandByte_5"
        BY <3>2, <3>7 DEF Moves
      <4>2. written' = EraseArmed
        BY <3>1, <4>1, Follows, Zenon DEF ArmedInv
      <4>. QED
        BY <1>1, <4>1, <4>2 DEF ArmedInv
    <3>8. CASE t = Moves("CommandByte_2", Program, "Program")
      <4>1. flashState = "CommandByte_2" /\ w = Program /\ flashState' = "Program"
        BY <3>2, <3>8 DEF Moves
      <4>2. written' = ProgramArmed
        BY <3>1, <4>1, Follows, Zenon DEF ArmedInv
      <4>. QED
        BY <1>1, <4>1, <4>2 DEF ArmedInv
    <3>9. CASE t = Moves("CommandByte_2", Identify, "ProductIdentification")
      <4>1. flashState = "CommandByte_2" /\ w = Identify /\ flashState' = "ProductIdentification"
        BY <3>2, <3>9 DEF Moves
      <4>. QED
        BY <1>1, <4>1 DEF ArmedInv
    <3>. QED
      BY <3>2, <3>3, <3>4, <3>5, <3>6, <3>7, <3>8, <3>9 DEF Transition
  <2>. QED
    BY <2>1, <2>2
<1>4. ASSUME NEW o \in Offsets, NEW c \in Commands, GuestWrites(o, c) PROVE ArmedInv'
  BY <1>2, <1>3, <1>4 DEF GuestWrites, ProgramByte, Reset
<1>5. CASE GuestReads
  BY <1>2, <1>5 DEF GuestReads
<1>6. CASE UNCHANGED vars
  BY <1>6 DEF vars, ArmedInv
<1>. QED
  BY <1>4, <1>5, <1>6 DEF Next

\* A step from a state of the invariant changes the contents only when armed.
LEMMA ChangeIsArmed ==
    ASSUME ArmedInv, [Next]_vars, mem' # mem
    PROVE  \/ written = EraseArmed
           \/ /\ written = ProgramArmed
              /\ \E o \in Offsets : \A p \in Offsets \ {o} : mem'[p] = mem[p]
<1>1. PICK o \in Offsets, c \in Commands : GuestWrites(o, c)
  BY DEF Next, GuestReads, vars
<1>2. CASE ProgramByte(o, c)
  BY <1>2 DEF ProgramByte, ArmedInv
<1>3. CASE Reset(o, c)
  BY <1>3 DEF Reset
<1>4. CASE Command(o, c)
  <2>1. CASE flashState = "CommandByte_5"
    BY <2>1 DEF ArmedInv
  <2>2. CASE flashState # "CommandByte_5"
    <3>1. Erased(flashState, o, c) = {}
      BY <2>2 DEF Erased
    <3>2. mem' = [p \in Offsets |-> mem[p]]
      BY <1>4, <3>1 DEF Command
    <3>. QED
      BY <3>2 DEF ArmedInv
  <2>. QED
    BY <2>1, <2>2
<1>. QED
  BY <1>1, <1>2, <1>3, <1>4 DEF GuestWrites

\* The flash file changes only by a complete program or erase sequence.
THEOREM ChangesOnlyWhenArmedCorrect == Spec => ChangesOnlyWhenArmed
<1>1. Init => ArmedInv
  BY DEF Init, ArmedInv
<1>2. ArmedInv /\ [Next]_vars =>
        [mem' # mem => \/ written = EraseArmed
                       \/ /\ written = ProgramArmed
                          /\ \E o \in Offsets : \A p \in Offsets \ {o} : mem'[p] = mem[p] ]_vars
  BY ChangeIsArmed
<1>. QED
  BY <1>1, <1>2, ArmedStep, PTL DEF Spec, ChangesOnlyWhenArmed

\* The writes that arm a program are not those that arm an erase.
LEMMA ArmedDiffer == ProgramArmed # EraseArmed
<1>1. Len(ProgramArmed) = 3 /\ Len(EraseArmed) = 5
  BY DEF ProgramArmed, EraseArmed
<1>. QED
  BY <1>1

\* Every offset is in one of the eight sectors.
LEMMA SectorsAre == ASSUME NEW o \in Offsets PROVE Sector(o) \in 0..7
  BY OffsetsAssumption, SMT DEF Sector

\* A step that changes the chip once an erase is armed is that erase, of all it names.
LEMMA ErasureIsWhole ==
    ASSUME ArmedInv, [Next]_vars, mem' # mem, written = EraseArmed
    PROVE  \/ \A p \in Offsets : mem'[p] = 255
           \/ \E s \in 0..7 : \A p \in Offsets :
                  mem'[p] = IF Sector(p) = s THEN 255 ELSE mem[p]
<1>1. PICK o \in Offsets, c \in Commands : GuestWrites(o, c)
  BY DEF Next, GuestReads, vars
<1>2. flashState # "Program"
  BY ArmedDiffer DEF ArmedInv
<1>3. Command(o, c)
  BY <1>1, <1>2 DEF GuestWrites, ProgramByte, Reset
<1>. DEFINE erased == Erased(flashState, o, c)
<1>4. mem' = [p \in Offsets |-> IF p \in erased THEN 255 ELSE mem[p]]
  BY <1>3 DEF Command
<1>5. Sector(o) \in 0..7
  BY SectorsAre
<1>6. \/ erased = {} \/ erased = Offsets
      \/ erased = {p \in Offsets : Sector(p) = Sector(o)}
  BY DEF Erased
<1>. HIDE DEF erased
<1>7. CASE erased = {}
  BY <1>4, <1>7 DEF ArmedInv
<1>8. CASE erased = Offsets
  BY <1>4, <1>8
<1>9. CASE erased = {p \in Offsets : Sector(p) = Sector(o)}
  <2>1. \A p \in Offsets : mem'[p] = IF Sector(p) = Sector(o) THEN 255 ELSE mem[p]
    BY <1>4, <1>9
  <2>. QED
    BY <1>5, <2>1
<1>. QED
  BY <1>6, <1>7, <1>8, <1>9

\* An erase blanks one whole sector of the eight, or the whole chip.
THEOREM EraseIsWholeCorrect == Spec => EraseIsWhole
<1>1. Init => ArmedInv
  BY DEF Init, ArmedInv
<1>2. ArmedInv /\ [Next]_vars =>
        [(mem' # mem /\ written = EraseArmed)
           => \/ \A p \in Offsets : mem'[p] = 255
              \/ \E s \in 0..7 : \A p \in Offsets :
                     mem'[p] = IF Sector(p) = s THEN 255 ELSE mem[p]]_vars
  BY ErasureIsWhole
<1>. QED
  BY <1>1, <1>2, ArmedStep, PTL DEF Spec, EraseIsWhole

=============================================================================
