-------------------------- MODULE Peripherals_proof --------------------------
(***************************************************************************)
(* Proofs about the peripherals: the interval timer for every width of its *)
(* bytes and any times and bytes, the ports' tables for every port, the    *)
(* clock's alarm and its memory for every time and every crash, the chip   *)
(* select unit for every window and every memory.                          *)
(***************************************************************************)
EXTENDS Peripherals, WellFoundedInduction, TLAPS

-----------------------------------------------------------------------------
(* Arithmetic. *)

LEMMA Division ==
    ASSUME NEW x \in Nat, NEW m \in Nat, m > 0
    PROVE  /\ x \div m \in Nat /\ x % m \in Nat /\ x % m < m
           /\ x = m * (x \div m) + (x % m)
BY SMT

LEMMA Product == ASSUME NEW m \in Nat, NEW n \in Nat PROVE m * n \in Nat
BY SMT

LEMMA Multiple ==
    ASSUME NEW m \in Nat, NEW p \in Int, NEW q \in Int, p < q
    PROVE  m * p + m <= m * q
<1>1. q - p - 1 \in Nat
  BY SMT
<1>2. m * (q - p - 1) \in Nat
  BY <1>1, SMT
<1>3. m * (q - p - 1) = m * q - m * p - m
  BY SMT
<1>. QED
  BY <1>2, <1>3, SMT

\* Quotient and remainder are unique.
LEMMA Remainder ==
    ASSUME NEW m \in Nat, NEW p \in Nat, NEW y \in Nat, y < m
    PROVE  /\ (m * p + y) % m = y
           /\ (m * p + y) \div m = p
<1>. DEFINE x == m * p + y
            q == x \div m
            r == x % m
<1>1. x \in Nat
  BY SMT
<1>2. q \in Nat /\ r \in Nat /\ r < m /\ x = m * q + r
  BY <1>1, Division, SMT
<1>3. m * p \in Int /\ m * q \in Int /\ x = m * p + y
  BY <1>2, SMT
<1>. HIDE DEF x, q, r
<1>4. ~(p < q)
  BY <1>2, <1>3, Multiple, SMT
<1>5. ~(q < p)
  BY <1>2, <1>3, Multiple, SMT
<1>6. p = q
  BY <1>2, <1>4, <1>5, SMT
<1>7. y = r
  BY <1>2, <1>3, <1>6, SMT
<1>. QED
  BY <1>6, <1>7 DEF x, q, r

\* The two digits of a number, in a base and the next.
LEMMA Digits ==
    ASSUME NEW x \in Nat, NEW u \in Nat, u > 0, NEW r \in Nat, r > 0
    PROVE  (x % u) + u * ((x \div u) % r) = x % (u * r)
<1>. DEFINE q == x \div u
            s == q % r
            p == q \div r
            y == (x % u) + u * s
<1>1. q \in Nat /\ x % u \in Nat /\ x % u < u /\ x = u * q + (x % u)
  BY Division
<1>2. p \in Nat /\ s \in Nat /\ s < r /\ q = r * p + s
  BY <1>1, Division
<1>3. u * r \in Nat /\ u * s \in Nat /\ y \in Nat
  BY <1>1, <1>2, SMT
<1>4. y < u * r
  <2>1. u * s + u <= u * r
    BY <1>2, Multiple, SMT
  <2>. QED
    BY <1>1, <1>2, <1>3, <2>1, SMT
<1>5. x = (u * r) * p + y
  <2>1. u * (r * p + s) = (u * r) * p + u * s
    BY <1>2, SMT
  <2>. QED
    BY <1>1, <1>2, <1>3, <2>1, SMT
<1>. HIDE DEF y, p, s, q
<1>6. ((u * r) * p + y) % (u * r) = y
  BY <1>2, <1>3, <1>4, Remainder
<1>. QED
  BY <1>5, <1>6 DEF y, s, q

-----------------------------------------------------------------------------
(* The timer: its types, and what its steps are. *)

TimerTypes ==
    /\ value \in Nat /\ latch \in Nat /\ reload \in Nat /\ reload < Radix * Radix
    /\ prescaler \in Nat /\ timerPrescaler \in Nat /\ first \in Nat /\ low \in Nat
    /\ waitingForLoad \in BOOLEAN /\ pendingLoad \in BOOLEAN /\ latched \in BOOLEAN
    /\ accessMode \in {"low", "high", "both"} /\ numberFormat \in {"binary", "decimal"}
    /\ writeByte \in {"low", "high"} /\ accessByte \in {"low", "high", "status"}
    /\ session \in {"none", "low", "torn"} /\ due \in Nat

LEMMA Widths == /\ Radix \in Nat /\ Radix > 0 /\ Hundred \in Nat /\ Hundred > 0
                /\ Pit!Unit \in Nat /\ Pit!Unit > 0
                /\ Radix * Radix \in Nat /\ Radix * Radix > 0
<1>1. Radix \in Nat /\ Radix > 0 /\ Hundred \in Nat /\ Hundred > 0
  <2>1. Radix \in Nat /\ Hundred \in 1..Radix
    BY InputsAssumption, PTL
  <2>. QED
    BY <2>1
<1>2. Radix * Radix \in Nat /\ Radix * Radix > 0
  BY <1>1, SMT
<1>. QED
  BY <1>1, <1>2 DEF Pit!Unit

LEMMA TimerSteps == ASSUME [Next]_vars PROVE Pit!Next \/ UNCHANGED timer
BY DEF Next, vars

\* What the time since the last access makes of the count.
LEMMA CountedIs ==
    ASSUME NEW n \in Nat, NEW ticks \in Nat, reload \in Nat
    PROVE  /\ Pit!Counted(n, ticks) \in Nat
           /\ ticks > n => Pit!Counted(n, ticks) <= reload
           /\ ~(ticks > n) => Pit!Counted(n, ticks) <= n
<1>1. CASE ticks > n
  <2>1. ticks - n \in Nat /\ reload + 1 \in Nat /\ reload + 1 > 0
    BY <1>1
  <2>2. (ticks - n) % (reload + 1) \in Nat /\ (ticks - n) % (reload + 1) < reload + 1
    BY <2>1, Division
  <2>. QED
    BY <1>1, <2>2 DEF Pit!Counted
<1>2. CASE ~(ticks > n)
  BY <1>2 DEF Pit!Counted
<1>. QED
  BY <1>1, <1>2

LEMMA ResolveIs ==
    ASSUME TimerTypes, NEW d \in Nat, Pit!Resolve(d)
    PROVE  /\ value' \in Nat /\ pendingLoad' \in BOOLEAN
           /\ Pit!NullCountHonest /\ ~waitingForLoad /\ ~pendingLoad' => value' <= reload
<1>1. CASE waitingForLoad \/ timerPrescaler = 0
  BY <1>1 DEF Pit!Resolve, TimerTypes, Pit!NullCountHonest
<1>2. CASE ~waitingForLoad /\ timerPrescaler # 0
  <2>. DEFINE ticks == d \div timerPrescaler
  <2>1. ticks \in Nat
    BY <1>2, Division DEF TimerTypes
  <2>2. value' = Pit!Counted(value, ticks) /\ pendingLoad' = (pendingLoad /\ ticks <= value)
    BY <1>2 DEF Pit!Resolve
  <2>. HIDE DEF ticks
  <2>3. /\ value' \in Nat
        /\ ticks > value => value' <= reload
        /\ ~(ticks > value) => value' <= value
    BY <2>1, <2>2, CountedIs DEF TimerTypes
  <2>4. pendingLoad' \in BOOLEAN
    BY <2>2
  <2>5. ASSUME Pit!NullCountHonest, ~pendingLoad' PROVE value' <= reload
    <3>1. CASE ticks > value
      BY <2>3, <3>1
    <3>2. CASE ~(ticks > value)
      <4>1. ~pendingLoad
        BY <2>1, <2>2, <2>5, <3>2 DEF TimerTypes
      <4>2. value <= reload
        BY <1>2, <2>5, <4>1 DEF Pit!NullCountHonest
      <4>. QED
        BY <2>3, <3>2, <4>2 DEF TimerTypes
    <3>. QED
      BY <3>1, <3>2
  <2>. QED
    BY <2>3, <2>4, <2>5
<1>. QED
  BY <1>1, <1>2 DEF TimerTypes

\* And of what is due.
LEMMA ElapseIs ==
    ASSUME TimerTypes, NEW d \in Nat, Pit!Elapse(d)
    PROVE  Pit!Resolve(d) /\ due' \in Nat
<1>1. reload * timerPrescaler \in Nat
  BY Product DEF TimerTypes
<1>2. \A time \in Nat : Pit!Less(time, d) \in Nat
  BY DEF Pit!Less
<1>. QED
  BY <1>1, <1>2 DEF Pit!Elapse, TimerTypes

\* The steps that turn time into ticks leave what is loaded alone, but for Configure.
LEMMA TimerStepIs ==
    ASSUME Pit!Next
    PROVE  \/ \E byte \in Bytes : Pit!WriteRegister(byte)
           \/ \E d \in Delays :
                /\ Pit!Resolve(d) /\ UNCHANGED reload
                /\ \/ \E mode \in {"low", "high", "both"}, format \in {"binary", "decimal"} :
                         Pit!Configure(mode, format, d)
                   \/ UNCHANGED <<Pit!load, Pit!modes>>
<1>1. ASSUME NEW d \in Delays, Pit!OtherChannel(d) \/ Pit!CounterLatch(d) \/ Pit!ReadRegister(d)
      PROVE  Pit!Resolve(d) /\ UNCHANGED <<Pit!load, Pit!modes>>
  BY <1>1 DEF Pit!OtherChannel, Pit!CounterLatch, Pit!ReadRegister, Pit!Elapse
<1>2. ASSUME NEW d \in Delays, NEW status \in BOOLEAN, NEW counts \in BOOLEAN,
             Pit!ReadBack(status, counts, d)
      PROVE  Pit!Resolve(d) /\ UNCHANGED <<Pit!load, Pit!modes>>
  BY <1>2 DEF Pit!ReadBack, Pit!Elapse
<1>3. ASSUME NEW d \in Delays, NEW part \in {"low", "high", "word"}, NEW word \in Divisors,
             Pit!WritePrescaler(part, word, d)
      PROVE  Pit!Resolve(d) /\ UNCHANGED <<Pit!load, Pit!modes>>
  BY <1>3 DEF Pit!WritePrescaler, Pit!SetPrescaler
<1>4. ASSUME NEW d \in Delays, NEW mode \in {"low", "high", "both"},
             NEW format \in {"binary", "decimal"}, Pit!Configure(mode, format, d)
      PROVE  Pit!Resolve(d) /\ UNCHANGED reload
  BY <1>4 DEF Pit!Configure
<1>5. ASSUME UNCHANGED Pit!load PROVE UNCHANGED reload
  BY <1>5 DEF Pit!load
<1>. QED
  BY <1>1, <1>2, <1>3, <1>4, <1>5 DEF Pit!Next

\* A byte written replaces its half of the reload value.
LEMMA HalfIs ==
    ASSUME TimerTypes, NEW byte \in Nat
    PROVE  Pit!Half(byte) \in Nat /\ Pit!Half(byte) < Radix * Radix
<1>1. reload % Pit!Unit \in Nat /\ reload - (reload % Pit!Unit) \in Nat
  <2>1. /\ reload \div Pit!Unit \in Nat /\ reload % Pit!Unit \in Nat
        /\ reload = Pit!Unit * (reload \div Pit!Unit) + (reload % Pit!Unit)
    BY Widths, Division DEF TimerTypes
  <2>2. Pit!Unit * (reload \div Pit!Unit) \in Nat
    BY <2>1, Widths, SMT
  <2>. QED
    BY <2>1, <2>2, SMT DEF TimerTypes
<1>2. Pit!Unit * byte \in Nat
  BY Widths, SMT
<1>3. /\ (reload - (reload % Pit!Unit)) + byte \in Nat
      /\ Pit!Unit * byte + (reload % Pit!Unit) \in Nat
  BY <1>1, <1>2
<1>. QED
  BY <1>3, Widths, Division DEF Pit!Half

LEMMA PartIs ==
    ASSUME NEW byte, NEW n \in Nat
    PROVE  Pit!Part(byte, n) \in Nat
<1>1. n % Pit!Unit \in Nat /\ n \div Pit!Unit \in Nat
  BY Widths, Division
<1>2. (n \div Pit!Unit) % Radix \in Nat
  BY <1>1, Widths, Division
<1>. QED
  BY <1>1, <1>2 DEF Pit!Part

LEMMA TimerTypesInit == Init => TimerTypes
<1>1. Init => Pit!Init
  BY PTL DEF Init
<1>2. ASSUME Pit!Init PROVE TimerTypes
  <2>1. 0 \in Nat /\ 2 \in Nat /\ 0 < Radix * Radix
    BY Widths
  <2>. QED
    BY <1>2, <2>1 DEF Pit!Init, TimerTypes
<1>. QED
  BY <1>1, <1>2

LEMMA TimerTypesStep == ASSUME TimerTypes, [Next]_vars PROVE TimerTypes'
<1>. USE DEF TimerTypes
<1>1. ASSUME NEW byte \in Bytes, Pit!WriteRegister(byte) PROVE TimerTypes'
  <2>1. byte \in Nat
    <3>1. Bytes \subseteq 0..(Radix - 1)
      BY InputsAssumption, PTL
    <3>. QED
      BY <3>1, Widths
  <2>2. reload' \in Nat /\ reload' < Radix * Radix
    BY <1>1, <2>1, HalfIs DEF Pit!WriteRegister
  <2>3. /\ value' \in Nat /\ waitingForLoad' \in BOOLEAN /\ pendingLoad' \in BOOLEAN
        /\ due' \in Nat
    <3>1. reload' * timerPrescaler \in Nat
      BY <2>2, Product
    <3>. QED
      BY <1>1, <2>2, <3>1 DEF Pit!WriteRegister, Pit!TakeLoad
  <2>4. writeByte' \in {"low", "high"} /\ first' \in Nat
    BY <1>1, <2>1 DEF Pit!WriteRegister
  <2>5. UNCHANGED <<latch, latched, accessByte, session, low, accessMode, numberFormat, prescaler,
                    timerPrescaler>>
    BY <1>1 DEF Pit!WriteRegister, Pit!read, Pit!modes, Pit!divider
  <2>. QED
    BY <2>2, <2>3, <2>4, <2>5
<1>0. Delays \subseteq Nat
  BY InputsAssumption, PTL
<1>2. ASSUME NEW d \in Delays, Pit!Elapse(d)
      PROVE  value' \in Nat /\ pendingLoad' \in BOOLEAN /\ due' \in Nat
  BY <1>0, <1>2, ResolveIs, ElapseIs
<1>3. ASSUME NEW d \in Delays, Pit!OtherChannel(d) PROVE TimerTypes'
  BY <1>2, <1>3 DEF Pit!OtherChannel, Pit!load, Pit!read, Pit!modes, Pit!divider
<1>4. ASSUME NEW d \in Delays, Pit!CounterLatch(d) PROVE TimerTypes'
  BY <1>2, <1>4 DEF Pit!CounterLatch, Pit!load, Pit!modes, Pit!divider
<1>5. ASSUME NEW d \in Delays, Pit!ReadRegister(d) PROVE TimerTypes'
  <2>1. Pit!Answer \in Nat
    BY PartIs DEF Pit!Answer
  <2>2. accessByte' \in {"low", "high"} /\ latched' \in BOOLEAN /\ latch' \in Nat
    BY <1>5 DEF Pit!ReadRegister, Pit!Advance, Pit!First
  <2>3. session' \in {"none", "low", "torn"} /\ low' \in Nat
    BY <1>5, <2>1 DEF Pit!ReadRegister
  <2>. QED
    BY <1>2, <1>5, <2>2, <2>3 DEF Pit!ReadRegister, Pit!load, Pit!modes, Pit!divider
<1>6. ASSUME NEW d \in Delays, NEW mode \in {"low", "high", "both"},
             NEW format \in {"binary", "decimal"}, Pit!Configure(mode, format, d)
      PROVE  TimerTypes'
  BY <1>0, <1>6, ResolveIs DEF Pit!Configure, Pit!First, Pit!divider
<1>7. ASSUME NEW d \in Delays, NEW status \in BOOLEAN, NEW counts \in BOOLEAN,
             Pit!ReadBack(status, counts, d)
      PROVE  TimerTypes'
  BY <1>2, <1>7 DEF Pit!ReadBack, Pit!First, Pit!load, Pit!modes, Pit!divider
<1>8. ASSUME NEW d \in Delays, NEW part \in {"low", "high", "word"}, NEW word \in Divisors,
             Pit!WritePrescaler(part, word, d)
      PROVE  TimerTypes'
  <2>1. word \in Nat
    <3>1. Divisors \subseteq 0..(Radix * Radix - 1)
      BY InputsAssumption, PTL
    <3>. QED
      BY <3>1, Widths
  <2>2. /\ prescaler \div Radix \in Nat /\ prescaler % Radix \in Nat
        /\ word \div Radix \in Nat /\ word % Radix \in Nat
    BY <2>1, Widths, Division
  <2>3. (prescaler \div Radix) * Radix \in Nat /\ (word \div Radix) * Radix \in Nat
    BY <2>2, Widths, SMT
  <2>4. \E w \in Nat : Pit!SetPrescaler(w, d)
    BY <1>8, <2>1, <2>2, <2>3 DEF Pit!WritePrescaler
  <2>5. PICK w \in Nat : Pit!SetPrescaler(w, d)
    BY <2>4
  <2>6. (w + 2) % (Radix * Radix) \in Nat
    BY Widths, Division
  <2>7. value' \in Nat /\ pendingLoad' \in BOOLEAN /\ timerPrescaler' \in Nat
    BY <1>0, <2>5, <2>6, ResolveIs DEF Pit!SetPrescaler
  <2>8. due' \in Nat
    <3>1. value' * timerPrescaler' \in Nat
      BY <2>7, Product
    <3>. QED
      BY <2>5, <3>1 DEF Pit!SetPrescaler
  <2>. QED
    BY <2>5, <2>7, <2>8 DEF Pit!SetPrescaler, Pit!load, Pit!read, Pit!modes
<1>9. CASE UNCHANGED timer
  BY <1>9 DEF timer
<1>. QED
  BY <1>1, <1>3, <1>4, <1>5, <1>6, <1>7, <1>8, <1>9, TimerSteps DEF Pit!Next

LEMMA TimerTypesCorrect == Spec => []TimerTypes
BY TimerTypesInit, TimerTypesStep, PTL DEF Spec

-----------------------------------------------------------------------------
(* The null-count bit. *)

LEMMA NullCountStep ==
    ASSUME TimerTypes, TimerTypes', Pit!NullCountHonest, [Next]_vars
    PROVE  Pit!NullCountHonest'
<1>1. ASSUME NEW byte \in Bytes, Pit!WriteRegister(byte) PROVE Pit!NullCountHonest'
  BY <1>1 DEF Pit!WriteRegister, Pit!TakeLoad, Pit!NullCountHonest, TimerTypes
<1>2. ASSUME NEW d \in Delays, Pit!Resolve(d), UNCHANGED reload,
             waitingForLoad' \/ waitingForLoad' = waitingForLoad
      PROVE  Pit!NullCountHonest'
  <2>1. Delays \subseteq Nat
    BY InputsAssumption, PTL
  <2>. QED
    BY <1>2, <2>1, ResolveIs DEF Pit!NullCountHonest
<1>3. ASSUME NEW d \in Delays, NEW mode \in {"low", "high", "both"},
             NEW format \in {"binary", "decimal"}, Pit!Configure(mode, format, d)
      PROVE  waitingForLoad'
  BY <1>3 DEF Pit!Configure
<1>4. ASSUME UNCHANGED Pit!load PROVE waitingForLoad' = waitingForLoad
  BY <1>4 DEF Pit!load
<1>5. CASE UNCHANGED timer
  BY <1>5 DEF timer, Pit!NullCountHonest
<1>. QED
  BY <1>1, <1>2, <1>3, <1>4, <1>5, TimerSteps, TimerStepIs

\* A status with the null-count bit clear never lies: the count has taken over the reload
\* value, however time passes and loads, commands and reads follow each other.
THEOREM NullCountHonestCorrect == Spec => []NullCountHonest
<1>1. Init => Pit!NullCountHonest
  BY DEF Init, Pit!Init, Pit!NullCountHonest
<1>2. TimerTypes /\ TimerTypes' /\ Pit!NullCountHonest /\ [Next]_vars => Pit!NullCountHonest'
  BY NullCountStep
<1>3. Pit!NullCountHonest => NullCountHonest
  BY DEF NullCountHonest
<1>. QED
  BY <1>1, <1>2, <1>3, TimerTypesCorrect, PTL DEF Spec

-----------------------------------------------------------------------------
(* A latched count. *)

\* A read under way is of a latched count, and its first byte was the count's low one;
\* only another latch leaves a latched count at its high byte otherwise.
LatchInv ==
    /\ session = "low" => latched /\ accessByte = "high" /\ low = latch % Pit!Unit
    /\ latched /\ accessMode = "both" /\ accessByte = "high" => session \in {"low", "torn"}

LEMMA LatchStep ==
    ASSUME TimerTypes, LatchInv, [Next]_vars
    PROVE  LatchInv'
<1>. USE DEF LatchInv, Pit!Unit
<1>1. ASSUME NEW byte \in Bytes, Pit!WriteRegister(byte) PROVE LatchInv'
  BY <1>1 DEF Pit!WriteRegister, Pit!read, Pit!modes
<1>2. ASSUME NEW d \in Delays, Pit!OtherChannel(d) PROVE LatchInv'
  BY <1>2 DEF Pit!OtherChannel, Pit!read, Pit!modes
<1>3. ASSUME NEW d \in Delays, Pit!CounterLatch(d) PROVE LatchInv'
  BY <1>3 DEF Pit!CounterLatch, Pit!modes
<1>4. ASSUME NEW d \in Delays, Pit!ReadRegister(d) PROVE LatchInv'
  <2>1. UNCHANGED <<accessMode, numberFormat>>
    BY <1>4 DEF Pit!ReadRegister, Pit!modes
  <2>2. CASE latched /\ accessByte = "low" /\ accessMode = "both"
    <3>1. Pit!Answer = latch % Pit!Unit
      BY <2>2 DEF Pit!Answer, Pit!Part
    <3>2. accessByte' = "high" /\ latched' /\ latch' = latch
      BY <1>4, <2>2 DEF Pit!ReadRegister, Pit!Advance
    <3>3. session' = "low" /\ low' = Pit!Answer
      BY <1>4, <2>2 DEF Pit!ReadRegister
    <3>. QED
      BY <2>1, <3>1, <3>2, <3>3
  <2>3. CASE ~(latched /\ accessByte = "low" /\ accessMode = "both")
    <3>1. session' = "none"
      BY <1>4, <2>3 DEF Pit!ReadRegister
    <3>2. accessMode = "both" /\ accessByte' = "high" => accessByte = "low"
      BY <1>4 DEF Pit!ReadRegister, Pit!Advance, Pit!First
    <3>3. latched' => latched
      BY <1>4 DEF Pit!ReadRegister, Pit!Advance, TimerTypes
    <3>. QED
      BY <2>1, <2>3, <3>1, <3>2, <3>3
  <2>. QED
    BY <2>2, <2>3
<1>5. ASSUME NEW d \in Delays, NEW mode \in {"low", "high", "both"},
             NEW format \in {"binary", "decimal"}, Pit!Configure(mode, format, d)
      PROVE  LatchInv'
  BY <1>5 DEF Pit!Configure, Pit!First
<1>6. ASSUME NEW d \in Delays, NEW status \in BOOLEAN, NEW counts \in BOOLEAN,
             Pit!ReadBack(status, counts, d)
      PROVE  LatchInv'
  BY <1>6 DEF Pit!ReadBack, Pit!First, Pit!modes
<1>7. ASSUME NEW d \in Delays, NEW part \in {"low", "high", "word"}, NEW word \in Divisors,
             Pit!WritePrescaler(part, word, d)
      PROVE  LatchInv'
  BY <1>7 DEF Pit!WritePrescaler, Pit!SetPrescaler, Pit!read, Pit!modes
<1>8. CASE UNCHANGED timer
  BY <1>8 DEF timer
<1>. QED
  BY <1>1, <1>2, <1>3, <1>4, <1>5, <1>6, <1>7, <1>8, TimerSteps DEF Pit!Next

\* The two bytes read of a latched count are that count, whatever time passes, whatever is
\* written and whatever status is read, unless the channel is latched again between them.
THEOREM LatchedReadIsWholeCorrect == Spec => []LatchedReadIsWhole
<1>1. Init => LatchInv
  BY DEF Init, Pit!Init, LatchInv
<1>2. TimerTypes /\ LatchInv /\ [Next]_vars => LatchInv'
  BY LatchStep
<1>3. ASSUME TimerTypes, LatchInv PROVE Pit!LatchedReadIsWhole
  <2>. SUFFICES ASSUME session = "low"
                PROVE  accessByte = "high" /\ low + Pit!Unit * Pit!Answer = latch % (Pit!Unit * Radix)
    BY <1>3 DEF Pit!LatchedReadIsWhole, LatchInv
  <2>1. accessByte = "high" /\ latched /\ low = latch % Pit!Unit
    BY <1>3 DEF LatchInv
  <2>2. Pit!Answer = (latch \div Pit!Unit) % Radix
    BY <2>1 DEF Pit!Answer, Pit!Part
  <2>3. (latch % Pit!Unit) + Pit!Unit * ((latch \div Pit!Unit) % Radix) = latch % (Pit!Unit * Radix)
    <3>. DEFINE u == Pit!Unit
    <3>1. /\ latch \in Nat /\ u \in Nat /\ u > 0 /\ Radix \in Nat /\ Radix > 0
      BY <1>3, Widths DEF TimerTypes
    <3>. HIDE DEF u
    <3>2. (latch % u) + u * ((latch \div u) % Radix) = latch % (u * Radix)
      BY <3>1, Digits, Zenon
    <3>. QED
      BY <3>2 DEF u
  <2>. QED
    BY <2>1, <2>2, <2>3
<1>4. Pit!LatchedReadIsWhole => LatchedReadIsWhole
  BY DEF LatchedReadIsWhole
<1>. QED
  BY <1>1, <1>2, <1>3, <1>4, TimerTypesCorrect, PTL DEF Spec

-----------------------------------------------------------------------------
(* A load of two bytes. *)

\* Between them the first one is the low digit of the reload value.
LoadInv == waitingForLoad /\ accessMode = "both" /\ numberFormat = "binary" /\ writeByte = "high"
              => first = reload % Radix

\* Replacing a low digit.
LEMMA LowReplaced ==
    ASSUME TimerTypes, NEW byte \in Nat, byte < Radix
    PROVE  ((reload - (reload % Radix) + byte) % (Radix * Radix)) % Radix = byte
<1>. DEFINE q == reload \div Radix
            x == Radix * q + byte
<1>1. q \in Nat /\ reload % Radix \in Nat /\ reload = Radix * q + (reload % Radix)
  BY Widths, Division DEF TimerTypes
<1>2. x \in Nat /\ Radix * q \in Nat
  BY <1>1, Widths, SMT
<1>3. reload - (reload % Radix) + byte = x
  BY <1>1, <1>2, SMT
<1>. HIDE DEF q
<1>4. x < Radix * Radix
  <2>1. ~(Radix <= q)
    <3>1. Radix <= q => Radix * Radix <= Radix * q
      <4>1. Radix < q => Radix * Radix + Radix <= Radix * q
        BY <1>1, Widths, Multiple, SMT
      <4>. QED
        BY <1>1, <1>2, <4>1, Widths, SMT
    <3>. QED
      BY <1>1, <1>2, <3>1, Widths, SMT DEF TimerTypes
  <2>2. Radix * q + Radix <= Radix * Radix
    BY <1>1, <2>1, Widths, Multiple, SMT
  <2>. QED
    BY <1>2, <2>2, Widths, SMT
<1>5. x % Radix = byte
  BY <1>1, Widths, Remainder
<1>. HIDE DEF x
<1>6. x % (Radix * Radix) = x
  <2>1. ((Radix * Radix) * 0 + x) % (Radix * Radix) = x
    BY <1>2, <1>4, Widths, Remainder
  <2>. QED
    BY <1>2, <2>1, Widths, SMT
<1>. QED
  BY <1>3, <1>5, <1>6

\* Two digits in their places.
LEMMA TwoDigits ==
    ASSUME NEW lowByte \in Nat, lowByte < Radix, NEW byte \in Nat, byte < Radix
    PROVE  (Radix * byte + lowByte) % (Radix * Radix) = lowByte + Radix * byte
<1>. DEFINE x == Radix * byte + lowByte
<1>1. x \in Nat /\ Radix * byte \in Nat
  BY Widths, SMT
<1>2. Radix * byte + Radix <= Radix * Radix
  BY Widths, Multiple
<1>3. x < Radix * Radix
  BY <1>1, <1>2, Widths, SMT
<1>. HIDE DEF x
<1>4. ((Radix * Radix) * 0 + x) % (Radix * Radix) = x
  BY <1>1, <1>3, Widths, Remainder
<1>5. (Radix * Radix) * 0 + x = x
  BY <1>1, Widths, SMT
<1>. QED
  BY <1>1, <1>4, <1>5 DEF x

LEMMA BytesAre == ASSUME NEW byte \in Bytes PROVE byte \in Nat /\ byte < Radix
<1>1. Bytes \subseteq 0..(Radix - 1)
  BY InputsAssumption, PTL
<1>. QED
  BY <1>1, Widths

LEMMA LoadStep ==
    ASSUME TimerTypes, LoadInv, [Next]_vars
    PROVE  LoadInv'
<1>1. ASSUME NEW byte \in Bytes, Pit!WriteRegister(byte) PROVE LoadInv'
  <2>1. UNCHANGED <<accessMode, numberFormat>>
    BY <1>1 DEF Pit!WriteRegister, Pit!modes
  <2>. SUFFICES ASSUME waitingForLoad', accessMode = "both", numberFormat = "binary",
                       writeByte' = "high"
                PROVE  first' = reload' % Radix
    BY <2>1 DEF LoadInv
  <2>2. writeByte = "low" /\ first' = byte
    BY <1>1 DEF Pit!WriteRegister, TimerTypes
  <2>3. reload' = (reload - (reload % Radix) + byte) % (Radix * Radix)
    BY <1>1, <2>2 DEF Pit!WriteRegister, Pit!Half, Pit!Unit
  <2>. QED
    BY <2>2, <2>3, BytesAre, LowReplaced
<1>2. ASSUME NEW d \in Delays, NEW mode \in {"low", "high", "both"},
             NEW format \in {"binary", "decimal"}, Pit!Configure(mode, format, d)
      PROVE  LoadInv'
  BY <1>2 DEF Pit!Configure, Pit!First, LoadInv
<1>3. ASSUME UNCHANGED <<Pit!load, Pit!modes>> PROVE LoadInv'
  BY <1>3 DEF Pit!load, Pit!modes, LoadInv
<1>4. ASSUME UNCHANGED timer PROVE UNCHANGED <<Pit!load, Pit!modes>>
  BY <1>4 DEF timer, Pit!load, Pit!modes
<1>. QED
  BY <1>1, <1>2, <1>3, <1>4, TimerSteps, TimerStepIs

\* A channel starts with the count that its two bytes spell, whatever it was loaded with
\* before and whatever is read, latched and configured in between.
THEOREM LoadIsWholeCorrect == Spec => LoadIsWhole
<1>1. Init => LoadInv
  BY DEF Init, Pit!Init, LoadInv
<1>2. TimerTypes /\ LoadInv /\ [Next]_vars => LoadInv'
  BY LoadStep
<1>3. ASSUME TimerTypes, LoadInv, NEW byte \in Bytes, Pit!WriteRegister(byte),
             waitingForLoad, ~waitingForLoad', accessMode = "both", numberFormat = "binary"
      PROVE  value' = first + Radix * byte
  <2>1. writeByte = "high" /\ value' = reload'
    BY <1>3 DEF Pit!WriteRegister, Pit!TakeLoad, Pit!Starts
  <2>2. first = reload % Radix
    BY <1>3, <2>1 DEF LoadInv
  <2>3. reload' = (Radix * byte + first) % (Radix * Radix)
    BY <1>3, <2>1, <2>2 DEF Pit!WriteRegister, Pit!Half, Pit!Unit
  <2>4. first \in Nat /\ first < Radix
    BY <1>3, <2>2, Widths, Division DEF TimerTypes
  <2>. QED
    BY <2>1, <2>3, <2>4, BytesAre, TwoDigits
<1>4. TimerTypes /\ LoadInv =>
        [\A byte \in Bytes :
            Pit!WriteRegister(byte) /\ waitingForLoad /\ ~waitingForLoad'
                /\ accessMode = "both" /\ numberFormat = "binary"
            => value' = first + Radix * byte]_(Pit!vars)
  BY <1>3
<1>. QED
  BY <1>1, <1>2, <1>4, TimerTypesCorrect, PTL DEF Spec, LoadIsWhole, Pit!LoadIsWhole

-----------------------------------------------------------------------------
(* Bringing the count up to date. *)

LEMMA SmallRemainder == ASSUME NEW x \in Nat, NEW m \in Nat, x < m PROVE x % m = x
<1>1. (m * 0 + x) % m = x
  BY Remainder
<1>. QED
  BY <1>1

\* Time takes no more off a count than off what is due of it, over a wrap either.
LEMMA ElapseKeeps ==
    ASSUME TimerTypes, Pit!NeverAhead, NEW d \in Nat, Pit!Elapse(d)
    PROVE  value' * timerPrescaler >= due'
<1>. DEFINE p == timerPrescaler
            t == d \div p
            P(n) == n * p
<1>1. CASE waitingForLoad \/ p = 0
  BY <1>1 DEF Pit!Elapse, Pit!Resolve, Pit!NeverAhead
<1>2. CASE ~waitingForLoad /\ p # 0
  <2>1. /\ p \in Nat /\ p > 0 /\ value \in Nat /\ reload \in Nat /\ due \in Nat
        /\ P(value) >= due
    BY <1>2 DEF TimerTypes, Pit!NeverAhead
  <2>2. t \in Nat /\ P(t) <= d
    <3>1. t \in Nat /\ d % p \in Nat /\ d = p * t + (d % p)
      BY <2>1, Division
    <3>2. p * t = t * p /\ p * t \in Nat
      BY <2>1, <3>1, SMT
    <3>. HIDE DEF t, p
    <3>. QED
      BY <3>1, <3>2, SMT
  <2>3. /\ value' = Pit!Counted(value, t)
        /\ due' = IF t > value THEN Pit!Less(due + P(reload), d) ELSE Pit!Less(due, d)
    BY <1>2 DEF Pit!Elapse, Pit!Resolve
  <2>4. \A m, n \in Int : P(m) \in Int /\ P(m + n) = P(m) + P(n) /\ P(m - n) = P(m) - P(n)
    BY <2>1, SMT
  <2>5. \A n \in Nat : P(n) \in Nat
    BY <2>1, SMT
  <2>6. value' \in Nat
    BY <2>1, <2>2, <2>3, CountedIs
  <2>. HIDE DEF t, P
  <2>7. CASE ~(t > value)
    <3>1. P(value') = P(value) - P(t)
      BY <2>1, <2>2, <2>3, <2>4, <2>7 DEF Pit!Counted
    <3>. QED
      BY <2>1, <2>2, <2>3, <2>4, <2>5, <2>6, <2>7, <3>1 DEF Pit!Less, P
  <2>8. CASE t > value /\ t - value <= reload
    <3>1. (t - value) % (reload + 1) = t - value
      BY <2>1, <2>2, <2>8, SmallRemainder
    <3>2. value' = (reload + value) - t
      BY <2>1, <2>2, <2>3, <2>8, <3>1 DEF Pit!Counted
    <3>3. P(value') = P(reload) + P(value) - P(t)
      BY <2>1, <2>2, <2>4, <3>2
    <3>. QED
      BY <2>1, <2>2, <2>3, <2>4, <2>5, <2>6, <2>8, <3>3 DEF Pit!Less, P
  <2>9. CASE t > value /\ ~(t - value <= reload)
    <3>1. t - (value + reload) \in Nat
      BY <2>1, <2>2, <2>9
    <3>. DEFINE n == value + reload
    <3>2. P(t - n) = P(t) - (P(value) + P(reload))
      <4>1. n \in Int /\ t \in Int /\ P(n) = P(value) + P(reload)
        BY <2>1, <2>2, <2>4
      <4>. HIDE DEF n
      <4>. QED
        BY <2>4, <4>1
    <3>3. due + P(reload) <= d
      <4>1. P(t - n) \in Nat
        BY <2>5, <3>1
      <4>2. P(t) \in Int /\ P(value) \in Int /\ P(reload) \in Int
        BY <2>1, <2>2, <2>4
      <4>. HIDE DEF n
      <4>. QED
        BY <2>1, <2>2, <3>2, <4>1, <4>2
    <3>4. due' = 0
      <4>1. due + P(reload) \in Int
        <5>1. P(reload) \in Nat /\ due \in Nat
          BY <2>1, <2>5
        <5>. QED
          BY <5>1, SMT
      <4>2. ~(d < due + P(reload))
        BY <3>3, <4>1, SMT
      <4>. QED
        BY <2>3, <2>9, <4>2 DEF Pit!Less
    <3>. QED
      BY <2>5, <2>6, <3>4 DEF P
  <2>. QED
    BY <2>1, <2>2, <2>7, <2>8, <2>9
<1>. QED
  BY <1>1, <1>2

LEMMA NeverAheadStep ==
    ASSUME TimerTypes, TimerTypes', Pit!NeverAhead, [Next]_vars
    PROVE  Pit!NeverAhead'
<1>. DEFINE kept == value' * timerPrescaler' >= due'
<1>0. Delays \subseteq Nat /\ (kept => Pit!NeverAhead')
  <2>1. Delays \subseteq Nat
    BY InputsAssumption, PTL
  <2>. QED
    BY <2>1 DEF Pit!NeverAhead
<1>1. ASSUME NEW n \in Nat, NEW m \in Nat PROVE n * m \in Nat /\ n * m >= n * m /\ n * m >= 0
  BY SMT
<1>2. value' \in Nat /\ timerPrescaler' \in Nat
  BY DEF TimerTypes
<1>3. ASSUME NEW byte \in Bytes, Pit!WriteRegister(byte) PROVE kept
  <2>1. UNCHANGED timerPrescaler
    BY <1>3 DEF Pit!WriteRegister, Pit!divider
  <2>2. CASE Pit!Starts
    <3>1. due' = value' * timerPrescaler'
      BY <1>3, <2>1, <2>2 DEF Pit!WriteRegister, Pit!TakeLoad
    <3>. QED
      BY <1>1, <1>2, <3>1
  <2>3. CASE ~Pit!Starts
    BY <1>3, <2>1, <2>3 DEF Pit!WriteRegister, Pit!TakeLoad, Pit!NeverAhead
  <2>. QED
    BY <2>2, <2>3
<1>4. ASSUME NEW d \in Delays, Pit!Elapse(d), UNCHANGED Pit!divider PROVE kept
  BY <1>0, <1>4, ElapseKeeps DEF Pit!divider
<1>5. ASSUME NEW d \in Delays, Pit!OtherChannel(d) \/ Pit!CounterLatch(d) \/ Pit!ReadRegister(d)
      PROVE  kept
  BY <1>4, <1>5 DEF Pit!OtherChannel, Pit!CounterLatch, Pit!ReadRegister
<1>6. ASSUME NEW d \in Delays, NEW status \in BOOLEAN, NEW counts \in BOOLEAN,
             Pit!ReadBack(status, counts, d)
      PROVE  kept
  BY <1>4, <1>6 DEF Pit!ReadBack
<1>7. ASSUME NEW d \in Delays, NEW mode \in {"low", "high", "both"},
             NEW format \in {"binary", "decimal"}, Pit!Configure(mode, format, d)
      PROVE  kept
  BY <1>1, <1>2, <1>7 DEF Pit!Configure
<1>8. ASSUME NEW d \in Delays, NEW word, Pit!SetPrescaler(word, d) PROVE kept
  BY <1>1, <1>2, <1>8 DEF Pit!SetPrescaler
<1>9. ASSUME NEW d \in Delays, NEW part \in {"low", "high", "word"}, NEW word \in Divisors,
             Pit!WritePrescaler(part, word, d)
      PROVE  kept
  BY <1>8, <1>9 DEF Pit!WritePrescaler
<1>10. CASE UNCHANGED timer
  BY <1>10 DEF timer, Pit!NeverAhead
<1>. HIDE DEF kept
<1>. QED
  BY <1>0, <1>3, <1>5, <1>6, <1>7, <1>9, <1>10, TimerSteps DEF Pit!Next

\* However often and whenever a channel is looked at, its count does not run ahead of its
\* clock: what is left of it is at least what the time since its load leaves.
THEOREM NeverAheadCorrect == Spec => []NeverAhead
<1>1. Init => Pit!NeverAhead
  BY DEF Init, Pit!Init, Pit!NeverAhead
<1>2. TimerTypes /\ TimerTypes' /\ Pit!NeverAhead /\ [Next]_vars => Pit!NeverAhead'
  BY NeverAheadStep
<1>3. Pit!NeverAhead => NeverAhead
  BY DEF NeverAhead
<1>. QED
  BY <1>1, <1>2, <1>3, TimerTypesCorrect, PTL DEF Spec

-----------------------------------------------------------------------------
(* The clock's alarm. *)

LEMMA ClockSteps == ASSUME [Next]_vars PROVE Rtc!Next \/ UNCHANGED clock
BY DEF Next, vars

\* What a register shows of a time is parsed back to that time, in every format.
LEMMA ShownParses ==
    ASSUME NEW u \in Rtc!Units, NEW n \in Nat, n < 60, u = "hours" => n < 24,
           NEW binary \in BOOLEAN, NEW full \in BOOLEAN
    PROVE  Rtc!Parsed(u, Rtc!Shown(u, n, binary, full), binary, full) = n
<1>. USE DEF Rtc!Parsed, Rtc!Shown, Rtc!mapToBCD
<1>1. CASE u # "hours" /\ binary
  BY <1>1, SMT
<1>2. CASE u # "hours" /\ ~binary
  BY <1>2, SMT
<1>3. CASE u = "hours" /\ binary /\ full
  BY <1>3, SMT
<1>4. CASE u = "hours" /\ ~binary /\ full
  BY <1>4, SMT
<1>5. CASE u = "hours" /\ binary /\ ~full
  BY <1>5, SMT
<1>6. CASE u = "hours" /\ ~binary /\ ~full
  BY <1>6, SMT
<1>. QED
  BY <1>1, <1>2, <1>3, <1>4, <1>5, <1>6

\* The alarm is the time it was copied from; the formats are Boolean.
AlarmInv == alarm = copied /\ DataMode \in BOOLEAN /\ twentyFourHourTime \in BOOLEAN

LEMMA AlarmStep == ASSUME AlarmInv, [Next]_vars PROVE AlarmInv'
<1>. USE DEF AlarmInv
<1>1. ASSUME NEW u \in Rtc!Units, NEW n \in Nat, n < 60, u = "hours" => n < 24,
             Rtc!SetAlarm(u, n)
      PROVE  AlarmInv'
  BY <1>1, ShownParses DEF Rtc!SetAlarm
<1>2. ASSUME NEW n \in Hours, Rtc!SetAlarm("hours", n) PROVE AlarmInv'
  <2>1. Hours \subseteq 0..23
    BY InputsAssumption, PTL
  <2>2. n \in Nat /\ n < 60 /\ n < 24 /\ "hours" \in Rtc!Units
    BY <2>1 DEF Rtc!Units
  <2>. QED
    BY <1>1, <1>2, <2>2
<1>3. ASSUME NEW n \in Sixtieths, NEW u \in {"seconds", "minutes"}, Rtc!SetAlarm(u, n)
      PROVE  AlarmInv'
  <2>1. Sixtieths \subseteq 0..59
    BY InputsAssumption, PTL
  <2>2. n \in Nat /\ n < 60 /\ u # "hours" /\ u \in Rtc!Units
    BY <2>1 DEF Rtc!Units
  <2>. QED
    BY <1>1, <1>3, <2>2
<1>4. ASSUME NEW v, Rtc!Select(v) \/ Rtc!WriteCmos(v) PROVE AlarmInv'
  BY <1>4 DEF Rtc!Select, Rtc!WriteCmos, Rtc!registers
<1>5. ASSUME NEW binary \in BOOLEAN, NEW full \in BOOLEAN, Rtc!WriteB(binary, full)
      PROVE  AlarmInv'
  BY <1>5 DEF Rtc!WriteB
<1>6. CASE Rtc!StoreWork \/ Rtc!Starts
  BY <1>6 DEF Rtc!StoreWork, Rtc!OpenFile, Rtc!OpenFails, Rtc!CloseFile, Rtc!CloseFails,
              Rtc!Starts, Rtc!registers
<1>7. CASE Rtc!Dies
  BY <1>7 DEF Rtc!Dies
<1>8. CASE UNCHANGED clock
  BY <1>8 DEF clock
<1>. QED
  BY <1>2, <1>3, <1>4, <1>5, <1>6, <1>7, <1>8, ClockSteps DEF Rtc!Next, Rtc!GuestWork

\* An alarm set from what the clock shows reads as the clock does at that time, in whatever
\* format it was written and is read.
THEOREM AlarmReadsAsClockCorrect == Spec => []AlarmReadsAsClock
<1>1. Init => AlarmInv
  BY DEF Init, Rtc!Init, AlarmInv
<1>2. AlarmInv /\ [Next]_vars => AlarmInv'
  BY AlarmStep
<1>3. AlarmInv => Rtc!AlarmReadsAsClock
  BY DEF AlarmInv, Rtc!AlarmReadsAsClock
<1>4. Rtc!AlarmReadsAsClock => AlarmReadsAsClock
  BY DEF AlarmReadsAsClock
<1>. QED
  BY <1>1, <1>2, <1>3, <1>4, PTL DEF Spec

-----------------------------------------------------------------------------
(* The CMOS memory. *)

\* A file that is not being stored holds the memory, and one about to be stored differs
\* from it in the byte just written.
CmosInv ==
    /\ selectedRegister \in 0..127 /\ failed \in BOOLEAN
    /\ process \in {"down", "running", "opening", "writing"}
    /\ ram \in [Rtc!Cells -> Nat] /\ file \in [length : {0, 114}, data : [Rtc!Cells -> Nat]]
    /\ process = "down" => ~failed
    /\ process = "running" /\ ~failed => Rtc!Contents(file) = ram
    /\ process = "opening" /\ ~failed =>
          \E i \in Rtc!Cells : Rtc!Contents(file) = [ram EXCEPT ![i] = Rtc!Contents(file)[i]]
    /\ process = "writing" => file.length = 0

LEMMA CellsAre == ASSUME NEW i \in Rtc!Cells PROVE i \in Nat /\ i < 114
BY DEF Rtc!Cells

LEMMA ContentsIs ==
    ASSUME NEW f, f.data \in [Rtc!Cells -> Nat], f.length \in {0, 114}
    PROVE  /\ Rtc!Contents(f) \in [Rtc!Cells -> Nat]
           /\ f.length = 0 => Rtc!Contents(f) = Rtc!Zeros
           /\ f.length = 114 => Rtc!Contents(f) = f.data
<1>1. Rtc!Contents(f) \in [Rtc!Cells -> Nat]
  <2>1. ASSUME NEW i \in Rtc!Cells PROVE (IF i < f.length THEN f.data[i] ELSE 0) \in Nat
    OBVIOUS
  <2>. QED
    BY <2>1 DEF Rtc!Contents
<1>2. CASE f.length = 0
  <2>1. \A i \in Rtc!Cells : ~(i < 0)
    BY CellsAre
  <2>2. Rtc!Contents(f) = [i \in Rtc!Cells |-> 0]
    BY <1>2, <2>1, Zenon DEF Rtc!Contents
  <2>. QED
    BY <1>1, <1>2, <2>2 DEF Rtc!Zeros
<1>3. CASE f.length = 114
  <2>1. \A i \in Rtc!Cells : i < f.length
    BY <1>3, CellsAre
  <2>2. Rtc!Contents(f) = [i \in Rtc!Cells |-> f.data[i]]
    BY <2>1, Zenon DEF Rtc!Contents
  <2>3. Rtc!Contents(f) = f.data
    BY <2>2
  <2>. QED
    BY <1>1, <1>3, <2>3
<1>. QED
  BY <1>1, <1>2, <1>3

LEMMA CmosInit == Init => CmosInv
<1>1. Init => Rtc!Init
  BY PTL DEF Init
<1>2. ASSUME Rtc!Init PROVE CmosInv
  <2>1. /\ selectedRegister = 0 /\ ram = Rtc!Zeros /\ file = [length |-> 0, data |-> Rtc!Zeros]
        /\ process = "running" /\ failed = FALSE
    BY <1>2 DEF Rtc!Init
  <2>2. Rtc!Zeros \in [Rtc!Cells -> Nat]
    BY DEF Rtc!Zeros
  <2>3. file \in [length : {0, 114}, data : [Rtc!Cells -> Nat]]
    BY <2>1, <2>2
  <2>4. Rtc!Contents(file) = Rtc!Zeros
    BY <2>1, <2>2, <2>3, ContentsIs
  <2>5. 0 \in 0..127
    OBVIOUS
  <2>. QED
    BY <2>1, <2>2, <2>3, <2>4, <2>5, Zenon DEF CmosInv
<1>. QED
  BY <1>1, <1>2

LEMMA CmosStep ==
    ASSUME CmosInv, [Next]_vars
    PROVE  CmosInv'
<1>1. Rtc!Contents(file) \in [Rtc!Cells -> Nat]
  BY ContentsIs DEF CmosInv
<1>2. ASSUME NEW v \in Selections, Rtc!Select(v) PROVE CmosInv'
  <2>1. Selections \subseteq 0..255
    BY InputsAssumption, PTL
  <2>2. v % 128 \in 0..127
    BY <2>1
  <2>. QED
    BY <1>2, <2>2 DEF Rtc!Select, CmosInv, Rtc!Contents
<1>3. ASSUME NEW v \in Values, Rtc!WriteCmos(v) PROVE CmosInv'
  <2>. DEFINE i == selectedRegister - 14
  <2>1. i \in Rtc!Cells /\ process = "running"
    BY <1>3 DEF Rtc!WriteCmos, CmosInv, Rtc!Cells
  <2>2. /\ ram' = [ram EXCEPT ![i] = v] /\ process' = "opening"
        /\ UNCHANGED <<selectedRegister, file, failed>>
    BY <1>3 DEF Rtc!WriteCmos
  <2>3. v \in Nat
    <3>1. Values \subseteq 0..255
      BY InputsAssumption, PTL
    <3>. QED
      BY <3>1
  <2>. HIDE DEF i
  <2>4. ~failed => Rtc!Contents(file) = [ram' EXCEPT ![i] = Rtc!Contents(file)[i]]
    <3>. SUFFICES ASSUME ~failed PROVE Rtc!Contents(file) = [ram' EXCEPT ![i] = Rtc!Contents(file)[i]]
      OBVIOUS
    <3>1. Rtc!Contents(file) = ram
      BY <2>1 DEF CmosInv
    <3>. QED
      BY <2>1, <2>2, <3>1 DEF CmosInv
  <2>5. Rtc!Contents(file)' = Rtc!Contents(file)
    BY <2>2 DEF Rtc!Contents
  <2>. QED
    BY <2>1, <2>2, <2>3, <2>4, <2>5 DEF CmosInv
<1>4. CASE Rtc!OpenFile
  BY <1>4 DEF Rtc!OpenFile, CmosInv
<1>5. CASE Rtc!OpenFails \/ Rtc!CloseFails
  BY <1>5 DEF Rtc!OpenFails, Rtc!CloseFails, CmosInv
<1>6. CASE Rtc!CloseFile
  <2>1. /\ file' = [length |-> 114, data |-> ram] /\ process' = "running" /\ failed' = FALSE
        /\ UNCHANGED <<selectedRegister, ram>>
    BY <1>6 DEF Rtc!CloseFile
  <2>2. /\ file' \in [length : {0, 114}, data : [Rtc!Cells -> Nat]]
        /\ file'.length = 114 /\ file'.data = ram
    BY <2>1 DEF CmosInv
  <2>3. Rtc!Contents(file') = ram
    BY <2>2, ContentsIs
  <2>4. Rtc!Contents(file)' = ram'
    BY <2>1, <2>3 DEF Rtc!Contents
  <2>5. /\ selectedRegister' \in 0..127 /\ failed' \in BOOLEAN /\ ram' \in [Rtc!Cells -> Nat]
    BY <2>1 DEF CmosInv
  <2>. QED
    BY <2>1, <2>2, <2>4, <2>5 DEF CmosInv
<1>7. CASE Rtc!Dies
  <2>1. Rtc!Zeros \in [Rtc!Cells -> Nat]
    BY DEF Rtc!Zeros
  <2>2. /\ process' = "down" /\ ~failed' /\ failed' \in BOOLEAN
        /\ selectedRegister' = 0 /\ ram' = Rtc!Zeros /\ file' = file
    BY <1>7 DEF Rtc!Dies
  <2>. QED
    BY <2>1, <2>2 DEF CmosInv
<1>8. CASE Rtc!Starts
  BY <1>1, <1>8 DEF Rtc!Starts, CmosInv, Rtc!Contents
<1>9. CASE UNCHANGED clock
  <2>1. UNCHANGED <<selectedRegister, ram, file, process, failed>>
    BY <1>9 DEF clock
  <2>2. Rtc!Contents(file)' = Rtc!Contents(file)
    BY <2>1 DEF Rtc!Contents
  <2>. QED
    BY <2>1, <2>2 DEF CmosInv
<1>10. ASSUME NEW u, NEW n, Rtc!SetAlarm(u, n) PROVE CmosInv'
  BY <1>10 DEF Rtc!SetAlarm, CmosInv, Rtc!Contents
<1>11. ASSUME NEW binary, NEW full, Rtc!WriteB(binary, full) PROVE CmosInv'
  BY <1>11 DEF Rtc!WriteB, CmosInv, Rtc!Contents
<1>. QED
  BY <1>2, <1>3, <1>4, <1>5, <1>6, <1>7, <1>8, <1>9, <1>10, <1>11, ClockSteps
     DEF Rtc!Next, Rtc!GuestWork, Rtc!StoreWork

LEMMA CmosCorrect == Spec => []CmosInv
BY CmosInit, CmosStep, PTL DEF Spec

\* The memory as the guest sees it now, or will see it after the next start, and its state.
Seen      == IF process = "down" THEN Rtc!Contents(file) ELSE ram
SeenState == IF process = "down" THEN "stored"
             ELSE IF failed THEN "failed"
             ELSE IF process = "running" THEN "stored" ELSE "storing"

MemoryNext == Rtc!Memory!Write \/ Rtc!Memory!Store \/ Rtc!Memory!Fail \/ Rtc!Memory!Lose

LEMMA Writes ==
    ASSUME SeenState' = IF SeenState = "failed" THEN "failed" ELSE "storing",
           NEW i \in Rtc!Cells, Seen' = [Seen EXCEPT ![i] = Seen'[i]]
    PROVE  MemoryNext
BY DEF MemoryNext, Rtc!Memory!Write, Rtc!Memory!ChangesOne, Seen, SeenState

LEMMA Stores == ASSUME SeenState' = "stored", Seen' = Seen PROVE MemoryNext
BY DEF MemoryNext, Rtc!Memory!Store, Seen, SeenState

LEMMA Fails == ASSUME SeenState # "stored", SeenState' = "failed", Seen' = Seen PROVE MemoryNext
BY DEF MemoryNext, Rtc!Memory!Fail, Seen, SeenState

LEMMA Loses ==
    ASSUME SeenState # "stored", SeenState' = "stored",
           \/ Seen' = Rtc!Zeros
           \/ SeenState = "failed" /\ DOMAIN Seen' = Rtc!Cells
           \/ \E i \in Rtc!Cells : Seen' = [Seen EXCEPT ![i] = Seen'[i]]
    PROVE  MemoryNext
BY DEF MemoryNext, Rtc!Memory!Lose, Rtc!Memory!ChangesOne, Seen, SeenState, Rtc!Zeros

\* Every step of the clock is a step of the memory that the guest expects, or none of it.
LEMMA MemoryStep ==
    ASSUME CmosInv, CmosInv', [Next]_vars
    PROVE  MemoryNext \/ UNCHANGED <<Seen, SeenState>>
<1>1. /\ Rtc!Contents(file) \in [Rtc!Cells -> Nat]
      /\ file.length = 0 => Rtc!Contents(file) = Rtc!Zeros
  BY ContentsIs DEF CmosInv
<1>2. ASSUME UNCHANGED <<ram, file, process, failed>> PROVE UNCHANGED <<Seen, SeenState>>
  BY <1>2 DEF Seen, SeenState, Rtc!Contents
<1>3. ASSUME NEW v, Rtc!Select(v) PROVE UNCHANGED <<Seen, SeenState>>
  BY <1>2, <1>3 DEF Rtc!Select
<1>4. ASSUME NEW u, NEW n, Rtc!SetAlarm(u, n) PROVE UNCHANGED <<Seen, SeenState>>
  BY <1>2, <1>4 DEF Rtc!SetAlarm
<1>5. ASSUME NEW binary, NEW full, Rtc!WriteB(binary, full) PROVE UNCHANGED <<Seen, SeenState>>
  BY <1>2, <1>5 DEF Rtc!WriteB
<1>6. CASE UNCHANGED clock
  BY <1>2, <1>6 DEF clock
<1>7. ASSUME NEW v, Rtc!WriteCmos(v) PROVE MemoryNext
  <2>. DEFINE i == selectedRegister - 14
  <2>1. i \in Rtc!Cells
    <3>1. selectedRegister \in 0..127 /\ selectedRegister > 13
      BY <1>7 DEF Rtc!WriteCmos, CmosInv
    <3>. QED
      BY <3>1 DEF Rtc!Cells
  <2>2. /\ process = "running" /\ process' = "opening" /\ failed' = failed
        /\ ram' = [ram EXCEPT ![i] = v]
    BY <1>7 DEF Rtc!WriteCmos
  <2>. HIDE DEF i
  <2>3. Seen = ram /\ Seen' = ram'
    BY <2>2 DEF Seen
  <2>4. ram' = [ram EXCEPT ![i] = ram'[i]]
    BY <2>1, <2>2 DEF CmosInv
  <2>5. SeenState' = IF SeenState = "failed" THEN "failed" ELSE "storing"
    BY <2>2 DEF SeenState
  <2>. QED
    BY <2>1, <2>3, <2>4, <2>5, Writes
<1>8. CASE Rtc!OpenFile
  BY <1>8 DEF Rtc!OpenFile, Seen, SeenState
<1>9. CASE Rtc!OpenFails \/ Rtc!CloseFails
  <2>1. SeenState # "stored" /\ SeenState' = "failed" /\ Seen' = Seen
    BY <1>9 DEF Rtc!OpenFails, Rtc!CloseFails, Seen, SeenState
  <2>. QED
    BY <2>1, Fails
<1>10. CASE Rtc!CloseFile
  <2>1. SeenState' = "stored" /\ Seen' = Seen
    BY <1>10 DEF Rtc!CloseFile, Seen, SeenState
  <2>. QED
    BY <2>1, Stores
<1>11. CASE Rtc!Dies
  <2>1. process # "down" /\ process' = "down" /\ file' = file
    BY <1>11 DEF Rtc!Dies
  <2>2. Seen = ram /\ Seen' = Rtc!Contents(file) /\ SeenState' = "stored"
    BY <2>1 DEF Seen, SeenState, Rtc!Contents
  <2>3. CASE failed
    <3>1. SeenState = "failed" /\ DOMAIN Seen' = Rtc!Cells
      BY <1>1, <2>1, <2>2, <2>3 DEF SeenState
    <3>. QED
      BY <2>2, <3>1, Loses
  <2>4. CASE ~failed /\ process = "running"
    <3>1. Seen' = Seen
      BY <2>2, <2>4 DEF CmosInv
    <3>. QED
      BY <2>2, <3>1, Stores
  <2>5. CASE ~failed /\ process = "opening"
    <3>1. SeenState # "stored" /\ \E i \in Rtc!Cells : Seen' = [Seen EXCEPT ![i] = Seen'[i]]
      BY <2>2, <2>5 DEF CmosInv, SeenState
    <3>. QED
      BY <2>2, <3>1, Loses
  <2>6. CASE ~failed /\ process = "writing"
    <3>1. SeenState # "stored" /\ Seen' = Rtc!Zeros
      BY <1>1, <2>2, <2>6 DEF CmosInv, SeenState
    <3>. QED
      BY <2>2, <3>1, Loses
  <2>. QED
    BY <2>1, <2>3, <2>4, <2>5, <2>6 DEF CmosInv
<1>12. CASE Rtc!Starts
  <2>1. SeenState' = "stored" /\ Seen' = Seen
    BY <1>12 DEF Rtc!Starts, CmosInv, Seen, SeenState
  <2>. QED
    BY <2>1, Stores
<1>. QED
  BY <1>3, <1>4, <1>5, <1>6, <1>7, <1>8, <1>9, <1>10, <1>11, <1>12, ClockSteps
     DEF Rtc!Next, Rtc!GuestWork, Rtc!StoreWork

\* The CMOS memory is non-volatile: whenever the process dies, within a store too, the next
\* one finds the bytes of before or of after it, or none, but no mixture of them -- and
\* anything only after a store that has failed.
THEOREM SurvivesCorrect == Spec => Survives
<1>1. Init => Rtc!Memory!Init
  <2>1. Init => Rtc!Init
    BY PTL DEF Init
  <2>2. Rtc!Init => Rtc!Memory!Init
    BY DEF Rtc!Init, Rtc!Memory!Init, Rtc!Zeros
  <2>. QED
    BY <2>1, <2>2
<1>2. CmosInv /\ CmosInv' /\ [Next]_vars => [MemoryNext]_<<Seen, SeenState>>
  BY MemoryStep
<1>. QED
  BY <1>1, <1>2, CmosCorrect, PTL
     DEF Spec, Survives, Rtc!Survives, Rtc!Memory!Spec, MemoryNext, Seen, SeenState

-----------------------------------------------------------------------------
(* The ports. *)

Place(e, start, length, name) == e.start = start /\ e.length = length /\ e.name = name

\* The entries of the two tables.
LEMMA DevicesAre ==
    ASSUME NEW e \in Bus!pioDeviceTable
    PROVE  \/ Place(e, 63492, 2, "prescaler") \/ Place(e, 1016, 8, "com1")
           \/ Place(e, 760, 8, "com2") \/ Place(e, 57344, 8, "hexDisplay")
           \/ Place(e, 112, 2, "rtc")
           \/ \E i \in 0..7 : Place(e, 62464 + 8 * i, 8, "csu")
BY SMT DEF Bus!pioDeviceTable, Bus!Entry, Place

LEMMA HandlersAre ==
    ASSUME NEW e \in Bus!ioHandlerTable
    PROVE  \/ Place(e, 96, 5, "Keyboard") \/ Place(e, 114, 2, "LCD")
           \/ Place(e, 116, 1, "ProductCode") \/ Place(e, 117, 1, "OptionCode")
           \/ Place(e, 119, 1, "JumperRegister") \/ Place(e, 128, 1, "POSTCode")
           \/ Place(e, 146, 1, "A20Gate") \/ Place(e, 408, 8, "ManufacturerSpecific")
           \/ Place(e, 53248, 8, "DiskRegisters") \/ Place(e, 63540, 1, "TimerConfiguration")
           \/ Place(e, 63584, 1, "Port1Pin") \/ Place(e, 63600, 1, "Port3Pin")
BY SMT DEF Bus!ioHandlerTable, Bus!Entry, Place

\* No port is in the ranges of two entries, but of one device that has several.
Has(e, port) == e.start <= port /\ port < e.start + e.length

LEMMA DevicesApart ==
    ASSUME NEW e \in Bus!pioDeviceTable, NEW f \in Bus!pioDeviceTable, NEW port \in Nat,
           Has(e, port), Has(f, port)
    PROVE  e.name = f.name
BY DevicesAre, SMT DEF Place, Has

LEMMA HandlersApart ==
    ASSUME NEW e \in Bus!ioHandlerTable, NEW f \in Bus!ioHandlerTable, NEW port \in Nat,
           Has(e, port), Has(f, port)
    PROVE  e.name = f.name
BY HandlersAre, SMT DEF Place, Has

LEMMA TablesApart ==
    ASSUME NEW e \in Bus!pioDeviceTable, NEW f \in Bus!ioHandlerTable, NEW port \in Nat,
           Has(e, port)
    PROVE  ~Has(f, port)
BY DevicesAre, HandlersAre, SMT DEF Place, Has

LEMMA EntriesAre ==
    ASSUME NEW e \in Bus!pioDeviceTable \cup Bus!ioHandlerTable
    PROVE  e.start \in Nat /\ e.length \in Nat /\ e.name # "Unhandled"
BY DevicesAre, HandlersAre, SMT DEF Place

\* A search in an ordered table finds the entries that have the port.
LEMMA FindIs ==
    ASSUME NEW table, table \subseteq Bus!pioDeviceTable \cup Bus!ioHandlerTable, NEW port \in Nat
    PROVE  Bus!Find(table, port) = {e.name : e \in {f \in table : Has(f, port)}}
<1>1. ASSUME NEW e \in table
      PROVE  (~Bus!Before(e, Bus!Entry(port, 1, "")) /\ ~Bus!Before(Bus!Entry(port, 1, ""), e))
                <=> Has(e, port)
  <2>1. e.start \in Nat /\ e.length \in Nat
    BY EntriesAre
  <2>. QED
    BY <2>1, SMT DEF Bus!Before, Bus!Entry, Has
<1>. QED
  BY <1>1, Zenon DEF Bus!Find

LEMMA FoundIs ==
    ASSUME NEW port \in Nat, NEW name \in Bus!Found(port)
    PROVE  \/ /\ Bus!IsDevice(port)
              /\ \E e \in Bus!pioDeviceTable : Has(e, port) /\ e.name = name
           \/ /\ ~Bus!IsDevice(port)
              /\ \E e \in Bus!ioHandlerTable : Has(e, port) /\ e.name = name
           \/ /\ ~Bus!IsDevice(port) /\ name = "Unhandled"
              /\ \A e \in Bus!pioDeviceTable \cup Bus!ioHandlerTable : ~Has(e, port)
<1>1. /\ Bus!Find(Bus!pioDeviceTable, port) = {e.name : e \in {f \in Bus!pioDeviceTable : Has(f, port)}}
      /\ Bus!Find(Bus!ioHandlerTable, port) = {e.name : e \in {f \in Bus!ioHandlerTable : Has(f, port)}}
  BY FindIs
<1>2. CASE Bus!IsDevice(port)
  BY <1>1, <1>2 DEF Bus!Found
<1>3. CASE ~Bus!IsDevice(port) /\ Bus!Find(Bus!ioHandlerTable, port) # {}
  BY <1>1, <1>3 DEF Bus!Found
<1>4. CASE ~Bus!IsDevice(port) /\ Bus!Find(Bus!ioHandlerTable, port) = {}
  <2>1. name = "Unhandled" /\ Bus!Find(Bus!pioDeviceTable, port) = {}
    BY <1>4 DEF Bus!Found, Bus!IsDevice
  <2>2. \A e \in Bus!pioDeviceTable \cup Bus!ioHandlerTable : ~Has(e, port)
    BY <1>1, <1>4, <2>1
  <2>. QED
    BY <1>4, <2>1, <2>2
<1>. QED
  BY <1>2, <1>3, <1>4

\* Who took an access, and what became of it.
PortsInv ==
    /\ access # Bus!none => /\ access.port \in Nat /\ access.length \in {1, 2, 4}
                            /\ access.count \in {1, 2} /\ access.write \in BOOLEAN
    /\ build \in {"debug", "release"} /\ area \in [Bus!Area -> {"guest", "handler", "old"}]
    /\ handler # "none" =>
          /\ access # Bus!none /\ handler \in Bus!Found(access.port)
          /\ ended = Bus!Ends(handler)
          /\ ~ended => \A i \in Bus!Answered(handler) : area[i] = "handler"

LEMMA PortsSteps == ASSUME [Next]_vars PROVE Bus!Next \/ UNCHANGED ports
BY DEF Next, vars

LEMMA AnsweredIs ==
    ASSUME NEW name, access.length \in {1, 2, 4}
    PROVE  Bus!Answered(name) \subseteq Bus!Area
BY DEF Bus!Answered, Bus!Area

LEMMA PortsStep == ASSUME PortsInv, [Next]_vars PROVE PortsInv'
<1>1. ASSUME NEW write \in BOOLEAN, NEW port \in Accesses, NEW length \in Bus!Lengths,
             NEW count \in {1, 2},
             Bus!Exits([write |-> write, port |-> port, length |-> length, count |-> count])
      PROVE  PortsInv'
  <2>1. port \in Nat
    <3>. DEFINE last == 65535
    <3>1. Accesses \subseteq 0..last
      BY InputsAssumption, PTL
    <3>. HIDE DEF last
    <3>2. port \in 0..last
      BY <3>1, Zenon
    <3>. QED
      BY <3>2, SMT
  <2>2. handler = "none" /\ handler' = handler /\ build' = build
    BY <1>1 DEF Bus!Exits, PortsInv
  <2>3. access' = [write |-> write, port |-> port, length |-> length, count |-> count]
    BY <1>1 DEF Bus!Exits
  <2>4. area' \in [Bus!Area -> {"guest", "handler", "old"}]
    BY <1>1 DEF Bus!Exits
  <2>. QED
    BY <2>1, <2>2, <2>3, <2>4 DEF PortsInv, Bus!Lengths
<1>2. CASE Bus!Serves
  <2>1. PICK name \in Bus!Found(access.port) :
          /\ handler' = name /\ ended' = Bus!Ends(name)
          /\ area' = [i \in Bus!Area |->
                        IF i \in Bus!Answered(name) /\ ~ended' THEN "handler" ELSE area[i]]
    BY <1>2 DEF Bus!Serves
  <2>2. access # Bus!none /\ access' = access /\ build' = build
    BY <1>2 DEF Bus!Serves
  <2>3. Bus!Ends(name)' = Bus!Ends(name) /\ Bus!Answered(name)' = Bus!Answered(name)
    BY <2>2 DEF Bus!Ends, Bus!Answered, Bus!Assertion
  <2>4. Bus!Ends(handler)' = Bus!Ends(name) /\ Bus!Answered(handler)' = Bus!Answered(name)
    BY <2>1, <2>2 DEF Bus!Ends, Bus!Answered, Bus!Assertion
  <2>5. area' \in [Bus!Area -> {"guest", "handler", "old"}]
    BY <2>1 DEF PortsInv
  <2>6. ~ended' => \A i \in Bus!Answered(name) : area'[i] = "handler"
    BY <2>1, <2>2, AnsweredIs DEF PortsInv
  <2>. QED
    BY <2>1, <2>2, <2>4, <2>5, <2>6 DEF PortsInv
<1>3. CASE Bus!Resumes
  BY <1>3 DEF Bus!Resumes, PortsInv
<1>4. CASE UNCHANGED ports
  <2>1. UNCHANGED <<access, area, handler, build, ended>>
    BY <1>4 DEF ports
  <2>2. Bus!Ends(handler)' = Bus!Ends(handler) /\ Bus!Answered(handler)' = Bus!Answered(handler)
    BY <2>1 DEF Bus!Ends, Bus!Answered, Bus!Assertion
  <2>. QED
    BY <2>1, <2>2 DEF PortsInv
<1>. QED
  BY <1>1, <1>2, <1>3, <1>4, PortsSteps DEF Bus!Next

LEMMA PortsCorrect == Spec => []PortsInv
<1>1. Init => PortsInv
  <2>1. Init => Bus!Init
    BY PTL DEF Init
  <2>2. Builds \subseteq {"debug", "release"}
    BY InputsAssumption, PTL
  <2>. QED
    BY <2>1, <2>2 DEF Bus!Init, PortsInv
<1>2. PortsInv /\ [Next]_vars => PortsInv'
  BY PortsStep
<1>. QED
  BY <1>1, <1>2, PTL DEF Spec

\* Every access is taken by the one entry of the two tables whose ports have it, and by
\* none if there is none.
THEOREM DispatchExactCorrect == Spec => []DispatchExact
<1>1. PortsInv => Bus!DispatchExact
  <2>. SUFFICES ASSUME PortsInv, handler # "none"
                PROVE  {e.name : e \in Bus!Holders} = {handler} \ {"Unhandled"}
    BY DEF Bus!DispatchExact
  <2>. DEFINE port == access.port
  <2>1. port \in Nat /\ handler \in Bus!Found(port)
    BY DEF PortsInv
  <2>2. Bus!Holders = {e \in Bus!pioDeviceTable \cup Bus!ioHandlerTable : Has(e, port)}
    <3>1. ASSUME NEW e \in Bus!pioDeviceTable \cup Bus!ioHandlerTable
          PROVE  port \in e.start..(e.start + e.length - 1) <=> Has(e, port)
      <4>1. e.start \in Nat /\ e.length \in Nat
        BY EntriesAre
      <4>. QED
        BY <2>1, <4>1, SMT DEF Has
    <3>. QED
      BY <3>1, Zenon DEF Bus!Holders
  <2>. HIDE DEF port
  <2>3. ASSUME NEW e \in Bus!pioDeviceTable \cup Bus!ioHandlerTable, Has(e, port), e.name = handler,
               NEW f \in Bus!pioDeviceTable \cup Bus!ioHandlerTable, Has(f, port)
        PROVE  f.name = handler
    BY <2>1, <2>3, DevicesApart, HandlersApart, TablesApart
  <2>4. CASE \E e \in Bus!pioDeviceTable \cup Bus!ioHandlerTable : Has(e, port) /\ e.name = handler
    <3>1. handler # "Unhandled"
      BY <2>4, EntriesAre
    <3>. QED
      BY <2>2, <2>3, <2>4, <3>1
  <2>5. CASE /\ handler = "Unhandled"
             /\ \A e \in Bus!pioDeviceTable \cup Bus!ioHandlerTable : ~Has(e, port)
    BY <2>2, <2>5
  <2>. QED
    BY <2>1, <2>4, <2>5, FoundIs
<1>2. Bus!DispatchExact => DispatchExact
  BY DEF DispatchExact
<1>. QED
  BY <1>1, <1>2, PortsCorrect, PTL

DeviceNames == {"prescaler", "com1", "com2", "hexDisplay", "rtc", "csu"}

\* Accesses to one byte are served and answered, and wider reads that do not end the process
\* are, but for the two handlers that answer one byte of any width and a build without
\* assertions.
THEOREM AccessesAreAnsweredCorrect == Spec => []AccessesAreAnswered
<1>1. PortsInv => Bus!AccessesAreAnswered
  <2>. SUFFICES ASSUME PortsInv, handler # "none", access.count = 1
                PROVE  Bus!AccessesAreAnswered
    BY DEF Bus!AccessesAreAnswered
  <2>1. /\ access.port \in Nat /\ access.length \in {1, 2, 4} /\ access.write \in BOOLEAN
        /\ handler \in Bus!Found(access.port) /\ build \in {"debug", "release"}
        /\ ended = Bus!Ends(handler)
        /\ ~ended => \A i \in Bus!Answered(handler) : area[i] = "handler"
    BY DEF PortsInv
  <2>2. Bus!IsDevice(access.port) => handler \in DeviceNames
    BY <2>1, FoundIs, DevicesAre DEF Place, DeviceNames
  <2>3. CASE ended
    <3>. SUFFICES ASSUME access.length = 1
                  PROVE  handler = "csu" \/ (handler = "hexDisplay" /\ ~access.write)
      BY <2>3 DEF Bus!AccessesAreAnswered
    <3>1. Bus!Assertion(handler)
      BY DEF Bus!Assertion
    <3>2. Bus!IsDevice(access.port) /\ 1 \notin Bus!Implemented(handler, access.write)
      BY <2>1, <2>3, <3>1 DEF Bus!Ends
    <3>. QED
      BY <2>2, <3>2 DEF Bus!Implemented, DeviceNames, Bus!Lengths
  <2>4. CASE ~ended
    <3>. SUFFICES ASSUME ~access.write, handler # "POSTCode",
                         access.length = 1 \/ (build = "debug" /\ handler \notin {"Keyboard", "LCD"})
                  PROVE  \A i \in 0..(access.length - 1) : area[i] = "handler"
      BY <2>1, <2>4 DEF Bus!AccessesAreAnswered
    <3>1. CASE handler = "Unhandled" \/ handler = "DiskRegisters" \/ Bus!IsDevice(access.port)
      <4>1. Bus!Answered(handler) = 0..(access.length - 1)
        BY <3>1 DEF Bus!Answered
      <4>. QED
        BY <2>1, <2>4, <4>1
    <3>2. CASE ~(handler = "Unhandled" \/ handler = "DiskRegisters" \/ Bus!IsDevice(access.port))
      <4>1. Bus!Answered(handler) = {0}
        BY <3>2 DEF Bus!Answered
      <4>2. access.length = 1
        <5>1. build = "debug" /\ handler \notin {"Keyboard", "LCD"} => Bus!Assertion(handler)
          BY <2>1, <2>4 DEF Bus!Ends
        <5>. QED
          BY <3>2, <5>1 DEF Bus!Assertion
      <4>. QED
        BY <2>1, <2>4, <4>1, <4>2
    <3>. QED
      BY <3>1, <3>2
  <2>. QED
    BY <2>3, <2>4
<1>2. Bus!AccessesAreAnswered => AccessesAreAnswered
  BY DEF AccessesAreAnswered
<1>. QED
  BY <1>1, <1>2, PortsCorrect, PTL

-----------------------------------------------------------------------------
(* Powers of two and the bits of numbers.  The library's induction theorems cannot be  *)
(* instantiated; a least counterexample (Least) does their work.                       *)

\* Each power is twice the one before, of those that a 32-bit address has.
LEMMA Powers ==
    ASSUME NEW i \in 0..29
    PROVE  2^i \in Nat /\ 2^i > 0 /\ 2^(i + 1) = 2 * 2^i
<1>. DEFINE Doubles == 2^i \in Nat /\ 2^i > 0 /\ 2^(i + 1) = 2 * 2^i
<1>0. i = 0 => Doubles  BY SMT
<1>1. i = 1 => Doubles  BY SMT
<1>2. i = 2 => Doubles  BY SMT
<1>3. i = 3 => Doubles  BY SMT
<1>4. i = 4 => Doubles  BY SMT
<1>5. i = 5 => Doubles  BY SMT
<1>6. i = 6 => Doubles  BY SMT
<1>7. i = 7 => Doubles  BY SMT
<1>8. i = 8 => Doubles  BY SMT
<1>9. i = 9 => Doubles  BY SMT
<1>10. i = 10 => Doubles  BY SMT
<1>11. i = 11 => Doubles  BY SMT
<1>12. i = 12 => Doubles  BY SMT
<1>13. i = 13 => Doubles  BY SMT
<1>14. i = 14 => Doubles  BY SMT
<1>15. i = 15 => Doubles  BY SMT
<1>16. i = 16 => Doubles  BY SMT
<1>17. i = 17 => Doubles  BY SMT
<1>18. i = 18 => Doubles  BY SMT
<1>19. i = 19 => Doubles  BY SMT
<1>20. i = 20 => Doubles  BY SMT
<1>21. i = 21 => Doubles  BY SMT
<1>22. i = 22 => Doubles  BY SMT
<1>23. i = 23 => Doubles  BY SMT
<1>24. i = 24 => Doubles  BY SMT
<1>25. i = 25 => Doubles  BY SMT
<1>26. i = 26 => Doubles  BY SMT
<1>27. i = 27 => Doubles  BY SMT
<1>28. i = 28 => Doubles  BY SMT
<1>29. i = 29 => Doubles  BY SMT
<1>. HIDE DEF Doubles
<1>30. i = 0 \/ i = 1 \/ i = 2 \/ i = 3 \/ i = 4 \/ i = 5 \/ i = 6 \/ i = 7 \/ i = 8 \/ i = 9 \/ i = 10 \/ i = 11 \/ i = 12 \/ i = 13 \/ i = 14 \/ i = 15 \/ i = 16 \/ i = 17 \/ i = 18 \/ i = 19 \/ i = 20 \/ i = 21 \/ i = 22 \/ i = 23 \/ i = 24 \/ i = 25 \/ i = 26 \/ i = 27 \/ i = 28 \/ i = 29
  BY SMT
<1>31. Doubles
  BY <1>0, <1>1, <1>2, <1>3, <1>4, <1>5, <1>6, <1>7, <1>8, <1>9, <1>10, <1>11, <1>12, <1>13, <1>14, <1>15, <1>16, <1>17, <1>18, <1>19, <1>20, <1>21, <1>22, <1>23, <1>24, <1>25, <1>26, <1>27, <1>28, <1>29, <1>30
<1>. QED
  BY <1>31 DEF Doubles

\* Dividing by two and by p is dividing by 2p.
LEMMA Halved ==
    ASSUME NEW x \in Nat, NEW p \in Nat, p > 0
    PROVE  x \div (2 * p) = (x \div p) \div 2
<1>. DEFINE q == x \div p
            r == x % p
            h == q \div 2
            b == q % 2
<1>1. q \in Nat /\ r \in Nat /\ r < p /\ x = p * q + r
  BY SMT
<1>2. h \in Nat /\ b \in {0, 1} /\ q = 2 * h + b
  BY <1>1, SMT
<1>. HIDE DEF q, r, h, b
<1>3. p * q = (2 * p) * h + p * b
  BY <1>1, <1>2, SMT
<1>4. p * b + r \in Nat /\ p * b + r < 2 * p
  BY <1>1, <1>2, SMT
<1>. DEFINE m == 2 * p
            y == p * b + r
<1>5. x = m * h + y /\ m \in Nat /\ y \in Nat /\ y < m
  BY <1>1, <1>2, <1>3, <1>4, SMT
<1>. HIDE DEF m, y
<1>6. x \div m = h
  BY <1>2, <1>5, Remainder
<1>. QED
  BY <1>6 DEF m, q, h

\* A set of natural numbers has a least one.
LEMMA Least ==
    ASSUME NEW T, T \subseteq Nat, T # {}
    PROVE  \E x \in T : \A y \in T : x <= y
<1>. DEFINE R == OpToRel(<, Nat)
<1>1. PICK x \in T : \A y \in T : ~(<<y, x>> \in R)
  BY NatLessThanWellFounded, WFMin, Zenon
<1>2. ASSUME NEW y \in T PROVE <<y, x>> \in R <=> y < x
  <2>1. x \in Nat /\ y \in Nat
    OBVIOUS
  <2>. QED
    BY <2>1, SMT DEF OpToRel
<1>3. ASSUME NEW y \in T PROVE x <= y
  <2>1. x \in Nat /\ y \in Nat /\ ~(y < x)
    BY <1>1, <1>2
  <2>. QED
    BY <2>1, SMT
<1>. QED
  BY <1>3

\* A bit of a number.
Bit(x, i) == (x \div 2^i) % 2 = 1

LEMMA BitIs ==
    ASSUME NEW x \in Nat, NEW i \in 0..29
    PROVE  /\ x \div 2^i \in Nat
           /\ x \div 2^(i + 1) = (x \div 2^i) \div 2
<1>. DEFINE p == 2^i
<1>1. p \in Nat /\ p > 0 /\ 2^(i + 1) = 2 * p
  BY Powers
<1>. HIDE DEF p
<1>2. x \div p \in Nat /\ x \div (2 * p) = (x \div p) \div 2
  BY <1>1, Halved, Division
<1>. QED
  BY <1>1, <1>2 DEF p

\* Two numbers that agree above some bits agree from a lower one on if and only if they
\* have the same bits in between.
LEMMA SameBits ==
    ASSUME NEW x \in Nat, NEW y \in Nat, NEW n \in 0..30, NEW k \in 0..n,
           x \div 2^n = y \div 2^n
    PROVE  x \div 2^k = y \div 2^k <=> \A i \in k..(n - 1) : Bit(x, i) <=> Bit(y, i)
<1>. DEFINE Same(i) == x \div 2^i = y \div 2^i
<1>0. ASSUME NEW i \in 0..29
      PROVE  /\ Same(i) => Same(i + 1) /\ (Bit(x, i) <=> Bit(y, i))
             /\ Same(i + 1) /\ (Bit(x, i) <=> Bit(y, i)) => Same(i)
  <2>. DEFINE p == x \div 2^i
              q == y \div 2^i
  <2>1. p \in Nat /\ q \in Nat /\ x \div 2^(i + 1) = p \div 2 /\ y \div 2^(i + 1) = q \div 2
    BY BitIs
  <2>2. (Bit(x, i) <=> p % 2 = 1) /\ (Bit(y, i) <=> q % 2 = 1)
    BY DEF Bit
  <2>. HIDE DEF p, q
  <2>3. p = q => p \div 2 = q \div 2 /\ (p % 2 = 1 <=> q % 2 = 1)
    OBVIOUS
  <2>4. p \div 2 = q \div 2 /\ (p % 2 = 1 <=> q % 2 = 1) => p = q
    BY <2>1, SMT
  <2>. QED
    BY <2>1, <2>2, <2>3, <2>4 DEF p, q
<1>. HIDE DEF Same
<1>1. ASSUME Same(k)
      PROVE  \A i \in k..n : Same(i)
  <2>. DEFINE T == {i \in k..n : ~Same(i)}
  <2>1. CASE T # {}
    <3>1. T \subseteq Nat
      BY SMT
    <3>. HIDE DEF T
    <3>2. PICK i \in T : \A j \in T : i <= j
      BY <2>1, <3>1, Least
    <3>. USE DEF T
    <3>3. i - 1 \in k..n /\ i - 1 \in 0..29 /\ i - 1 \notin T /\ (i - 1) + 1 = i
      BY <1>1, <3>2, SMT
    <3>4. Same(i - 1) /\ ~Same(i)
      BY <3>2, <3>3
    <3>. QED
      BY <1>0, <3>3, <3>4
  <2>2. CASE T = {}
    BY <2>2
  <2>. QED
    BY <2>1, <2>2
<1>2. ASSUME \A i \in k..(n - 1) : Bit(x, i) <=> Bit(y, i)
      PROVE  Same(k)
  <2>. DEFINE T == {j \in 0..(n - k) : ~Same(n - j)}
  <2>1. CASE T # {}
    <3>1. T \subseteq Nat
      BY SMT
    <3>. HIDE DEF T
    <3>2. PICK j \in T : \A l \in T : j <= l
      BY <2>1, <3>1, Least
    <3>. USE DEF T
    <3>3. n - 0 = n /\ Same(n)
      BY DEF Same
    <3>. DEFINE i == n - j
    <3>4. /\ j \in 0..(n - k) /\ j # 0
          /\ i \in k..(n - 1) /\ i \in 0..29 /\ n - (j - 1) = i + 1
          /\ j - 1 \in 0..(n - k) /\ ~(j <= j - 1)
      BY <3>2, <3>3, SMT
    <3>5. Same(i + 1) /\ ~Same(i)
      BY <3>2, <3>4
    <3>. HIDE DEF i
    <3>. QED
      BY <1>0, <1>2, <3>4, <3>5
  <2>2. CASE T = {}
    <3>1. n - k \in 0..(n - k) /\ n - (n - k) = k
      BY SMT
    <3>. QED
      BY <2>2, <3>1
  <2>. QED
    BY <2>1, <2>2
<1>3. ASSUME NEW i \in k..(n - 1)
      PROVE  i \in k..n /\ i \in 0..29
  BY SMT
<1>4. Same(k) <=> \A i \in k..(n - 1) : Bit(x, i) <=> Bit(y, i)
  BY <1>0, <1>1, <1>2, <1>3
<1>. QED
  BY <1>4 DEF Same

\* Powers are positive.
LEMMA PowerIs == \A i \in 0..30 : 2^i \in Nat /\ 2^i > 0
<1>1. 2^30 \in Nat /\ 2^30 > 0
  BY SMT
<1>2. \A i \in 0..30 : i \in 0..29 \/ i = 30
  BY SMT
<1>. QED
  BY <1>1, <1>2, Powers, Zenon

\* A power of two is a multiple of the lower ones.
LEMMA Multiples ==
    ASSUME NEW k \in 0..30, NEW j \in 0..k
    PROVE  \E t \in Nat : t > 0 /\ 2^k = 2^j * t
<1>. DEFINE T == {d \in 0..(k - j) : ~\E t \in Nat : t > 0 /\ 2^(j + d) = 2^j * t}
<1>1. CASE T # {}
  <2>1. T \subseteq Nat
    BY SMT
  <2>. HIDE DEF T
  <2>2. PICK d \in T : \A e \in T : d <= e
    BY <1>1, <2>1, Least
  <2>. USE DEF T
  <2>3. j + 0 = j /\ 2^j = 2^j * 1
    <3>1. j \in 0..30
      BY SMT
    <3>. QED
      BY <3>1, PowerIs
  <2>4. d # 0
    BY <2>2, <2>3
  <2>. DEFINE i == j + (d - 1)
  <2>5. d - 1 \in 0..(k - j) /\ ~(d <= d - 1) /\ i \in 0..29 /\ j + d = i + 1
    BY <2>2, <2>4, SMT
  <2>6. PICK t \in Nat : t > 0 /\ 2^i = 2^j * t
    BY <2>2, <2>5
  <2>. HIDE DEF i
  <2>. DEFINE p == 2^j
  <2>7. p \in Nat
    <3>1. j \in 0..30
      BY SMT
    <3>. QED
      BY <3>1, PowerIs
  <2>8. 2^(j + d) = 2 * (p * t)
    BY <2>5, <2>6, Powers
  <2>. HIDE DEF p
  <2>9. 2 * (p * t) = p * (2 * t) /\ 2 * t \in Nat /\ 2 * t > 0
    BY <2>6, <2>7, SMT
  <2>10. 2^(j + d) = 2^j * (2 * t)
    BY <2>8, <2>9 DEF p
  <2>. QED
    BY <2>2, <2>9, <2>10
<1>2. CASE T = {}
  <2>1. k - j \in 0..(k - j) /\ j + (k - j) = k
    BY SMT
  <2>2. k - j \notin T
    BY <1>2
  <2>. HIDE DEF T
  <2>3. \E t \in Nat : t > 0 /\ 2^(j + (k - j)) = 2^j * t
    BY <2>1, <2>2 DEF T
  <2>. QED
    BY <2>1, <2>3
<1>. QED
  BY <1>1, <1>2

\* The number below a power of two has the bits below it.
LEMMA Ones ==
    ASSUME NEW k \in 0..30, NEW i \in 0..29
    PROVE  2^k - 1 \in Nat /\ (Bit(2^k - 1, i) <=> i < k)
<1>0. 2^k \in Nat /\ 2^k > 0 /\ 2^i \in Nat /\ 2^i > 0
  <2>1. i \in 0..30
    BY SMT
  <2>. QED
    BY <2>1, PowerIs
<1>. DEFINE p == 2^i
            x == 2^k - 1
<1>1. CASE i < k
  <2>1. i + 1 \in 0..k
    BY <1>1, SMT
  <2>2. PICK t \in Nat : t > 0 /\ 2^k = 2^(i + 1) * t
    BY <2>1, Multiples
  <2>3. 2^(i + 1) = 2 * p /\ p \in Nat /\ p > 0
    BY Powers
  <2>4. x = (2 * p) * t - 1
    BY <2>2, <2>3
  <2>. HIDE DEF p, x
  <2>5. x = p * (2 * t - 1) + (p - 1) /\ 2 * t - 1 \in Nat /\ p - 1 \in Nat /\ p - 1 < p
    BY <2>2, <2>3, <2>4, SMT
  <2>6. x \div p = 2 * t - 1
    BY <2>3, <2>5, Remainder, Zenon
  <2>7. (2 * t - 1) % 2 = 1
    BY <2>2, SMT
  <2>. QED
    BY <1>0, <1>1, <2>6, <2>7, SMT DEF Bit, p, x
<1>2. CASE ~(i < k)
  <2>1. k \in 0..i
    BY <1>2, SMT
  <2>2. PICK t \in Nat : t > 0 /\ 2^i = 2^k * t
    <3>1. i \in 0..30
      BY SMT
    <3>. QED
      BY <2>1, <3>1, Multiples
  <2>. DEFINE q == 2^k
  <2>3. p \in Nat /\ q \in Nat /\ q > 0 /\ p = q * t /\ x = q - 1
    BY <1>0, <2>2
  <2>. HIDE DEF p, q, x
  <2>4. q <= p
    <3>1. q * (t - 1) \in Nat /\ q * (t - 1) = q * t - q
      BY <2>2, <2>3, SMT
    <3>. QED
      BY <2>3, <3>1, SMT
  <2>5. x = p * 0 + x /\ x \in Nat /\ x < p
    BY <2>3, <2>4, SMT
  <2>6. x \div p = 0
    <3>1. (p * 0 + x) \div p = 0
      BY <2>3, <2>5, Remainder
    <3>. QED
      BY <2>5, <3>1
  <2>7. 0 % 2 = 0
    BY SMT
  <2>. QED
    BY <1>2, <2>5, <2>6, <2>7 DEF Bit, p, x
<1>. QED
  BY <1>1, <1>2

\* What is left of a number by a power of two has the bits below it.
LEMMA LowBits ==
    ASSUME NEW a \in Nat, NEW n \in 0..30, NEW i \in 0..29, i < n
    PROVE  a % 2^n \in Nat /\ a % 2^n < 2^n /\ (Bit(a % 2^n, i) <=> Bit(a, i))
<1>. DEFINE m == 2^n
            p == 2^i
            r == a % m
            q == a \div m
            s == r \div p
            l == r % p
<1>1. m \in Nat /\ m > 0 /\ p \in Nat /\ p > 0 /\ 2^(i + 1) = 2 * p
  BY PowerIs, Powers
<1>2. PICK t \in Nat : t > 0 /\ m = (2 * p) * t
  <2>1. i + 1 \in 0..n
    BY SMT
  <2>2. PICK t \in Nat : t > 0 /\ 2^n = 2^(i + 1) * t
    BY <2>1, Multiples
  <2>. QED
    BY <1>1, <2>2
<1>. HIDE DEF m, p
<1>3. q \in Nat /\ r \in Nat /\ r < m /\ a = m * q + r
  BY <1>1, Division
<1>. HIDE DEF r
<1>4. s \in Nat /\ l \in Nat /\ l < p /\ r = p * s + l
  BY <1>1, <1>3, Division
<1>. HIDE DEF q, s, l
<1>. DEFINE u == 2 * (t * q) + s
<1>5. u \in Nat /\ a = p * u + l
  <2>1. ((2 * p) * t) * q = p * (2 * (t * q)) /\ t * q \in Nat
    BY <1>1, <1>2, <1>3, SMT
  <2>2. p * u = p * (2 * (t * q)) + p * s
    BY <1>1, <1>2, <1>3, <1>4, <2>1, SMT
  <2>. QED
    BY <1>1, <1>2, <1>3, <1>4, <2>1, <2>2, SMT
<1>6. u % 2 = s % 2
  <2>. DEFINE v == t * q
  <2>1. v \in Nat
    BY <1>2, <1>3, SMT
  <2>. HIDE DEF v
  <2>2. (2 * v + s) % 2 = s % 2
    BY <1>4, <2>1, SMT
  <2>. QED
    BY <2>2 DEF v
<1>. HIDE DEF u
<1>7. a \div p = u
  BY <1>1, <1>4, <1>5, Remainder, Zenon
<1>8. (r \div p) % 2 = (a \div p) % 2
  BY <1>6, <1>7 DEF s
<1>. QED
  BY <1>3, <1>8 DEF Bit, r, m, p

\* The addresses of a window are those with the bits of its base above its size.
LEMMA InBlock ==
    ASSUME NEW n \in 0..30, NEW k \in 0..n, NEW a \in Nat, NEW base \in Nat,
           base % 2^k = 0, base + 2^k <= 2^n
    PROVE  a % 2^n \in base..(base + 2^k - 1)
              <=> \A i \in k..(n - 1) : Bit(a, i) <=> Bit(base, i)
<1>. DEFINE m == 2^n
            p == 2^k
            x == a % m
<1>1. m \in Nat /\ m > 0 /\ p \in Nat /\ p > 0
  <2>1. n \in 0..30 /\ k \in 0..30
    BY SMT
  <2>. QED
    BY <2>1, PowerIs
<1>. HIDE DEF m, p
<1>2. x \in Nat /\ x < m
  BY <1>1, Division
<1>. HIDE DEF x
<1>3. base < m /\ base % p = 0 /\ base + p <= m
  <2>1. base % p = 0 /\ base + p <= m
    BY DEF m, p
  <2>. QED
    BY <1>1, <2>1, SMT
<1>4. ASSUME NEW y \in Nat, y < m
      PROVE  y \div m = 0
  <2>1. (m * 0 + y) \div m = 0
    BY <1>1, <1>4, Remainder
  <2>2. m * 0 + y = y
    BY <1>1, SMT
  <2>. QED
    BY <2>1, <2>2
<1>5. x \div m = base \div m
  BY <1>2, <1>3, <1>4
<1>6. x \div p = base \div p <=> \A i \in k..(n - 1) : Bit(x, i) <=> Bit(base, i)
  BY <1>2, <1>5, SameBits DEF m, p
<1>7. x \in base..(base + p - 1) <=> x \div p = base \div p
  <2>. DEFINE q == base \div p
              c == x \div p
              r == x % p
  <2>1. q \in Nat /\ base = p * q
    BY <1>1, <1>3, Division
  <2>2. c \in Nat /\ r \in Nat /\ r < p /\ x = p * c + r
    BY <1>1, <1>2, Division
  <2>. HIDE DEF q, c, r
  <2>3. p * c \in Int /\ p * q \in Int
    BY <1>1, <2>1, <2>2, SMT
  <2>4. c < q => p * c + p <= p * q
    BY <1>1, <2>1, <2>2, Multiple
  <2>5. q < c => p * q + p <= p * c
    BY <1>1, <2>1, <2>2, Multiple
  <2>6. c = q => x \in base..(base + p - 1)
    BY <1>1, <1>2, <2>1, <2>2, <2>3, SMT
  <2>7. x \in base..(base + p - 1) => ~(c < q) /\ ~(q < c)
    BY <1>1, <1>2, <2>1, <2>2, <2>3, <2>4, <2>5, SMT
  <2>8. ~(c < q) /\ ~(q < c) => c = q
    BY <2>1, <2>2, SMT
  <2>. QED
    BY <2>6, <2>7, <2>8 DEF c, q
<1>8. ASSUME NEW i \in k..(n - 1)
      PROVE  Bit(x, i) <=> Bit(a, i)
  <2>1. i \in 0..29 /\ i < n
    BY SMT
  <2>. QED
    BY <2>1, LowBits DEF x, m
<1>. QED
  BY <1>6, <1>7, <1>8 DEF x, m, p

\* A multiple leaves nothing.
LEMMA Exact ==
    ASSUME NEW m \in Nat, m > 0, NEW d \in Int
    PROVE  (m * d) % m = 0
<1>. DEFINE x == m * d
            q == x \div m
            r == x % m
<1>1. x \in Int /\ x = m * d
  BY SMT
<1>. HIDE DEF x
<1>2. q \in Int /\ r \in Nat /\ r < m /\ x = m * q + r
  BY <1>1, SMT
<1>3. m * q \in Int /\ m * d \in Int
  BY <1>2, SMT
<1>. HIDE DEF q, r
<1>4. d < q => m * d + m <= m * q
  BY <1>2, Multiple
<1>5. q < d => m * q + m <= m * d
  BY <1>2, Multiple
<1>6. r = 0
  <2>1. CASE d = q
    BY <1>1, <1>2, <1>3, <2>1, SMT
  <2>2. CASE d < q
    BY <1>1, <1>2, <1>3, <1>4, <2>2, SMT
  <2>3. CASE q < d
    BY <1>1, <1>2, <1>3, <1>5, <2>3, SMT
  <2>. QED
    BY <1>2, <2>1, <2>2, <2>3, SMT
<1>. QED
  BY <1>6 DEF r, x

\* Zero has no bits.
LEMMA ZeroIs ==
    /\ \A p \in Nat : p > 0 => 0 \div p = 0
    /\ \A i \in 0..30 : 0 \div 2^i = 0
    /\ \A i \in 0..29 : ~Bit(0, i)
<1>1. ASSUME NEW p \in Nat, p > 0
      PROVE  0 \div p = 0 /\ 0 % 2 # 1
  BY <1>1, SMT
<1>2. \A i \in 0..30 : 0 \div 2^i = 0
  BY <1>1, PowerIs
<1>3. \A i \in 0..29 : i \in 0..30
  BY SMT
<1>. QED
  BY <1>1, <1>2, <1>3 DEF Bit

\* A number below a power of two is below a lower one if it has no bit between them.
LEMMA NoBits ==
    ASSUME NEW x \in Nat, NEW n \in 0..30, NEW k \in 0..n, x \div 2^n = 0
    PROVE  x \div 2^k = 0 <=> \A i \in k..(n - 1) : ~Bit(x, i)
<1>1. k \in 0..30 /\ 0 \in Nat /\ \A i \in k..(n - 1) : i \in 0..29
  BY SMT
<1>2. x \div 2^n = 0 \div 2^n
  BY ZeroIs
<1>3. x \div 2^k = 0 \div 2^k <=> \A i \in k..(n - 1) : Bit(x, i) <=> Bit(0, i)
  BY <1>1, <1>2, SameBits
<1>. QED
  BY <1>1, <1>3, ZeroIs

\* The same for any of thirty bits.
LEMMA NoBitsAbove ==
    ASSUME NEW x \in Nat, x \div 2^30 = 0, NEW k \in 0..30
    PROVE  x \div 2^k = 0 <=> \A i \in 0..29 : k <= i => ~Bit(x, i)
<1>. DEFINE n == 30
<1>1. x \div 2^n = 0 /\ n \in 0..30 /\ k \in 0..n
  BY SMT
<1>2. \A i : i \in k..(n - 1) <=> i \in 0..29 /\ k <= i
  BY SMT
<1>. HIDE DEF n
<1>3. x \div 2^k = 0 <=> \A i \in k..(n - 1) : ~Bit(x, i)
  BY <1>1, NoBits
<1>. QED
  BY <1>2, <1>3

\* A number below a power of two without bits is zero.
LEMMA NoBitsBelow ==
    ASSUME NEW x \in Nat, NEW n \in 0..30, x \div 2^n = 0
    PROVE  (\A i \in 0..29 : i < n => ~Bit(x, i)) => x = 0
<1>. DEFINE k == 0
<1>1. k \in 0..n /\ 2^k = 1 /\ x \div 1 = x /\ \A i \in k..(n - 1) : i \in 0..29 /\ i < n
  BY SMT
<1>. HIDE DEF k
<1>2. x \div 2^k = 0 <=> \A i \in k..(n - 1) : ~Bit(x, i)
  BY <1>1, NoBits
<1>. QED
  BY <1>1, <1>2

-----------------------------------------------------------------------------
(* The chip select unit. *)

\* The types of the unit's variables.
UnitTypes == /\ goal \in Windows /\ device \in Memories
             /\ addressRegister \subseteq 0..31 /\ maskRegister \subseteq 0..31

\* A write of a word of what the guest wants replaces one half of a register.
LEMMA HalfWritten ==
    ASSUME NEW register, register \subseteq 0..31, NEW wanted, NEW r
    PROVE  /\ Csu!With(register, r, Csu!Half(wanted, r)) \subseteq 0..31
           /\ \A b \in 0..31 : b \in Csu!With(register, r, Csu!Half(wanted, r))
                 <=> IF r \in Csu!Low <=> b < 16 THEN b \in wanted ELSE b \in register
<1>0. /\ \A b \in 0..15 : b \in 0..31 /\ b < 16
      /\ \A b \in 16..31 : b \in 0..31 /\ ~(b < 16)
      /\ \A b \in 0..31 : /\ b < 16 => b \in 0..15
                          /\ ~(b < 16) => b \in 16..31
                          /\ b >= 16 <=> ~(b < 16)
  BY SMT
<1>. DEFINE after == Csu!With(register, r, Csu!Half(wanted, r))
<1>1. CASE r \in Csu!Low
  <2>1. after = {b \in register : b >= 16} \cup (wanted \cap (0..15))
    BY <1>1 DEF Csu!With, Csu!Half
  <2>2. \A b : b \in after <=> (b \in register /\ b >= 16) \/ (b \in wanted /\ b \in 0..15)
    BY <2>1
  <2>. HIDE DEF after
  <2>3. ASSUME NEW b \in 0..31
        PROVE  b \in after <=> IF b < 16 THEN b \in wanted ELSE b \in register
    BY <1>0, <2>2, Zenon
  <2>4. after \subseteq 0..31
    BY <1>0, <2>2, Zenon
  <2>. QED
    BY <1>1, <2>3, <2>4 DEF after
<1>2. CASE r \notin Csu!Low
  <2>. DEFINE upper == {b - 16 : b \in wanted \cap (16..31)}
  <2>1. after = {b \in register : b < 16} \cup {b + 16 : b \in upper}
    BY <1>2 DEF Csu!With, Csu!Half
  <2>2. {b + 16 : b \in upper} = wanted \cap (16..31)
    <3>1. ASSUME NEW b \in 16..31
          PROVE  (b - 16) + 16 = b
      BY SMT
    <3>2. ASSUME NEW c \in {b + 16 : b \in upper}
          PROVE  c \in wanted \cap (16..31)
      <4>1. PICK d \in upper : c = d + 16
        BY <3>2, Zenon
      <4>2. PICK b \in wanted \cap (16..31) : d = b - 16
        BY Zenon
      <4>. QED
        BY <3>1, <4>1, <4>2
    <3>3. ASSUME NEW c \in wanted \cap (16..31)
          PROVE  c \in {b + 16 : b \in upper}
      <4>1. c - 16 \in upper /\ (c - 16) + 16 = c
        BY <3>1
      <4>. HIDE DEF upper
      <4>. QED
        BY <4>1, Zenon
    <3>. QED
      BY <3>2, <3>3
  <2>. HIDE DEF upper
  <2>3. \A b : b \in after <=> (b \in register /\ b < 16) \/ (b \in wanted /\ b \in 16..31)
    BY <2>1, <2>2
  <2>. HIDE DEF after
  <2>4. ASSUME NEW b \in 0..31
        PROVE  b \in after <=> IF b < 16 THEN b \in register ELSE b \in wanted
    BY <1>0, <2>3, Zenon
  <2>5. after \subseteq 0..31
    BY <1>0, <2>3, Zenon
  <2>. QED
    BY <1>2, <2>4, <2>5 DEF after
<1>. QED
  BY <1>1, <1>2

\* So does a word of ones or zeros.
LEMMA Scrambled ==
    ASSUME NEW register, register \subseteq 0..31, NEW r, NEW word \in {{}, 0..15}
    PROVE  Csu!With(register, r, word) \subseteq 0..31
<1>1. \A b \in word : b \in 0..31 /\ b + 16 \in 0..31
  BY SMT
<1>. QED
  BY <1>1 DEF Csu!With

LEMMA UnitSteps == ASSUME [Next]_vars PROVE Csu!Next \/ UNCHANGED unit
BY DEF Next, vars

\* The registers keep their types.
LEMMA UnitTypesCorrect == Spec => []UnitTypes
<1>1. Init => UnitTypes
  <2>1. Init => Csu!Init
    BY PTL DEF Init
  <2>. QED
    BY <2>1 DEF Csu!Init, UnitTypes
<1>2. UnitTypes /\ [Next]_vars => UnitTypes'
  <2>. SUFFICES ASSUME UnitTypes, [Next]_vars PROVE UnitTypes'
    OBVIOUS
  <2>1. CASE Csu!Turns
    BY <2>1 DEF Csu!Turns, UnitTypes
  <2>2. ASSUME NEW r \in Csu!Words, Csu!Programs(r) PROVE UnitTypes'
    <3>1. goal' = goal /\ device' = device
      BY <2>2 DEF Csu!Programs
    <3>2. \/ addressRegister' = addressRegister
          \/ \E wanted : addressRegister' = Csu!With(addressRegister, r, Csu!Half(wanted, r))
      BY <2>2 DEF Csu!Programs, Csu!iowrite16
    <3>3. \/ maskRegister' = maskRegister
          \/ \E wanted : maskRegister' = Csu!With(maskRegister, r, Csu!Half(wanted, r))
      BY <2>2 DEF Csu!Programs, Csu!iowrite16
    <3>. QED
      BY <3>1, <3>2, <3>3, HalfWritten DEF UnitTypes
  <2>3. ASSUME NEW r \in Csu!Words, Csu!Scrambles(r) PROVE UnitTypes'
    <3>1. PICK word \in {{}, 0..15} : Csu!iowrite16(r, word) /\ goal' = goal /\ device' = device
      BY <2>3 DEF Csu!Scrambles
    <3>2. addressRegister' \in {addressRegister, Csu!With(addressRegister, r, word)}
      BY <3>1 DEF Csu!iowrite16
    <3>3. maskRegister' \in {maskRegister, Csu!With(maskRegister, r, word)}
      BY <3>1 DEF Csu!iowrite16
    <3>. QED
      BY <3>1, <3>2, <3>3, Scrambled DEF UnitTypes
  <2>4. CASE UNCHANGED unit
    BY <2>4 DEF unit, UnitTypes
  <2>. QED
    BY <2>1, <2>2, <2>3, <2>4, UnitSteps DEF Csu!Next
<1>. QED
  BY <1>1, <1>2, PTL DEF Spec

\* The model's set of bits, bit by bit.
LEMMA BitsAre ==
    ASSUME NEW x
    PROVE  \A i : i \in Csu!Bits(x) <=> i \in 0..29 /\ Bit(x, i)
BY DEF Csu!Bits, Bit

\* A window is a block of addresses that differ in the bits below some k only.
LEMMA GoalIs ==
    ASSUME UnitTypes
    PROVE  /\ goal.cycle \in {"memory", "io"} /\ goal.base \in Nat
           /\ goal.cycle = "memory" => \E k \in 11..26 :
                /\ goal.size = 2^k /\ goal.base % 2^k = 0 /\ goal.base + 2^k <= 2^26
           /\ goal.cycle = "io" => \E k \in 1..16 :
                /\ goal.size = 2^k /\ goal.base % 2^k = 0 /\ goal.base + 2^k <= 2^16
<1>1. \A w \in Windows : w.cycle \in {"memory", "io"} /\ IsWindow(w)
  BY InputsAssumption, PTL
<1>2. goal.cycle \in {"memory", "io"} /\ IsWindow(goal)
  BY <1>1 DEF UnitTypes
<1>3. CASE goal.cycle = "memory"
  BY <1>2, <1>3, Zenon DEF IsWindow
<1>4. CASE goal.cycle = "io"
  <2>1. goal.cycle # "memory"
    BY <1>4
  <2>. QED
    BY <1>2, <1>4, <2>1, Zenon DEF IsWindow
<1>. QED
  BY <1>2, <1>3, <1>4

\* The bits of the registers that are compared at all.
Hardware == 11..25

\* The bits of a memory's window that are masked.
LEMMA MaskIs ==
    ASSUME UnitTypes, goal.cycle = "memory",
           NEW k \in 11..26, goal.size = 2^k
    PROVE  /\ Hardware \cap Csu!GoalMask = {i \in Hardware : i < k}
           /\ Hardware \cap Csu!GoalAddress = {i \in Hardware : Bit(goal.base, i)}
           /\ 8 \in Csu!GoalAddress
<1>1. \A i \in Hardware : i \in 0..29
  BY SMT DEF Hardware
<1>2. ASSUME NEW i \in Hardware
      PROVE  Bit(goal.size - 1, i) <=> i < k
  <2>1. k \in 0..30
    BY SMT
  <2>. QED
    BY <1>1, <2>1, Ones
<1>3. Csu!GoalMask = Csu!Bits(goal.size - 1) \cup {0}
  BY DEF Csu!GoalMask, Csu!Shift, Csu!Enable
<1>4. Csu!GoalAddress = Csu!Bits(goal.base) \cup {8}
  BY DEF Csu!GoalAddress, Csu!Shift, Csu!MemoryCycle
<1>5. 0 \notin Hardware /\ 8 \notin Hardware
  BY SMT DEF Hardware
<1>6. Hardware \cap Csu!GoalMask = {i \in Hardware : i < k}
  BY <1>1, <1>2, <1>3, <1>5, BitsAre, Zenon
<1>7. Hardware \cap Csu!GoalAddress = {i \in Hardware : Bit(goal.base, i)}
  BY <1>1, <1>4, <1>5, BitsAre, Zenon
<1>. QED
  BY <1>4, <1>6, <1>7

\* An address of a memory's window has the bits of its base where the unit compares.
LEMMA InMemory ==
    ASSUME UnitTypes, goal.cycle = "memory", NEW a \in Nat,
           NEW k \in 11..26, goal.size = 2^k,
           goal.base % 2^k = 0, goal.base + 2^k <= 2^26
    PROVE  Csu!InWindow(a % 2^26) <=>
              \A i \in {i \in Hardware : ~(i < k)} : Bit(a, i) <=> Bit(goal.base, i)
<1>1. goal.base \in Nat
  BY GoalIs
<1>2. 26 \in 0..30 /\ k \in 0..26
  BY SMT
<1>3. a % 2^26 \in goal.base..(goal.base + 2^k - 1)
        <=> \A i \in k..25 : Bit(a, i) <=> Bit(goal.base, i)
  <2>1. 26 - 1 = 25
    BY SMT
  <2>. QED
    BY <1>1, <1>2, <2>1, InBlock
<1>4. \A i : i \in k..25 <=> i \in {j \in Hardware : ~(j < k)}
  BY SMT DEF Hardware
<1>5. Csu!InWindow(a % 2^26) <=> a % 2^26 \in goal.base..(goal.base + 2^k - 1)
  BY DEF Csu!InWindow
<1>. QED
  BY <1>3, <1>4, <1>5, Zenon

\* While the guest keeps to the order, the unit compares no bit, or those of the window.
StaysInv ==
    orderly /\ goal.cycle = "memory" =>
        /\ 8 \in addressRegister
        /\ \/ maskRegister = 0..31
           \/ addressRegister = Csu!GoalAddress /\ Hardware \cap Csu!GoalMask \subseteq maskRegister

\* Every step of the unit preserves it.
LEMMA StaysStep == ASSUME UnitTypes, StaysInv, [Next]_vars PROVE StaysInv'
<1>1. ASSUME NEW r \in Csu!Words, Csu!Programs(r)
      PROVE  StaysInv'
  <2>. SUFFICES ASSUME orderly', goal'.cycle = "memory"
                PROVE  /\ 8 \in addressRegister'
                       /\ \/ maskRegister' = 0..31
                          \/ /\ addressRegister' = Csu!GoalAddress'
                             /\ (Hardware \cap Csu!GoalMask)' \subseteq maskRegister'
    BY DEF StaysInv
  <2>1. goal' = goal /\ goal.cycle = "memory" /\ orderly
    BY <1>1 DEF Csu!Programs
  <2>2. /\ Csu!GoalAddress' = Csu!GoalAddress
        /\ (Hardware \cap Csu!GoalMask)' = Hardware \cap Csu!GoalMask
    BY <2>1 DEF Csu!GoalAddress, Csu!GoalMask, Csu!Shift, Csu!Bits, Hardware, Csu!MemoryCycle, Csu!Enable
  <2>3. 8 \in Csu!GoalAddress /\ Csu!GoalAddress \subseteq 0..31
    <3>1. Csu!GoalAddress = Csu!Bits(goal.base) \cup {8}
      BY <2>1 DEF Csu!GoalAddress, Csu!Shift, Csu!MemoryCycle
    <3>. QED
      BY <3>1, BitsAre, SMT
  <2>4. 8 \in addressRegister /\ addressRegister \subseteq 0..31 /\ maskRegister \subseteq 0..31
    BY <2>1 DEF StaysInv, UnitTypes
  <2>5. \/ maskRegister = 0..31
        \/ addressRegister = Csu!GoalAddress /\ Hardware \cap Csu!GoalMask \subseteq maskRegister
    BY <2>1 DEF StaysInv
  <2>6. CASE r \in {"AddressLowWord", "AddressHighWord"}
    <3>. DEFINE after == Csu!With(addressRegister, r, Csu!Half(Csu!GoalAddress, r))
    <3>1. addressRegister' = after /\ maskRegister' = maskRegister
      BY <1>1, <2>6 DEF Csu!Programs, Csu!iowrite16
    <3>2. /\ after \subseteq 0..31
          /\ \A b \in 0..31 : b \in after
                <=> IF r \in Csu!Low <=> b < 16 THEN b \in Csu!GoalAddress ELSE b \in addressRegister
      BY <2>4, HalfWritten
    <3>. HIDE DEF after
    <3>3. 8 \in 0..31
      BY SMT
    <3>4. 8 \in after
      BY <2>3, <2>4, <3>2, <3>3
    <3>5. addressRegister = Csu!GoalAddress => after = Csu!GoalAddress
      BY <2>3, <3>2
    <3>. QED
      BY <2>2, <2>5, <3>1, <3>4, <3>5
  <2>7. CASE r \notin {"AddressLowWord", "AddressHighWord"}
    <3>. DEFINE after == Csu!With(maskRegister, r, Csu!Half(Csu!GoalMask, r))
    <3>1. maskRegister' = after /\ addressRegister' = addressRegister /\ addressRegister = Csu!GoalAddress
      BY <1>1, <2>7 DEF Csu!Programs, Csu!iowrite16
    <3>2. \A b \in 0..31 : b \in after
                <=> IF r \in Csu!Low <=> b < 16 THEN b \in Csu!GoalMask ELSE b \in maskRegister
      BY <2>4, HalfWritten
    <3>. HIDE DEF after
    <3>3. \A b \in Hardware : b \in 0..31
      BY SMT DEF Hardware
    <3>4. Hardware \cap Csu!GoalMask \subseteq maskRegister
      BY <2>5, <3>3
    <3>5. Hardware \cap Csu!GoalMask \subseteq after
      BY <3>2, <3>3, <3>4
    <3>. QED
      BY <2>2, <2>4, <3>1, <3>5
  <2>. QED
    BY <2>6, <2>7
<1>2. ASSUME NEW r \in Csu!Words, Csu!Scrambles(r)
      PROVE  StaysInv'
  BY <1>2 DEF Csu!Scrambles, StaysInv
<1>3. CASE Csu!Turns
  BY <1>3 DEF Csu!Turns, StaysInv
<1>4. CASE UNCHANGED unit
  <2>1. UNCHANGED <<addressRegister, maskRegister, goal, orderly>>
    BY <1>4 DEF unit
  <2>2. /\ Csu!GoalAddress' = Csu!GoalAddress
        /\ (Hardware \cap Csu!GoalMask)' = Hardware \cap Csu!GoalMask
    BY <2>1 DEF Csu!GoalAddress, Csu!GoalMask, Csu!Shift, Csu!Bits, Hardware, Csu!MemoryCycle, Csu!Enable
  <2>. QED
    BY <2>1, <2>2 DEF StaysInv
<1>. QED
  BY <1>1, <1>2, <1>3, <1>4, UnitSteps DEF Csu!Next

\* A unit that the guest moves in order selects the new window at every moment.
THEOREM StaysSelectedCorrect == Spec => []StaysSelected
<1>1. Init => StaysInv
  <2>1. Init => Csu!Init
    BY PTL DEF Init
  <2>2. 8 \in (0..31) \ {4, 7}
    BY SMT
  <2>. QED
    BY <2>1, <2>2 DEF Csu!Init, StaysInv
<1>2. UnitTypes /\ StaysInv /\ [Next]_vars => StaysInv'
  BY StaysStep
<1>3. ASSUME UnitTypes, StaysInv PROVE Csu!StaysSelected
  <2>. SUFFICES ASSUME orderly, goal.cycle = "memory",
                       NEW a \in Addresses, Csu!InWindow(a % 2^26)
                PROVE  Csu!selectsMemoryAddress(a)
    BY DEF Csu!StaysSelected
  <2>1. a \in Nat
    <3>1. Addresses \subseteq Nat
      BY InputsAssumption, PTL
    <3>. QED
      BY <3>1
  <2>2. PICK k \in 11..26 : goal.size = 2^k /\ goal.base % 2^k = 0 /\ goal.base + 2^k <= 2^26
    BY <1>3, GoalIs
  <2>3. \A i \in {j \in Hardware : ~(j < k)} : Bit(a, i) <=> Bit(goal.base, i)
    BY <1>3, <2>1, <2>2, InMemory
  <2>4. 8 \in addressRegister
    BY <1>3 DEF StaysInv
  <2>5. Csu!Bits(a) \cap Csu!mask = addressRegister \cap Csu!mask
    <3>1. Csu!mask = Hardware \ maskRegister
      BY DEF Csu!mask, Csu!HardwareMask, Hardware
    <3>2. \A i \in Hardware : i \in 0..29 /\ i \in 0..31
      BY SMT DEF Hardware
    <3>3. CASE maskRegister = 0..31
      BY <3>1, <3>2, <3>3
    <3>4. CASE addressRegister = Csu!GoalAddress /\ Hardware \cap Csu!GoalMask \subseteq maskRegister
      <4>1. /\ Hardware \cap Csu!GoalMask = {i \in Hardware : i < k}
            /\ Hardware \cap Csu!GoalAddress = {i \in Hardware : Bit(goal.base, i)}
        BY <1>3, <2>2, MaskIs
      <4>2. ASSUME NEW i \in Csu!mask
            PROVE  i \in Csu!Bits(a) <=> i \in addressRegister
        <5>1. i \in Hardware /\ ~(i < k)
          BY <3>1, <3>4, <4>1
        <5>2. i \in addressRegister <=> Bit(goal.base, i)
          BY <3>4, <4>1, <5>1
        <5>3. i \in Csu!Bits(a) <=> Bit(a, i)
          BY <3>2, <5>1, BitsAre
        <5>. QED
          BY <2>3, <5>1, <5>2, <5>3
      <4>. QED
        BY <4>2
    <3>. QED
      BY <1>3, <3>3, <3>4 DEF StaysInv
  <2>. QED
    BY <2>4, <2>5 DEF Csu!selectsMemoryAddress, Csu!MemoryCycle
<1>4. Csu!StaysSelected => StaysSelected
  BY DEF StaysSelected
<1>. QED
  BY <1>1, <1>2, <1>3, <1>4, UnitTypesCorrect, PTL DEF Spec

\* The bits of a window of ports, which are ten higher in the registers.
LEMMA PortBitsAre ==
    ASSUME UnitTypes, goal.cycle = "io",
           NEW k \in 1..16, goal.size = 2^k
    PROVE  /\ Csu!PortBits(Hardware \ Csu!GoalMask) = {i \in 1..15 : ~(i < k)}
           /\ Csu!PortBits(Csu!GoalAddress) = {i \in 1..15 : Bit(goal.base, i)}
           /\ 8 \notin Csu!GoalAddress
<1>0. /\ \A b \in Hardware : b - 10 \in 1..15 /\ (b - 10) + 10 = b /\ b # 0
      /\ \A i \in 1..15 : i + 10 \in Hardware /\ (i + 10) - 10 = i /\ i \in 0..29
      /\ \A i \in 0..29 : i + 10 # 8 /\ (i + 10) - 10 = i
  BY SMT DEF Hardware
<1>1. ASSUME NEW set
      PROVE  Csu!PortBits(set) = {i \in 1..15 : i + 10 \in set}
  <2>1. Csu!PortBits(set) = {b - 10 : b \in set \cap Hardware}
    BY DEF Csu!PortBits, Csu!HardwareMask, Hardware
  <2>2. ASSUME NEW i \in Csu!PortBits(set) PROVE i \in 1..15 /\ i + 10 \in set
    BY <1>0, <2>1
  <2>3. ASSUME NEW i \in 1..15, i + 10 \in set PROVE i \in Csu!PortBits(set)
    BY <1>0, <2>1, <2>3
  <2>. QED
    BY <2>2, <2>3
<1>2. ASSUME NEW x, NEW i \in 1..15
      PROVE  i + 10 \in {b + 10 : b \in Csu!Bits(x)} <=> Bit(x, i)
  <2>1. ASSUME NEW b \in Csu!Bits(x), i + 10 = b + 10
        PROVE  b = i
    BY <1>0, <2>1, BitsAre
  <2>. QED
    BY <1>0, <2>1, BitsAre
<1>3. goal.cycle # "memory"
  OBVIOUS
<1>4. Csu!GoalMask = {b + 10 : b \in Csu!Bits(goal.size - 1)} \cup {0}
  BY <1>3 DEF Csu!GoalMask, Csu!Shift, Csu!Enable
<1>5. Csu!GoalAddress = {b + 10 : b \in Csu!Bits(goal.base)}
  BY <1>3 DEF Csu!GoalAddress, Csu!Shift
<1>6. ASSUME NEW i \in 1..15
      PROVE  i + 10 \in Csu!GoalMask <=> i < k
  <2>1. k \in 0..30
    BY SMT
  <2>2. Bit(goal.size - 1, i) <=> i < k
    BY <1>0, <2>1, Ones
  <2>3. i + 10 # 0
    BY <1>0
  <2>. QED
    BY <1>2, <1>4, <2>2, <2>3
<1>7. \A i \in 1..15 : i + 10 \in Csu!GoalAddress <=> Bit(goal.base, i)
  BY <1>2, <1>5
<1>8. 8 \notin Csu!GoalAddress
  BY <1>0, <1>5, BitsAre
<1>9. Csu!PortBits(Hardware \ Csu!GoalMask) = {i \in 1..15 : ~(i < k)}
  BY <1>0, <1>1, <1>6
<1>. QED
  BY <1>1, <1>7, <1>8, <1>9

\* A unit programmed for memory.
LEMMA SelectsMemory ==
    ASSUME UnitTypes, goal.cycle = "memory", Csu!Programmed, NEW a \in Nat
    PROVE  /\ Csu!selectsMemoryAddress(a) <=> Csu!InWindow(a % 2^26)
           /\ \A port : ~Csu!selectsIOAddress(port)
<1>1. PICK k \in 11..26 : goal.size = 2^k /\ goal.base % 2^k = 0 /\ goal.base + 2^k <= 2^26
  BY GoalIs
<1>2. addressRegister = Csu!GoalAddress /\ maskRegister = Csu!GoalMask
  BY DEF Csu!Programmed
<1>3. /\ Hardware \cap Csu!GoalMask = {i \in Hardware : i < k}
      /\ Hardware \cap Csu!GoalAddress = {i \in Hardware : Bit(goal.base, i)}
      /\ 8 \in Csu!GoalAddress
  BY <1>1, MaskIs
<1>4. Csu!mask = {i \in Hardware : ~(i < k)}
  <2>1. Csu!mask = Hardware \ maskRegister
    BY DEF Csu!mask, Csu!HardwareMask, Hardware
  <2>. QED
    BY <1>2, <1>3, <2>1
<1>5. \A i \in Csu!mask : /\ i \in Csu!Bits(a) <=> Bit(a, i)
                          /\ i \in addressRegister <=> Bit(goal.base, i)
  <2>1. \A i \in Hardware : i \in 0..29
    BY SMT DEF Hardware
  <2>. QED
    BY <1>2, <1>3, <1>4, <2>1, BitsAre
<1>6. Csu!Bits(a) \cap Csu!mask = addressRegister \cap Csu!mask
         <=> \A i \in Csu!mask : Bit(a, i) <=> Bit(goal.base, i)
  BY <1>5
<1>7. Csu!InWindow(a % 2^26) <=> \A i \in Csu!mask : Bit(a, i) <=> Bit(goal.base, i)
  BY <1>1, <1>4, InMemory
<1>. QED
  BY <1>2, <1>3, <1>6, <1>7 DEF Csu!selectsMemoryAddress, Csu!selectsIOAddress, Csu!MemoryCycle

\* A unit programmed for ports.
LEMMA SelectsPorts ==
    ASSUME UnitTypes, goal.cycle = "io", Csu!Programmed, NEW a \in Nat
    PROVE  /\ Csu!selectsIOAddress(a % 2^16) <=> Csu!InWindow(a % 2^16)
           /\ ~Csu!selectsMemoryAddress(a)
<1>1. PICK k \in 1..16 : goal.size = 2^k /\ goal.base % 2^k = 0 /\ goal.base + 2^k <= 2^16
  BY GoalIs
<1>2. addressRegister = Csu!GoalAddress /\ maskRegister = Csu!GoalMask /\ goal.base \in Nat
  BY GoalIs DEF Csu!Programmed
<1>. DEFINE compared == {i \in 1..15 : ~(i < k)}
            port == a % 2^16
<1>3. /\ Csu!PortBits(Csu!mask) = compared
      /\ Csu!PortBits(addressRegister) = {i \in 1..15 : Bit(goal.base, i)}
      /\ 8 \notin addressRegister
  <2>1. Csu!mask = Hardware \ Csu!GoalMask
    BY <1>2 DEF Csu!mask, Csu!HardwareMask, Hardware
  <2>. QED
    BY <1>1, <1>2, <2>1, PortBitsAre
<1>4. 16 \in 0..30 /\ k \in 0..16 /\ 16 - 1 = 15
  BY SMT
<1>5. ASSUME NEW i \in compared
      PROVE  /\ i \in Csu!Bits(port) <=> Bit(a, i)
             /\ i \in Csu!PortBits(addressRegister) <=> Bit(goal.base, i)
  <2>1. i \in 0..29 /\ i < 16 /\ i \in 1..15
    BY SMT
  <2>2. Bit(port, i) <=> Bit(a, i)
    BY <1>4, <2>1, LowBits
  <2>. QED
    BY <1>3, <2>1, <2>2, BitsAre
<1>6. Csu!Bits(port) \cap compared = Csu!PortBits(addressRegister) \cap compared
         <=> \A i \in compared : Bit(a, i) <=> Bit(goal.base, i)
  BY <1>5
<1>7. \A i : i \in compared <=> i \in k..15
  BY SMT
<1>8. Csu!InWindow(port) <=> \A i \in compared : Bit(a, i) <=> Bit(goal.base, i)
  <2>1. port \in goal.base..(goal.base + 2^k - 1)
           <=> \A i \in k..15 : Bit(a, i) <=> Bit(goal.base, i)
    <3>. DEFINE n == 16
    <3>1. n \in 0..30 /\ k \in 0..n /\ n - 1 = 15 /\ goal.base + 2^k <= 2^n /\ port = a % 2^n
      BY <1>1, <1>4
    <3>. HIDE DEF n, port
    <3>2. a % 2^n \in goal.base..(goal.base + 2^k - 1)
             <=> \A i \in k..(n - 1) : Bit(a, i) <=> Bit(goal.base, i)
      BY <1>1, <1>2, <3>1, InBlock
    <3>. QED
      BY <3>1, <3>2
  <2>2. Csu!InWindow(port) <=> port \in goal.base..(goal.base + 2^k - 1)
    BY <1>1 DEF Csu!InWindow
  <2>. HIDE DEF compared, port
  <2>. QED
    BY <1>7, <2>1, <2>2, Zenon
<1>9. Csu!selectsIOAddress(port) <=>
         Csu!Bits(port) \cap Csu!PortBits(Csu!mask) = Csu!PortBits(addressRegister) \cap Csu!PortBits(Csu!mask)
  BY <1>3 DEF Csu!selectsIOAddress, Csu!MemoryCycle
<1>10. ~Csu!selectsMemoryAddress(a)
  BY <1>3 DEF Csu!selectsMemoryAddress, Csu!MemoryCycle
<1>. HIDE DEF compared, port
<1>11. Csu!selectsIOAddress(port) <=> Csu!InWindow(port)
  BY <1>3, <1>6, <1>8, <1>9
<1>. QED
  BY <1>10, <1>11 DEF port

\* A programmed unit selects exactly its window.
THEOREM WindowIsExactCorrect == Spec => []WindowIsExact
<1>1. ASSUME UnitTypes PROVE Csu!WindowIsExact
  <2>. SUFFICES ASSUME Csu!Programmed, NEW a \in Addresses
                PROVE  /\ goal.cycle = "memory" =>
                              /\ Csu!selectsMemoryAddress(a) = Csu!InWindow(a % 2^26)
                              /\ ~Csu!selectsIOAddress(a % 2^16)
                       /\ goal.cycle = "io" =>
                              /\ Csu!selectsIOAddress(a % 2^16) = Csu!InWindow(a % 2^16)
                              /\ ~Csu!selectsMemoryAddress(a)
    BY DEF Csu!WindowIsExact
  <2>1. a \in Nat
    <3>1. Addresses \subseteq Nat
      BY InputsAssumption, PTL
    <3>. QED
      BY <3>1
  <2>2. /\ Csu!selectsMemoryAddress(a) \in BOOLEAN
        /\ Csu!selectsIOAddress(a % 2^16) \in BOOLEAN
        /\ Csu!InWindow(a % 2^26) \in BOOLEAN /\ Csu!InWindow(a % 2^16) \in BOOLEAN
    BY DEF Csu!selectsMemoryAddress, Csu!selectsIOAddress, Csu!InWindow
  <2>. QED
    BY <1>1, <2>1, <2>2, SelectsMemory, SelectsPorts
<1>2. Csu!WindowIsExact => WindowIsExact
  BY DEF WindowIsExact
<1>. QED
  BY <1>1, <1>2, UnitTypesCorrect, PTL

-----------------------------------------------------------------------------
(* The memory behind it. *)

\* The highest bit of a number.
LEMMA HighestIs ==
    ASSUME NEW n \in Nat, n > 0, n <= 2^26
    PROVE  /\ Csu!Highest(n) \in 0..26 /\ Bit(n, Csu!Highest(n))
           /\ \A j \in 0..29 : Bit(n, j) => j <= Csu!Highest(n)
<1>1. n < 2^27 /\ n < 2^30
  BY SMT
<1>2. n \div 2^27 = 0 /\ n \div 2^30 = 0
  BY <1>1, SMT
<1>3. 30 \in 0..30 /\ \A i \in 0..29 : i < 30
  BY SMT
<1>5. \E i \in 0..29 : Bit(n, i)
  <2>. DEFINE top == 30
  <2>1. n \div 2^top = 0 /\ top \in 0..30 /\ n # 0 /\ \A i \in 0..29 : i < top
    BY <1>2, <1>3
  <2>. HIDE DEF top
  <2>. QED
    BY <2>1, NoBitsBelow
<1>6. \A i \in 0..29 : Bit(n, i) => i \in 0..26
  <2>. DEFINE k == 27
  <2>1. k \in 0..30 /\ n \div 2^k = 0 /\ \A i \in 0..29 : k <= i \/ i \in 0..26
    BY <1>2, SMT
  <2>. HIDE DEF k
  <2>. QED
    BY <1>2, <2>1, NoBitsAbove
<1>. DEFINE T == {26 - i : i \in Csu!Bits(n)}
<1>7. T \subseteq Nat
  <2>1. \A i \in 0..26 : 26 - i \in Nat
    BY SMT
  <2>. QED
    BY <1>6, <2>1, BitsAre
<1>8. T # {}
  BY <1>5, BitsAre
<1>9. PICK t \in T : \A u \in T : t <= u
  <2>. HIDE DEF T
  <2>. QED
    BY <1>7, <1>8, Least
<1>10. PICK h \in Csu!Bits(n) : t = 26 - h
  BY <1>9
<1>11. ASSUME NEW j \in Csu!Bits(n)
       PROVE  j <= h
  <2>1. t <= 26 - j
    BY <1>9
  <2>2. j \in 0..26 /\ h \in 0..26
    BY <1>6, BitsAre
  <2>. QED
    BY <1>10, <2>1, <2>2, SMT
<1>12. Csu!Highest(n) \in Csu!Bits(n) /\ \A j \in Csu!Bits(n) : j <= Csu!Highest(n)
  BY <1>11 DEF Csu!Highest
<1>. QED
  BY <1>6, <1>12, BitsAre

\* A number without bits above its highest lies between that power of two and the next,
\* and is that power if and only if it has no other.
LEMMA HighestBounds ==
    ASSUME NEW n \in Nat, n > 0, n <= 2^26, NEW h, h = Csu!Highest(n)
    PROVE  /\ n < 2^(h + 1) /\ 2^h <= n
           /\ Csu!Bits(n) = {h} <=> n = 2^h
<1>1. h \in 0..26 /\ Bit(n, h) /\ \A j \in 0..29 : Bit(n, j) => j <= h
  BY HighestIs
<1>. DEFINE p == 2^h
<1>2. p \in Nat /\ p > 0 /\ 2^(h + 1) = 2 * p
  <2>1. h \in 0..29
    BY <1>1, SMT
  <2>. QED
    BY <2>1, Powers
<1>6. n \div 2^(h + 1) = 0
  <2>1. h + 1 \in 0..30 /\ \A i \in 0..29 : h + 1 <= i => ~(i <= h)
    BY <1>1, SMT
  <2>2. n \div 2^30 = 0
    BY SMT
  <2>. QED
    BY <1>1, <2>1, <2>2, NoBitsAbove
<1>. HIDE DEF p
<1>. DEFINE q == n \div p
            r == n % p
<1>7. q \in Nat /\ r \in Nat /\ r < p /\ n = p * q + r
  BY <1>2, Division
<1>8. n < 2 * p
  <2>. DEFINE m == 2 * p
  <2>1. m \in Nat /\ m > 0 /\ n \div m = 0
    BY <1>2, <1>6
  <2>. HIDE DEF m
  <2>3. n % m < m /\ n % m \in Nat /\ n = m * (n \div m) + (n % m)
    BY <2>1, Division
  <2>. QED
    BY <2>1, <2>3, SMT DEF m
<1>10. q # 0
  <2>1. q % 2 = 1
    BY <1>1 DEF Bit, p
  <2>. QED
    BY <2>1, SMT
<1>9. ASSUME Csu!Bits(n) = {h}
      PROVE  n = p
  <2>2. r = 0
    <3>1. h \in 0..30
      BY <1>1, SMT
    <3>2. r \div 2^h = 0
      <4>1. r \div p = 0
        BY <1>2, <1>7, SMT
      <4>. QED
        BY <4>1 DEF p
    <3>3. ASSUME NEW i \in 0..29, i < h
          PROVE  ~Bit(r, i)
      <4>1. i # h
        BY <1>1, <3>3, SMT
      <4>2. Bit(r, i) <=> Bit(n, i)
        BY <3>1, <3>3, LowBits DEF r, p
      <4>. QED
        BY <1>9, <4>1, <4>2, BitsAre
    <3>. HIDE DEF r
    <3>. QED
      BY <1>7, <3>1, <3>2, <3>3, NoBitsBelow
  <2>3. q = 1
    <3>1. 1 < q => p * 1 + p <= p * q
      BY <1>2, <1>7, Multiple
    <3>. QED
      BY <1>2, <1>7, <1>8, <1>10, <2>2, <3>1, SMT
  <2>. QED
    BY <1>2, <1>7, <2>2, <2>3, SMT
<1>11. p <= n
  <2>1. p * 0 + p <= p * q
    BY <1>2, <1>7, <1>10, Multiple
  <2>2. p * 0 = 0 /\ p * q \in Nat
    BY <1>2, <1>7, SMT
  <2>. QED
    BY <1>2, <1>7, <2>1, <2>2, SMT
<1>12. ASSUME n = p
       PROVE  Csu!Bits(n) = {h}
  <2>1. (p * 1 + 0) % p = 0
    BY <1>2, Remainder
  <2>2. r = 0
    BY <1>2, <1>12, <2>1
  <2>3. ASSUME NEW i \in 0..29, Bit(n, i)
        PROVE  i = h
    <3>1. CASE i < h
      <4>1. h \in 0..30
        BY <1>1, SMT
      <4>2. Bit(n % 2^h, i) <=> Bit(n, i)
        BY <3>1, <4>1, LowBits
      <4>. QED
        BY <2>2, <2>3, <4>2, ZeroIs DEF p
    <3>2. CASE ~(i < h)
      BY <1>1, <2>3, <3>2, SMT
    <3>. QED
      BY <3>1, <3>2
  <2>4. h \in 0..29
    BY <1>1, SMT
  <2>. QED
    BY <1>1, <2>3, <2>4, BitsAre
<1>. QED
  BY <1>2, <1>8, <1>9, <1>11, <1>12 DEF p

\* A length is rounded up to the least power of two that holds it.
LEMMA RoundedUp ==
    ASSUME NEW n \in Nat, n > 0, n <= 2^26
    PROVE  \E k \in 0..29 : /\ Csu!roundUpToPowerOfTwo(n) = 2^k
                            /\ n <= 2^k /\ (k = 0 \/ 2^(k - 1) < n)
<1>. DEFINE h == Csu!Highest(n)
<1>1. h \in 0..26
  BY HighestIs
<1>2. n < 2^(h + 1) /\ 2^h <= n /\ (Csu!Bits(n) = {h} <=> n = 2^h)
  BY HighestBounds
<1>3. n # 0
  OBVIOUS
<1>4. Csu!roundUpToPowerOfTwo(n) = IF Csu!Bits(n) = {h} THEN n ELSE 2^(h + 1)
  BY <1>3 DEF Csu!roundUpToPowerOfTwo
<1>. HIDE DEF h
<1>5. h \in 0..29 /\ h + 1 \in 0..29 /\ (h + 1) - 1 = h
  BY <1>1, SMT
<1>6. CASE Csu!Bits(n) = {h}
  <2>1. n = 2^h /\ n <= 2^h
    BY <1>2, <1>6, SMT
  <2>2. CASE h # 0
    <3>. DEFINE p == 2^(h - 1)
    <3>1. h - 1 \in 0..29 /\ (h - 1) + 1 = h
      BY <1>5, <2>2, SMT
    <3>2. p \in Nat /\ p > 0 /\ n = 2 * p
      BY <2>1, <3>1, Powers
    <3>. HIDE DEF p
    <3>3. p < n
      BY <3>2, SMT
    <3>. QED
      BY <1>4, <1>5, <1>6, <2>1, <3>3 DEF p
  <2>. QED
    BY <1>4, <1>5, <1>6, <2>1, <2>2
<1>7. CASE Csu!Bits(n) # {h}
  <2>. DEFINE m == 2^(h + 1)
              p == 2^h
  <2>1. m \in Nat /\ p \in Nat /\ n < m /\ p <= n /\ n # p
    <3>1. h + 1 \in 0..30 /\ h \in 0..30
      BY <1>1, SMT
    <3>. QED
      BY <1>2, <1>7, <3>1, PowerIs
  <2>. HIDE DEF m, p
  <2>2. n <= m /\ p < n
    BY <2>1, SMT
  <2>3. 2^((h + 1) - 1) < n
    BY <1>5, <2>2 DEF p
  <2>4. Csu!roundUpToPowerOfTwo(n) = 2^(h + 1) /\ n <= 2^(h + 1)
    BY <1>4, <1>7, <2>2 DEF m
  <2>. DEFINE k == h + 1
  <2>5. k \in 0..29 /\ Csu!roundUpToPowerOfTwo(n) = 2^k /\ n <= 2^k /\ 2^(k - 1) < n
    BY <1>5, <2>3, <2>4
  <2>. HIDE DEF k
  <2>. QED
    BY <2>5
<1>. QED
  BY <1>6, <1>7

\* Quotients add up.
LEMMA Aligned ==
    ASSUME NEW p \in Nat, NEW u \in Nat, NEW q \in Nat, NEW v \in Nat, NEW e \in Nat, NEW f \in Nat
    PROVE  /\ u * q + (v + e) \in Nat
           /\ (p * u) * q + (p * v + (p * e + f)) = p * (u * q + (v + e)) + f
<1>1. u * q \in Nat
  BY Product
<1>2. (p * u) * q = p * (u * q) /\ p * (u * q + (v + e)) = p * (u * q) + (p * v + p * e)
  BY <1>1, SMT
<1>3. p * (u * q) \in Nat /\ p * v \in Nat /\ p * e \in Nat
  BY <1>1, Product
<1>. QED
  BY <1>1, <1>2, <1>3, SMT

\* Within a window that is no smaller than a power of two, that power divides its base.
LEMMA WindowOffset ==
    ASSUME UnitTypes, goal.cycle = "memory", NEW a \in Nat, Csu!InWindow(a % 2^26),
           NEW k \in 0..29, 2^k <= goal.size
    PROVE  ((a % 2^26) - goal.base) % 2^k = a % 2^k
<1>1. PICK s \in 11..26 : goal.size = 2^s /\ goal.base % 2^s = 0
  BY GoalIs
<1>2. goal.base \in Nat
  BY GoalIs
<1>3. s \in 0..30 /\ s \in 0..29 /\ k \in 0..30
  BY SMT
<1>. DEFINE p == 2^k
            z == 2^s
<1>4. p \in Nat /\ p > 0 /\ z \in Nat /\ z > 0 /\ p <= z
  BY <1>1, <1>3, PowerIs
<1>5. k \in 0..s
  <2>1. CASE s < k
    <3>1. s + 1 \in 0..k
      BY <2>1, SMT
    <3>2. PICK t \in Nat : t > 0 /\ 2^k = 2^(s + 1) * t
      BY <1>3, <3>1, Multiples
    <3>3. p = (2 * z) * t
      BY <1>3, <3>2, Powers
    <3>. HIDE DEF p, z
    <3>4. (2 * z) * 0 + 2 * z <= (2 * z) * t
      <4>1. 2 * z \in Nat /\ 0 < t
        BY <1>4, <3>2, SMT
      <4>. QED
        BY <4>1, Multiple
    <3>5. (2 * z) * 0 = 0
      BY <1>4, SMT
    <3>. QED
      BY <1>4, <3>3, <3>4, <3>5, SMT
  <2>. QED
    BY <2>1, SMT
<1>6. PICK t \in Nat : t > 0 /\ z = p * t
  BY <1>3, <1>5, Multiples
<1>. DEFINE m == 2^26
<1>7. PICK w \in Nat : w > 0 /\ m = z * w
  <2>. DEFINE n == 26
  <2>1. n \in 0..30 /\ s \in 0..n
    BY SMT
  <2>. HIDE DEF n
  <2>2. \E w \in Nat : w > 0 /\ 2^n = 2^s * w
    BY <2>1, Multiples
  <2>. QED
    BY <2>2 DEF n
<1>8. m \in Nat /\ m > 0
  BY SMT
<1>. DEFINE x == a % m
            q == a \div m
            b == goal.base \div z
            y == x - goal.base
<1>9. goal.base % z = 0
  BY <1>1
<1>10. y \in Nat
  <2>1. x \in goal.base..(goal.base + goal.size - 1)
    BY DEF Csu!InWindow
  <2>2. x \in Nat
    BY <1>8, Division
  <2>3. goal.size \in Nat
    BY <1>1, <1>4
  <2>. HIDE DEF x
  <2>. QED
    BY <1>2, <2>1, <2>2, <2>3, SMT
<1>. HIDE DEF p, z, m
<1>11. x \in Nat /\ q \in Nat /\ a = m * q + x
  BY <1>8, Division
<1>12. b \in Nat /\ goal.base = z * b
  <2>1. b \in Nat /\ goal.base = z * b + (goal.base % z)
    BY <1>2, <1>4, Division
  <2>2. z * b \in Nat
    BY <1>4, <2>1, Product
  <2>. HIDE DEF b
  <2>. QED
    BY <1>9, <2>1, <2>2, SMT
<1>. HIDE DEF q, b
<1>13. t * w \in Nat /\ t * b \in Nat
  BY <1>6, <1>7, <1>12, Product
<1>14. m = p * (t * w) /\ goal.base = p * (t * b)
  BY <1>4, <1>6, <1>7, <1>12, SMT
<1>15. x = goal.base + y
  BY <1>2, <1>11, SMT
<1>. HIDE DEF x, y
<1>16. a = (p * (t * w)) * q + (p * (t * b) + y)
  BY <1>11, <1>14, <1>15
<1>. DEFINE u == t * w
            v == t * b
            e == y \div p
            f == y % p
            n == u * q + (v + e)
<1>17. e \in Nat /\ f \in Nat /\ f < p /\ y = p * e + f
  BY <1>4, <1>10, Division
<1>18. u \in Nat /\ v \in Nat /\ a = (p * u) * q + (p * v + y)
  BY <1>13, <1>16
<1>. HIDE DEF u, v, e, f
<1>19. /\ n \in Nat
       /\ (p * u) * q + (p * v + (p * e + f)) = p * n + f
  BY <1>4, <1>11, <1>17, <1>18, Aligned
<1>20. a = p * n + f
  BY <1>17, <1>18, <1>19
<1>. HIDE DEF n
<1>21. a % p = f
  BY <1>4, <1>17, <1>19, <1>20, Remainder
<1>. QED
  BY <1>21 DEF f, y, x, m, p

\* The length of a memory.
LEMMA LengthIs == ASSUME UnitTypes PROVE device.length \in Nat /\ device.length <= 2^26
<1>. DEFINE length == device.length
            top == 2^26
<1>1. top \in Nat
  BY SMT
<1>2. length \in 0..top
  <2>1. \A m \in Memories : m.length \in 0..2^26
    BY InputsAssumption, PTL
  <2>. QED
    BY <2>1 DEF UnitTypes
<1>. HIDE DEF length, top
<1>3. length \in Nat /\ length <= top
  BY <1>1, <1>2, SMT
<1>. QED
  BY <1>3 DEF length, top

\* Where a memory of a length shows an address, with the power of two that holds it.
LEMMA MappedTo ==
    ASSUME UnitTypes, NEW a \in Nat, NEW k \in 0..29,
           device.length = 0 \/ Csu!roundUpToPowerOfTwo(device.length) = 2^k
    PROVE  /\ a % 2^k \in Nat
           /\ Csu!MemoryMap(a, FALSE) = IF a % 2^k < device.length THEN {a % 2^k} ELSE {}
           /\ Csu!MemoryMap(a, TRUE) = IF device.kind = "ROM" THEN {} ELSE Csu!MemoryMap(a, FALSE)
<1>. DEFINE length == device.length
            offset == a % 2^k
<1>1. length \in Nat
  BY LengthIs
<1>2. offset \in Nat
  <2>1. k \in 0..30
    BY SMT
  <2>2. 2^k \in Nat /\ 2^k > 0
    BY <2>1, PowerIs
  <2>. DEFINE p == 2^k
  <2>3. p \in Nat /\ p > 0
    BY <2>2
  <2>. HIDE DEF p
  <2>4. a % p \in Nat
    BY <2>3, Division
  <2>. QED
    BY <2>4 DEF p
<1>3. CASE length = 0
  <2>1. a >= length /\ ~(offset < length)
    <3>. HIDE DEF length, offset
    <3>. QED
      BY <1>1, <1>2, <1>3, SMT
  <2>2. \A write \in BOOLEAN : Csu!MemoryMap(a, write) = {}
    BY <1>3, <2>1 DEF Csu!MemoryMap
  <2>. QED
    BY <1>2, <2>1, <2>2
<1>4. CASE length # 0
  <2>1. \A write \in BOOLEAN :
           Csu!MemoryMap(a, write) = IF offset >= length \/ (write /\ device.kind = "ROM")
                                     THEN {} ELSE {offset}
    BY <1>4 DEF Csu!MemoryMap
  <2>2. offset >= length <=> ~(offset < length)
    <3>. HIDE DEF length, offset
    <3>. QED
      BY <1>1, <1>2, SMT
  <2>. QED
    BY <1>2, <2>1, <2>2
<1>. QED
  BY <1>3, <1>4

\* A memory is repeated whole throughout its window, every least power of two that holds
\* it, where its decoder selects it, and nothing else is mapped.
THEOREM MemoryIsRepeatedCorrect == Spec => []MemoryIsRepeated
<1>1. ASSUME UnitTypes, Csu!Programmed, goal.cycle = "memory",
             NEW k \in 0..29, 2^k <= goal.size, NEW a \in Nat,
             device.length = 0 \/ Csu!roundUpToPowerOfTwo(device.length) = 2^k
      PROVE  LET offset == ((a % 2^26) - goal.base) % 2^k
             IN  /\ Csu!UnitMap(a, FALSE) = IF /\ Csu!InWindow(a % 2^26) /\ Csu!DecoderSelects(a)
                                                /\ offset < device.length
                                             THEN {offset} ELSE {}
                 /\ Csu!UnitMap(a, TRUE) = IF device.kind = "ROM" THEN {} ELSE Csu!UnitMap(a, FALSE)
  <2>. DEFINE offset == ((a % 2^26) - goal.base) % 2^k
  <2>1. Csu!selectsMemoryAddress(a) <=> Csu!InWindow(a % 2^26)
    BY <1>1, SelectsMemory
  <2>2. Csu!InWindow(a % 2^26) => offset = a % 2^k
    BY <1>1, WindowOffset
  <2>3. /\ Csu!MemoryMap(a, FALSE) = IF a % 2^k < device.length THEN {a % 2^k} ELSE {}
        /\ Csu!MemoryMap(a, TRUE) = IF device.kind = "ROM" THEN {} ELSE Csu!MemoryMap(a, FALSE)
    BY <1>1, MappedTo
  <2>. HIDE DEF offset
  <2>4. Csu!UnitMap(a, FALSE) = IF /\ Csu!InWindow(a % 2^26) /\ Csu!DecoderSelects(a)
                                   /\ offset < device.length
                                THEN {offset} ELSE {}
    BY <2>1, <2>2, <2>3 DEF Csu!UnitMap, Csu!DecoderMap
  <2>5. Csu!UnitMap(a, TRUE) = IF device.kind = "ROM" THEN {} ELSE Csu!UnitMap(a, FALSE)
    BY <2>3 DEF Csu!UnitMap, Csu!DecoderMap
  <2>. QED
    BY <2>4, <2>5 DEF offset
<1>2. ASSUME UnitTypes
      PROVE  \E k \in 0..29 :
                /\ device.length = 0 \/ Csu!roundUpToPowerOfTwo(device.length) = 2^k
                /\ device.length <= 2^k /\ (k = 0 \/ 2^(k - 1) < device.length)
  <2>1. device.length \in Nat /\ device.length <= 2^26
    BY <1>2, LengthIs
  <2>2. CASE device.length = 0
    <3>1. 0 \in 0..29 /\ 0 <= 2^0
      BY SMT
    <3>. QED
      BY <2>2, <3>1
  <2>3. CASE device.length # 0
    <3>1. device.length > 0
      BY <2>1, <2>3
    <3>. QED
      BY <2>1, <3>1, RoundedUp
  <2>. QED
    BY <2>2, <2>3
<1>3. ASSUME UnitTypes PROVE Csu!MemoryIsRepeated
  <2>. SUFFICES ASSUME Csu!Programmed, goal.cycle = "memory" PROVE Csu!MemoryIsRepeated
    BY DEF Csu!MemoryIsRepeated
  <2>1. PICK k \in 0..29 :
           /\ device.length = 0 \/ Csu!roundUpToPowerOfTwo(device.length) = 2^k
           /\ device.length <= 2^k /\ (k = 0 \/ 2^(k - 1) < device.length)
    BY <1>2, <1>3
  <2>2. Addresses \subseteq Nat
    BY InputsAssumption, PTL
  <2>. QED
    BY <1>1, <1>3, <2>1, <2>2, Zenon DEF Csu!MemoryIsRepeated
<1>4. Csu!MemoryIsRepeated => MemoryIsRepeated
  BY DEF MemoryIsRepeated
<1>. QED
  BY <1>3, <1>4, UnitTypesCorrect, PTL

=============================================================================
