--------------------------- MODULE Machine_proof ---------------------------
(***************************************************************************)
(* Proofs about Machine, for every set of builds: the order in which its   *)
(* threads stop, what its memory slots map while the guest runs, and that  *)
(* no call to KVM asks for what it must refuse.                            *)
(***************************************************************************)
EXTENDS Machine, TLAPS

\* The strengthening for the order of stopping: the notice that the CPU thread is
\* leaving is only ever sent by a thread that has nothing left to do but to end, and
\* the thread starts with the loop.
StopInv == /\ shutdown => cpu \in {"ending", "done"}
           /\ main = "join" => cpu \in {"ending", "done"}
           /\ main = "exit" => cpu \in {"none", "done"}
           /\ main \in {"open", "slots", "devices"} => cpu = "none"

LEMMA StopStep == StopInv /\ [Next]_vars => StopInv'
<1>. SUFFICES ASSUME StopInv, [Next]_vars PROVE StopInv'
  OBVIOUS
<1>. USE DEF StopInv
<1>1. CASE SetUp
  BY <1>1 DEF SetUp, Opens, MapsSlot, CreatesProcessor, CreatesDevices, SigintKills, SetsUp
<1>2. CASE TestsExit \/ RunFails \/ SigintArrives
  BY <1>2 DEF TestsExit, RunFails, SigintArrives, Cpu, Alive
<1>3. CASE GuestLeaves
  BY <1>3 DEF GuestLeaves, ExitToDevice, ExitThrows, ExitUnhandled, WritesA20Gate,
              WritesDiskRegister, Cpu, Alive
<1>4. CASE Remaps
  BY <1>4 DEF Remaps, A20IsCurrent, FreesSlot3, MapsSlot3, FreesSlot7, UnmapsPage, MapsPage,
              MapsSlot7, Calls, Sets, Alive
<1>5. CASE Leaves \/ Ends
  BY <1>5 DEF Leaves, Ends, Cpu, Alive
<1>6. CASE MainWork
  BY <1>6 DEF MainWork, SigintHandler, ShutdownHandler, Joins, Main, Alive
<1>7. CASE UNCHANGED vars
  BY <1>7 DEF vars, threads
<1>. QED
  BY <1>1, <1>2, <1>3, <1>4, <1>5, <1>6, <1>7 DEF Next, CpuWork

\* The loop never stops under a CPU thread that may still call its devices, and main
\* does not return before that thread is done.
THEOREM StopsInOrderCorrect == Spec => []StopsInOrder
<1>1. Init => StopInv
  BY DEF Init, StopInv
<1>2. StopInv => StopsInOrder
  BY DEF StopInv, StopsInOrder
<1>. QED
  BY <1>1, <1>2, StopStep, PTL DEF Spec

-----------------------------------------------------------------------------
(* The memory slots. *)

\* While main sets up, the slots before the step it is at are set, the others not.
SetUpInv ==
    /\ step \in 0..8 /\ slots \in [Slots -> Regions \cup {"none"}]
    /\ main = "devices" => step = 8
    /\ main \in {"open", "slots", "devices"} =>
          /\ cpu = "none" /\ ~updateDiskMapping
          /\ A20Enabled(a20register) /\ lastA20Register = a20register
          /\ \A s \in Slots : slots[s] = IF s < step THEN Initial(s) ELSE "none"

LEMMA RegionsAre == /\ Slots = {0, 1, 2, 3, 4, 5, 6, 7}
                    /\ \A s \in Slots : Initial(s) \in Regions \cup {"none"}
                    /\ \A r : A20Region(r) \in Regions \cup {"none"}
                    /\ {"Disk", "none"} \subseteq Regions \cup {"none"}
  BY DEF Slots, Initial, Regions, Base, A20Region

LEMMA SetUpInit == Init => SetUpInv
<1>1. 2 \div 2 = 1 /\ 1 % 2 = 1
  OBVIOUS
<1>. QED
  BY <1>1, RegionsAre DEF Init, SetUpInv, A20Enabled

LEMMA SetUpStep == SetUpInv /\ [Next]_vars => SetUpInv'
<1>. SUFFICES ASSUME SetUpInv, [Next]_vars PROVE SetUpInv'
  OBVIOUS
<1>. USE DEF SetUpInv
<1>1. CASE Opens \/ CreatesProcessor \/ CreatesDevices \/ SigintKills
  BY <1>1 DEF Opens, CreatesProcessor, CreatesDevices, SigintKills, SetsUp, memory, Initial, Slots
<1>2. CASE MapsSlot
  BY <1>2, RegionsAre DEF MapsSlot, Initial
<1>3. CASE MainWork \/ SigintArrives
  BY <1>3 DEF MainWork, SigintHandler, ShutdownHandler, Joins, SigintArrives, Main, memory, Initial, Slots
<1>4. CASE TestsExit \/ RunFails \/ GuestLeaves \/ Leaves \/ Ends
  BY <1>4 DEF TestsExit, RunFails, GuestLeaves, ExitToDevice, ExitThrows, ExitUnhandled,
     WritesA20Gate, WritesDiskRegister, Leaves, Ends, Cpu, Keeps, memory
<1>5. CASE Remaps
  <2>1. cpu # "none" /\ main' = main /\ step' = step
    BY <1>5 DEF Remaps, A20IsCurrent, FreesSlot3, MapsSlot3, FreesSlot7, UnmapsPage, MapsPage,
       MapsSlot7, Calls
  <2>2. slots' \in [Slots -> Regions \cup {"none"}]
    <3>1. \A to : \A s \in Slots, r \in Regions \cup {"none"} :
             Sets(s, r, to) => slots' \in [Slots -> Regions \cup {"none"}]
      BY DEF Sets
    <3>2. 3 \in Slots /\ 7 \in Slots /\ "Disk" \in Regions
      BY DEF Slots, Regions, Base
    <3>. QED
      BY <1>5, <3>1, <3>2, RegionsAre DEF Remaps, A20IsCurrent, FreesSlot3, MapsSlot3, FreesSlot7,
         UnmapsPage, MapsPage, MapsSlot7
  <2>. QED
    BY <2>1, <2>2
<1>6. CASE UNCHANGED vars
  BY <1>6 DEF vars, threads, memory, Initial, Slots
<1>. QED
  BY <1>1, <1>2, <1>3, <1>4, <1>5, <1>6 DEF Next, SetUp, CpuWork

\* Slot 3 follows the register compared last, but between the two calls of a remapping,
\* or for good once one has failed: the thread has then been told to stop.
A20Done == slots[3] = A20Region(a20register) /\ ~A20Changed
GateInv ==
    /\ cpu \in {"run", "disk", "munmap", "mmap", "mapdisk"} => A20Done
    /\ cpu = "test" => requestExit \/ A20Done
    /\ cpu = "a20" => slots[3] = A20Region(lastA20Register)
    /\ cpu = "a20map" => /\ A20Changed
                         /\ slots[3] = IF high # 0 THEN "none" ELSE A20Region(lastA20Register)

LEMMA GateStep == SetUpInv /\ GateInv /\ [Next]_vars => GateInv'
<1>. SUFFICES ASSUME SetUpInv, GateInv, [Next]_vars PROVE GateInv'
  OBVIOUS
<1>. USE DEF GateInv, A20Done, A20Changed, A20Region
<1>1. CASE CreatesDevices
  BY <1>1, RegionsAre DEF CreatesDevices, SetsUp, memory, Initial, SetUpInv
<1>2. CASE Opens \/ CreatesProcessor \/ SigintKills \/ MapsSlot
  BY <1>2 DEF Opens, CreatesProcessor, SigintKills, SetsUp, MapsSlot, SetUpInv
<1>3. CASE MainWork \/ SigintArrives
  BY <1>3 DEF MainWork, SigintHandler, ShutdownHandler, Joins, SigintArrives, Main, memory
<1>4. CASE TestsExit
  BY <1>4 DEF TestsExit, Cpu, Keeps, memory
<1>5. CASE RunFails \/ ExitToDevice \/ ExitThrows \/ ExitUnhandled \/ Leaves \/ Ends
  BY <1>5 DEF RunFails, ExitToDevice, ExitThrows, ExitUnhandled, Leaves, Ends, Cpu, Keeps, memory
<1>6. CASE (\E v \in 0..3 : WritesA20Gate(v)) \/ WritesDiskRegister
  BY <1>6 DEF WritesA20Gate, WritesDiskRegister, Cpu
<1>7. CASE A20IsCurrent
  BY <1>7 DEF A20IsCurrent, Calls
<1>8. CASE FreesSlot3
  BY <1>8, RegionsAre DEF FreesSlot3, Sets, Calls, SetUpInv
<1>9. CASE MapsSlot3
  BY <1>9, RegionsAre DEF MapsSlot3, Sets, Calls, SetUpInv
<1>10. CASE FreesSlot7
  BY <1>10, RegionsAre DEF FreesSlot7, Sets, Calls, SetUpInv
<1>11. CASE UnmapsPage \/ MapsPage
  BY <1>11 DEF UnmapsPage, MapsPage, Calls
<1>12. CASE MapsSlot7
  BY <1>12, RegionsAre DEF MapsSlot7, Sets, Calls, SetUpInv
<1>13. CASE UNCHANGED vars
  BY <1>13 DEF vars, threads, memory
<1>. QED
  BY <1>1, <1>2, <1>3, <1>4, <1>5, <1>6, <1>7, <1>8, <1>9, <1>10, <1>11, <1>12, <1>13
     DEF Next, SetUp, GuestLeaves, Remaps, CpuWork

\* The memory above 1 MiB is what the gate says whenever the guest runs.
THEOREM A20MappedCorrect == Spec => []A20Mapped
<1>1. Init => GateInv
  BY DEF Init, GateInv
<1>2. GateInv => A20Mapped
  BY DEF GateInv, A20Mapped, A20Done
<1>. QED
  BY <1>1, <1>2, SetUpInit, SetUpStep, GateStep, PTL DEF Spec

\* Likewise slot 7 and the page behind it.
DiskDone == slots[7] \in {"Boot", "Disk"} /\ ~updateDiskMapping
WindowInv ==
    /\ slots[7] = "Disk" => diskData = "mapped"
    /\ cpu = "run" => DiskDone
    /\ cpu = "test" => requestExit \/ DiskDone
    /\ cpu \in {"a20", "a20map", "disk"} => slots[7] \in {"Boot", "Disk"}
    /\ cpu \in {"munmap", "mmap", "mapdisk"} => slots[7] = "none"
    /\ cpu = "mapdisk" => diskData = "mapped"

LEMMA WindowStep == SetUpInv /\ WindowInv /\ [Next]_vars => WindowInv'
<1>. SUFFICES ASSUME SetUpInv, WindowInv, [Next]_vars PROVE WindowInv'
  OBVIOUS
<1>. USE DEF WindowInv, DiskDone
<1>1. CASE CreatesDevices
  BY <1>1, RegionsAre DEF CreatesDevices, SetsUp, memory, Initial, SetUpInv
<1>2. CASE Opens \/ CreatesProcessor \/ SigintKills
  BY <1>2 DEF Opens, CreatesProcessor, SigintKills, SetsUp, SetUpInv, memory
<1>3. CASE MapsSlot
  BY <1>3, RegionsAre DEF MapsSlot, SetUpInv, Initial
<1>4. CASE MainWork \/ SigintArrives
  BY <1>4 DEF MainWork, SigintHandler, ShutdownHandler, Joins, SigintArrives, Main, memory
<1>5. CASE TestsExit
  BY <1>5 DEF TestsExit, Cpu, Keeps, memory
<1>6. CASE RunFails \/ ExitToDevice \/ ExitThrows \/ ExitUnhandled \/ Leaves \/ Ends
  BY <1>6 DEF RunFails, ExitToDevice, ExitThrows, ExitUnhandled, Leaves, Ends, Cpu, Keeps, memory
<1>7. CASE (\E v \in 0..3 : WritesA20Gate(v)) \/ WritesDiskRegister
  BY <1>7 DEF WritesA20Gate, WritesDiskRegister, Cpu
<1>8. CASE A20IsCurrent
  BY <1>8 DEF A20IsCurrent, Calls
<1>9. CASE FreesSlot3 \/ MapsSlot3
  BY <1>9, RegionsAre DEF FreesSlot3, MapsSlot3, Sets, Calls, SetUpInv
<1>10. CASE FreesSlot7
  BY <1>10, RegionsAre DEF FreesSlot7, Sets, Calls, SetUpInv
<1>11. CASE UnmapsPage \/ MapsPage
  BY <1>11 DEF UnmapsPage, MapsPage, Calls
<1>12. CASE MapsSlot7
  BY <1>12, RegionsAre DEF MapsSlot7, Sets, Calls, SetUpInv
<1>13. CASE UNCHANGED vars
  BY <1>13 DEF vars, threads, memory
<1>. QED
  BY <1>1, <1>2, <1>3, <1>4, <1>5, <1>6, <1>7, <1>8, <1>9, <1>10, <1>11, <1>12, <1>13
     DEF Next, SetUp, GuestLeaves, Remaps, CpuWork

\* The window never shows memory that is not mapped, nor a page not asked for.
THEOREM WindowMappedCorrect == Spec => []WindowMapped
<1>1. Init => WindowInv
  BY RegionsAre DEF Init, WindowInv
<1>2. WindowInv => WindowMapped
  BY DEF WindowInv, WindowMapped, DiskDone
<1>. QED
  BY <1>1, <1>2, SetUpInit, SetUpStep, WindowStep, PTL DEF Spec

\* Each slot only ever maps regions of its own, and those of different slots fit beside
\* one another in every build.
MayMap(s) == IF s = 3 THEN {"RamWrap", "HighMem"}
             ELSE IF s = 7 THEN {"Boot", "Disk"} ELSE {Initial(s)}
RegionInv == /\ high \in 0..13056
             /\ \A s \in Slots : slots[s] = "none" \/ slots[s] \in MayMap(s)

LEMMA RegionsFit ==
    high \in 0..13056 => \A s, t \in Slots : \A q \in MayMap(s), r \in MayMap(t) :
        s # t => Apart(q, r)
<1>. SUFFICES ASSUME high \in 0..13056, NEW s \in Slots, NEW t \in Slots, s # t,
                     NEW q \in MayMap(s), NEW r \in MayMap(t)
              PROVE  Apart(q, r)
  OBVIOUS
<1>. Slots = {0, 1, 2, 3, 4, 5, 6, 7} /\ high \in Nat /\ high <= 13056
  BY RegionsAre
<1>1. /\ MayMap(0) = {"Ram"} /\ MayMap(1) = {"RomDos"} /\ MayMap(2) = {"Bios"}
      /\ MayMap(3) = {"RamWrap", "HighMem"} /\ MayMap(4) = {"Flash"}
      /\ MayMap(5) = {"FlashAlias"} /\ MayMap(6) = {"OptionRom"} /\ MayMap(7) = {"Boot", "Disk"}
  BY DEF MayMap, Initial
<1>2. /\ Base["Ram"] = 0 /\ Base["OptionRom"] = 200 /\ Base["Boot"] = 201 /\ Base["Disk"] = 201
      /\ Base["RomDos"] = 224 /\ Base["Bios"] = 240 /\ Base["RamWrap"] = 256
      /\ Base["HighMem"] = 256 /\ Base["Flash"] = 13312 /\ Base["FlashAlias"] = 13440
  BY DEF Base
<1>3. /\ Pages["Ram"] = 112 /\ Pages["OptionRom"] = 1 /\ Pages["Boot"] = 1 /\ Pages["Disk"] = 1
      /\ Pages["RomDos"] = 16 /\ Pages["Bios"] = 16 /\ Pages["RamWrap"] = 16
      /\ Pages["HighMem"] = high /\ Pages["Flash"] = 128 /\ Pages["FlashAlias"] = 128
  BY DEF Pages
<1>4. \A u \in Slots : \A p \in MayMap(u) : Base[p] \in Nat /\ Pages[p] \in Nat
  <2>. SUFFICES ASSUME NEW u \in Slots, NEW p \in MayMap(u)
                PROVE  Base[p] \in Nat /\ Pages[p] \in Nat
    OBVIOUS
  <2>. QED
    BY <1>1, <1>2, <1>3
<1>. DEFINE Between(u, a, b) == \A p \in MayMap(u) : Base[p] >= a /\ Base[p] + Pages[p] <= b
<1>5. /\ Between(0, 0, 112) /\ Between(6, 200, 201) /\ Between(7, 201, 202)
      /\ Between(1, 224, 240) /\ Between(2, 240, 256)
  BY <1>1, <1>2, <1>3
<1>6. Between(3, 256, 13312) /\ Between(4, 13312, 13440) /\ Between(5, 13440, 13568)
  BY <1>1, <1>2, <1>3
<1>. DEFINE Lo(u) == CASE u = 0 -> 0 [] u = 6 -> 200 [] u = 7 -> 201 [] u = 1 -> 224
                       [] u = 2 -> 240 [] u = 3 -> 256 [] u = 4 -> 13312 [] OTHER -> 13440
            Hi(u) == CASE u = 0 -> 112 [] u = 6 -> 201 [] u = 7 -> 202 [] u = 1 -> 240
                       [] u = 2 -> 256 [] u = 3 -> 13312 [] u = 4 -> 13440 [] OTHER -> 13568
<1>. HIDE DEF Between
<1>7. \A u \in Slots : Lo(u) \in Nat /\ Hi(u) \in Nat /\ Between(u, Lo(u), Hi(u))
  BY <1>5, <1>6
<1>8. \A u, v \in Slots : u # v => Hi(u) <= Lo(v) \/ Hi(v) <= Lo(u)
  OBVIOUS
<1>. HIDE DEF Lo, Hi
<1>. USE DEF Between
<1>9. /\ Base[q] >= Lo(s) /\ Base[q] + Pages[q] <= Hi(s)
      /\ Base[r] >= Lo(t) /\ Base[r] + Pages[r] <= Hi(t)
  BY <1>7
<1>. HIDE DEF Between
<1>10. /\ Base[q] \in Nat /\ Pages[q] \in Nat /\ Base[r] \in Nat /\ Pages[r] \in Nat
       /\ Lo(s) \in Nat /\ Hi(s) \in Nat /\ Lo(t) \in Nat /\ Hi(t) \in Nat
  <2>1. Base[q] \in Nat /\ Pages[q] \in Nat
    BY <1>4
  <2>2. Base[r] \in Nat /\ Pages[r] \in Nat
    BY <1>4
  <2>3. Lo(s) \in Nat /\ Hi(s) \in Nat /\ Lo(t) \in Nat /\ Hi(t) \in Nat
    BY <1>7
  <2>. QED
    BY <2>1, <2>2, <2>3
<1>11. Hi(s) <= Lo(t) \/ Hi(t) <= Lo(s)
  BY <1>8
<1>12. Base[q] + Pages[q] <= Base[r] \/ Base[r] + Pages[r] <= Base[q]
  BY <1>9, <1>10, <1>11, SMT
<1>. QED
  BY <1>10, <1>12 DEF Apart

LEMMA RegionStep == SetUpInv /\ RegionInv /\ [Next]_vars => RegionInv'
<1>. SUFFICES ASSUME SetUpInv, RegionInv, [Next]_vars PROVE RegionInv'
  OBVIOUS
<1>1. high' = high
  BY DEF Next, SetUp, Opens, MapsSlot, CreatesProcessor, CreatesDevices, SigintKills, SetsUp,
     CpuWork, TestsExit, RunFails, Leaves, GuestLeaves, ExitToDevice, ExitThrows, ExitUnhandled,
     WritesA20Gate, WritesDiskRegister, Ends, Cpu, Remaps, A20IsCurrent, FreesSlot3,
     MapsSlot3, FreesSlot7, UnmapsPage, MapsPage, MapsSlot7, Calls, SigintArrives, MainWork,
     SigintHandler, ShutdownHandler, Joins, Main, vars
<1>2. \A s : MayMap(s)' = MayMap(s)
  BY <1>1 DEF MayMap, Initial
<1>3. ASSUME NEW s \in Slots, NEW r, NEW to, r = "none" \/ r \in MayMap(s), Sets(s, r, to)
      PROVE  \A t \in Slots : slots'[t] = "none" \/ slots'[t] \in MayMap(t)
  BY <1>3 DEF Sets, RegionInv, SetUpInv
<1>4. \/ slots' = slots
      \/ MapsSlot
      \/ \E r, to : \E s \in Slots : (r = "none" \/ r \in MayMap(s)) /\ Sets(s, r, to)
  <2>1. 3 \in Slots /\ 7 \in Slots /\ "Disk" \in MayMap(7)
        /\ \A r : A20Region(r) = "none" \/ A20Region(r) \in MayMap(3)
    BY DEF Slots, MayMap, A20Region
  <2>2. CASE FreesSlot3 \/ MapsSlot3 \/ FreesSlot7 \/ MapsSlot7
    BY <2>1, <2>2 DEF FreesSlot3, MapsSlot3, FreesSlot7, MapsSlot7
  <2>. QED
    BY <2>2 DEF Next, SetUp, Opens, CreatesProcessor, CreatesDevices, SigintKills, SetsUp, memory,
     CpuWork, TestsExit, RunFails, Leaves, GuestLeaves, ExitToDevice, ExitThrows, ExitUnhandled,
     WritesA20Gate, WritesDiskRegister, Ends, Cpu, Keeps, Remaps, A20IsCurrent,
     UnmapsPage, MapsPage, SigintArrives, MainWork, SigintHandler, ShutdownHandler, Joins, Main, vars
<1>5. CASE MapsSlot
  <2>1. \A s \in Slots : Initial(s) = "none" \/ Initial(s) \in MayMap(s)
    BY DEF Slots, MayMap, Initial
  <2>2. slots' = slots \/ (step \in Slots /\ slots' = [slots EXCEPT ![step] = Initial(step)])
    BY <1>5 DEF MapsSlot, SetUpInv, Slots
  <2>3. \A t \in Slots : slots'[t] = slots[t] \/ slots'[t] = Initial(t)
    BY <2>2 DEF SetUpInv
  <2>4. \A t \in Slots : slots'[t] = "none" \/ slots'[t] \in MayMap(t)
    BY <2>1, <2>3 DEF RegionInv
  <2>. QED
    BY <1>1, <1>2, <2>4 DEF RegionInv
<1>. QED
  BY <1>1, <1>2, <1>3, <1>4, <1>5 DEF RegionInv

\* No request is refused on account of its slot or of a region in its way.
THEOREM RequestsAreLegalCorrect == Spec => []RequestsAreLegal
<1>1. Init => GateInv /\ WindowInv /\ RegionInv
  BY RegionsAre, HighAssumption DEF Init, GateInv, WindowInv, RegionInv
<1>2. SetUpInv /\ GateInv /\ WindowInv /\ RegionInv => RequestsAreLegal
  <2>. SUFFICES ASSUME SetUpInv, GateInv, WindowInv, RegionInv PROVE RequestsAreLegal
    OBVIOUS
  <2>1. \A s \in Slots : \A r \in MayMap(s) : slots[s] = "none" /\ r # "none" => Accepts(s, r)
    BY RegionsFit DEF RegionInv, Accepts
  <2>2. main = "slots" /\ step < 8 => Initial(step) = "none" \/ Accepts(step, Initial(step))
    BY <2>1, RegionsAre DEF SetUpInv, MayMap, Initial
  <2>3. 3 \in Slots /\ 7 \in Slots /\ "Disk" \in MayMap(7) /\ {"RamWrap", "HighMem"} = MayMap(3)
    BY DEF Slots, MayMap
  <2>4. cpu = "a20" /\ A20Changed /\ high # 0 => Accepts(3, "none")
    BY DEF GateInv, Accepts, A20Region
  <2>5. cpu = "a20map" => Accepts(3, A20Region(a20register))
    <3>. SUFFICES ASSUME cpu = "a20map" PROVE Accepts(3, A20Region(a20register))
      OBVIOUS
    <3>1. CASE high # 0
      BY <2>1, <2>3, <3>1 DEF GateInv, A20Region
    <3>2. CASE high = 0
      <4>1. A20Enabled(a20register) \in BOOLEAN /\ A20Enabled(lastA20Register) \in BOOLEAN
        BY DEF A20Enabled
      <4>2. CASE A20Enabled(a20register)
        BY <3>2, <4>1, <4>2 DEF GateInv, A20Region, A20Changed, Accepts
      <4>3. CASE ~A20Enabled(a20register)
        BY <2>1, <2>3, <3>2, <4>1, <4>3 DEF GateInv, A20Region, A20Changed
      <4>. QED
        BY <4>1, <4>2, <4>3
    <3>. QED
      BY <3>1, <3>2
  <2>6. cpu = "disk" /\ updateDiskMapping => Accepts(7, "none")
    BY DEF WindowInv, Accepts
  <2>7. cpu = "mapdisk" => Accepts(7, "Disk")
    BY <2>1, <2>3 DEF WindowInv
  <2>. QED
    BY <2>2, <2>4, <2>5, <2>6, <2>7 DEF RequestsAreLegal
<1>. QED
  BY <1>1, <1>2, SetUpInit, SetUpStep, GateStep, WindowStep, RegionStep, PTL DEF Spec

-----------------------------------------------------------------------------
\* Every variable keeps its type; the slots' part of it is in SetUpInv.
THEOREM TypeCorrect == Spec => []TypeOK
<1>1. Init => TypeOK
  <2>. SUFFICES ASSUME Init PROVE TypeOK
    OBVIOUS
  <2>1. step \in 0..8 /\ slots \in [Slots -> Regions \cup {"none"}]
    BY SetUpInit DEF SetUpInv
  <2>2. /\ high \in HighSizes /\ cpu = "none" /\ main = "open" /\ diskData = "null"
        /\ a20register = 2 /\ lastA20Register = 2
        /\ ~requestExit /\ ~sigint /\ ~shutdown /\ ~updateDiskMapping
    BY DEF Init
  <2>3. \A b \in {requestExit, sigint, shutdown, updateDiskMapping} : b \in BOOLEAN
    BY DEF Init
  <2>. QED
    BY <2>1, <2>2, <2>3 DEF TypeOK
<1>2. TypeOK /\ SetUpInv' /\ [Next]_vars => TypeOK'
  <2>. SUFFICES ASSUME TypeOK, SetUpInv', [Next]_vars PROVE TypeOK'
    OBVIOUS
  <2>. USE DEF TypeOK
  <2>0. (step \in 0..8 /\ slots \in [Slots -> Regions \cup {"none"}])'
    BY DEF SetUpInv
  <2>00. high' = high
    BY DEF Next, SetUp, Opens, MapsSlot, CreatesProcessor, CreatesDevices, SigintKills, SetsUp,
       CpuWork, TestsExit, RunFails, Remaps, A20IsCurrent, FreesSlot3, MapsSlot3, FreesSlot7,
       UnmapsPage, MapsPage, MapsSlot7, Calls, Leaves, GuestLeaves, ExitToDevice, ExitThrows,
       ExitUnhandled, WritesA20Gate, WritesDiskRegister, Ends, Cpu, Keeps, SigintArrives,
       MainWork, SigintHandler, ShutdownHandler, Joins, Main, vars
  <2>000. high' \in HighSizes
    BY <2>00
  <2>. HIDE DEF TypeOK
  <2>. DEFINE Rest == /\ requestExit \in BOOLEAN /\ sigint \in BOOLEAN /\ shutdown \in BOOLEAN
                      /\ updateDiskMapping \in BOOLEAN
                      /\ cpu \in {"none", "test", "run", "a20", "a20map", "disk", "munmap",
                                  "mmap", "mapdisk", "leave", "ending", "done", "aborted"}
                      /\ main \in {"open", "slots", "devices", "loop", "join", "exit"}
                      /\ a20register \in 0..3 /\ lastA20Register \in 0..3
                      /\ diskData \in {"null", "mapped", "unmapped", "failed"}
  <2>. Rest
    BY DEF TypeOK
  <2>1. ASSUME SetUp PROVE Rest'
    BY <2>1 DEF SetUp, Opens, MapsSlot, CreatesProcessor, CreatesDevices, SigintKills, SetsUp, memory
  <2>2. ASSUME TestsExit \/ RunFails \/ SigintArrives PROVE Rest'
    <3>1. ASSUME TestsExit \/ RunFails PROVE Rest'
      BY <3>1 DEF TestsExit, RunFails, Cpu, Keeps, memory
    <3>2. ASSUME SigintArrives PROVE Rest'
      BY <3>2 DEF SigintArrives, memory
    <3>. QED
      BY <2>2, <3>1, <3>2
  <2>3. ASSUME GuestLeaves PROVE Rest'
    BY <2>3 DEF GuestLeaves, ExitToDevice, ExitThrows, ExitUnhandled, WritesA20Gate,
       WritesDiskRegister, Cpu, Keeps, memory
  <2>4. ASSUME Remaps PROVE Rest'
    BY <2>4 DEF Remaps, A20IsCurrent, FreesSlot3, MapsSlot3, FreesSlot7, UnmapsPage, MapsPage,
       MapsSlot7, Calls, Sets
  <2>5. ASSUME Leaves \/ Ends PROVE Rest'
    BY <2>5 DEF Leaves, Ends, Cpu, Keeps, memory
  <2>6. ASSUME MainWork PROVE Rest'
    BY <2>6 DEF MainWork, SigintHandler, ShutdownHandler, Joins, Main, memory
  <2>7. ASSUME UNCHANGED vars PROVE Rest'
    BY <2>7 DEF vars, threads, memory
  <2>8. Rest'
    BY <2>1, <2>2, <2>3, <2>4, <2>5, <2>6, <2>7 DEF Next, CpuWork
  <2>. QED
    BY <2>0, <2>000, <2>8 DEF TypeOK
<1>. QED
  BY <1>1, <1>2, SetUpInit, SetUpStep, PTL DEF Spec

=============================================================================
