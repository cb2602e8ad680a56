------------------------------ MODULE Machine ------------------------------
(***************************************************************************)
(* The emulator's process (src/src/main.cpp:242-957): main sets the        *)
(* virtual machine up, one system call after the other, and starts the CPU *)
(* thread, whose loop around KVM_RUN remaps memory after a port access;    *)
(* main itself runs the uvw loop, stops it when told that the CPU thread   *)
(* is leaving, and joins it.  Any system call may fail.                    *)
(*                                                                         *)
(* Of the guest only what decides their fate is kept: whether it leaves    *)
(* KVM_RUN, its writes of the A20 gate, port 92h, which remap slot 3, and  *)
(* of the disk registers, which remap slot 7.  What the devices do with an *)
(* access is in modules of their own, the remapping of slots 4 and 5 too   *)
(* (Flash).  Memory is counted in pages of 4 KiB.                          *)
(***************************************************************************)
EXTENDS Naturals

CONSTANT HighSizes   \* the builds: values of HIGH_MEMORY_SIZE, in pages

\* High memory ends below the flash chip.
ASSUME HighAssumption == HighSizes \subseteq 0..13056

VARIABLES high,            \* the size of high memory, fixed by the build
          slots,           \* KVM's memory slots: the region mapped by each
          step,            \* the next slot main sets up
          requestExit, cpu,
          main,            \* the main thread: setting up, in the loop, past it, or gone
          sigint,          \* a SIGINT not yet seen by the loop
          shutdown,        \* cpuShutdownNotification has been sent
           a20register, lastA20Register,
          updateDiskMapping,
          diskData         \* what the pointer to the mapped page of the disk is

memory  == <<slots, a20register, lastA20Register, updateDiskMapping, diskData>>
threads == <<requestExit, cpu, main, sigint, shutdown>>
vars    == <<high, step, memory, threads>>

Slots == 0..7

Base == [Ram |-> 0, OptionRom |-> \hC8, Boot |-> \hC9, Disk |-> \hC9, RomDos |-> \hE0,
         Bios |-> \hF0, RamWrap |-> \h100, HighMem |-> \h100, Flash |-> \h3400,
         FlashAlias |-> \h3480]
Pages == [Ram |-> \h70, OptionRom |-> 1, Boot |-> 1, Disk |-> 1, RomDos |-> \h10,
          Bios |-> \h10, RamWrap |-> \h10, HighMem |-> high, Flash |-> \h80,
          FlashAlias |-> \h80]
Regions == DOMAIN Base

TypeOK == /\ high \in HighSizes /\ slots \in [Slots -> Regions \cup {"none"}] /\ step \in 0..8
          /\ requestExit \in BOOLEAN /\ sigint \in BOOLEAN /\ shutdown \in BOOLEAN
          /\ updateDiskMapping \in BOOLEAN
          /\ cpu \in {"none", "test", "run", "a20", "a20map", "disk", "munmap", "mmap",
                      "mapdisk", "leave", "ending", "done", "aborted"}
          /\ main \in {"open", "slots", "devices", "loop", "join", "exit"}
          /\ a20register \in 0..3 /\ lastA20Register \in 0..3
          /\ diskData \in {"null", "mapped", "unmapped", "failed"}

Init == /\ high \in HighSizes /\ slots = [s \in Slots |-> "none"] /\ step = 0
        /\ requestExit = FALSE /\ sigint = FALSE /\ shutdown = FALSE
        /\ cpu = "none" /\ main = "open"
        /\ a20register = 2 /\ lastA20Register = 2
        /\ updateDiskMapping = FALSE /\ diskData = "null"

A20Enabled(register) == (register \div 2) % 2 = 1
A20Changed == A20Enabled(lastA20Register) # A20Enabled(a20register)

\* What slot 3 maps when the gate is as the register says.
A20Region(register) == IF ~A20Enabled(register) THEN "RamWrap"
                       ELSE IF high # 0 THEN "HighMem" ELSE "none"

\* The region main maps in a slot; without high memory it leaves slot 3 alone.
Initial(s) == IF s = 3 /\ high = 0 THEN "none"
              ELSE <<"Ram", "RomDos", "Bios", "HighMem",
                     "Flash", "FlashAlias", "OptionRom", "Boot">>[s + 1]

\* External: KVM deletes a slot only if it is there, does not change the size or the
\* memory of one that is, and refuses regions that overlap.
Apart(q, r) == Base[q] + Pages[q] <= Base[r] \/ Base[r] + Pages[r] <= Base[q]
Accepts(s, r) == IF r = "none" THEN slots[s] # "none"
                 ELSE IF slots[s] # "none" THEN slots[s] = r
                 ELSE \A t \in Slots : slots[t] # "none" => Apart(r, slots[t])

\* An exception no one catches ends the process: no thread takes another step.
Alive == cpu # "aborted" /\ main # "exit"

-----------------------------------------------------------------------------
(* The set-up; a call that fails ends the program. *)

SetsUp(from, to) == /\ main = from /\ main' \in {to, "exit"}
                    /\ cpu' = IF main' = "loop" THEN "test" ELSE cpu
                    /\ UNCHANGED <<high, memory, requestExit, sigint, shutdown>>

\* /dev/kvm, the virtual machine, the images and the memory behind the regions.
Opens == SetsUp("open", "slots") /\ UNCHANGED step

MapsSlot ==
    /\ main = "slots" /\ step < 8
    /\ \/ /\ Initial(step) = "none" \/ Accepts(step, Initial(step))
          /\ slots' = [slots EXCEPT ![step] = Initial(step)]
          /\ step' = step + 1 /\ UNCHANGED main
       \/ Initial(step) # "none" /\ main' = "exit" /\ UNCHANGED <<slots, step>>
    /\ UNCHANGED <<high, a20register, lastA20Register, updateDiskMapping, diskData>>
    /\ UNCHANGED <<requestExit, cpu, sigint, shutdown>>

\* The interrupt controllers, the timer, the processor and its registers.
CreatesProcessor == step = 8 /\ SetsUp("slots", "devices") /\ UNCHANGED step

\* The loop's devices, whose constructors may throw, the signals and the CPU thread.
CreatesDevices == SetsUp("devices", "loop") /\ UNCHANGED step

\* Before its handler is started SIGINT kills the process.
SigintKills == /\ main \in {"open", "slots", "devices"} /\ main' = "exit"
               /\ UNCHANGED <<high, step, memory, requestExit, cpu, sigint, shutdown>>

-----------------------------------------------------------------------------
(* The CPU thread. *)

Cpu(from, to) == Alive /\ cpu = from /\ cpu' = to /\ UNCHANGED <<high, step, main, sigint, shutdown>>
Keeps == UNCHANGED <<requestExit, memory>>

TestsExit == Cpu("test", IF requestExit THEN "leave" ELSE "run") /\ Keeps

\* KVM_RUN fails: with EINTR it is tried again, otherwise the loop is left.
RunFails == (Cpu("run", "test") \/ Cpu("run", "leave")) /\ Keeps

\* An exit handled by a device, without effect on the threads.
ExitToDevice == Cpu("run", "test") /\ Keeps

\* A register width the device does not implement throws in the CPU thread.
ExitThrows == Cpu("run", "aborted") /\ Keeps

ExitUnhandled == Cpu("run", "test") /\ requestExit' = TRUE /\ UNCHANGED memory

\* A write of port 92h, and of the disk register that asks for a remapping: each is
\* followed by both tests made after every I/O exit.
WritesA20Gate(value) ==
    /\ Cpu("run", "a20")
    /\ a20register' = value
    /\ UNCHANGED <<requestExit, slots, lastA20Register, updateDiskMapping, diskData>>

WritesDiskRegister ==
    /\ Cpu("run", "a20")
    /\ updateDiskMapping' = TRUE
    /\ UNCHANGED <<requestExit, slots, a20register, lastA20Register, diskData>>

\* A call to KVM for a slot takes the thread on, or back to the test of its loop.
Sets(s, region, to) ==
    \/ /\ Accepts(s, region) /\ cpu' = to
       /\ slots' = [slots EXCEPT ![s] = region]
       /\ UNCHANGED requestExit
    \/ /\ cpu' = "test" /\ requestExit' = TRUE
       /\ UNCHANGED slots

Calls(from) == /\ Alive /\ cpu = from
               /\ UNCHANGED <<high, step, main, sigint, shutdown, a20register>>

A20IsCurrent == /\ Calls("a20") /\ ~A20Changed /\ cpu' = "disk"
                /\ UNCHANGED <<requestExit, slots, lastA20Register, updateDiskMapping, diskData>>

\* Slip: the slot is set straight to its new region.
SkipsSlot3 == /\ Calls("a20") /\ A20Changed /\ cpu' = "a20map"
              /\ UNCHANGED <<requestExit, slots, lastA20Register, updateDiskMapping, diskData>>

\* With high memory slot 3 is always mapped, and deleted first.
FreesSlot3 == /\ Calls("a20") /\ A20Changed
              /\ IF high # 0 THEN Sets(3, "none", "a20map")
                 ELSE cpu' = "a20map" /\ UNCHANGED <<requestExit, slots>>
              /\ UNCHANGED <<lastA20Register, updateDiskMapping, diskData>>

\* Slip: a failed mapping is logged and ignored.
MapsSlot3Carelessly ==
    /\ Calls("a20map") /\ cpu' = "disk"
    /\ slots' \in {slots, [slots EXCEPT ![3] = A20Region(a20register)]}
    /\ lastA20Register' = a20register
    /\ UNCHANGED <<requestExit, updateDiskMapping, diskData>>

MapsSlot3 == /\ Calls("a20map")
             /\ Sets(3, A20Region(a20register), "disk")
             /\ lastA20Register' = IF cpu' = "disk" THEN a20register ELSE lastA20Register
             /\ UNCHANGED <<updateDiskMapping, diskData>>

\* The page of the disk: slot 7 is deleted before the page behind it is unmapped.
FreesSlot7 == /\ Calls("disk")
              /\ IF updateDiskMapping THEN Sets(7, "none", "munmap")
                 ELSE cpu' = "test" /\ UNCHANGED <<requestExit, slots>>
              /\ UNCHANGED <<lastA20Register, updateDiskMapping, diskData>>

\* Unmapping the null pointer, the first time, unmaps nothing and succeeds.
UnmapsPage == /\ Calls("munmap")
              /\ \/ cpu' = "mmap" /\ UNCHANGED requestExit
                    /\ diskData' = IF diskData = "null" THEN "null" ELSE "unmapped"
                 \/ cpu' = "test" /\ requestExit' = TRUE /\ UNCHANGED diskData
              /\ UNCHANGED <<slots, lastA20Register, updateDiskMapping>>

\* Slip: the result of mmap is not looked at.
MapsPageUnchecked == /\ Calls("mmap") /\ cpu' = "mapdisk"
                     /\ diskData' \in {"mapped", "failed"}
                     /\ UNCHANGED <<requestExit, slots, lastA20Register, updateDiskMapping>>

MapsPage == /\ Calls("mmap")
            /\ \/ cpu' = "mapdisk" /\ diskData' = "mapped" /\ UNCHANGED requestExit
               \/ cpu' = "test" /\ diskData' = "failed" /\ requestExit' = TRUE
            /\ UNCHANGED <<slots, lastA20Register, updateDiskMapping>>

MapsSlot7 == /\ Calls("mapdisk")
             /\ Sets(7, "Disk", "test")
             /\ updateDiskMapping' = (slots'[7] = "none")
             /\ UNCHANGED <<lastA20Register, diskData>>

\* Slip: the thread ends without a word to the loop.
LeavesQuietly == Calls("leave") /\ cpu' = "ending" /\ UNCHANGED <<requestExit, memory>>

\* Past its loop the thread tells main, which may stop and join before it has ended.
Leaves == /\ Alive /\ cpu = "leave" /\ cpu' = "ending" /\ shutdown' = TRUE
          /\ UNCHANGED <<high, step, memory, requestExit, main, sigint>>

Ends == Cpu("ending", "done") /\ Keeps

-----------------------------------------------------------------------------
(* The main thread. *)

Main(from, to) == /\ Alive /\ main = from /\ main' = to
                  /\ UNCHANGED <<high, step, memory, cpu>>

SigintArrives == /\ Alive /\ main \in {"loop", "join"} /\ sigint' = TRUE
                 /\ UNCHANGED <<high, step, memory, requestExit, cpu, main, shutdown>>

SigintHandler == /\ Main("loop", "loop") /\ sigint /\ sigint' = FALSE
                 /\ requestExit' = TRUE /\ UNCHANGED shutdown

ShutdownHandler == /\ Main("loop", "join") /\ shutdown /\ shutdown' = FALSE
                   /\ UNCHANGED <<requestExit, sigint>>

\* Slip: main does not wait for the thread.
ReturnsAtOnce == Main("join", "exit") /\ UNCHANGED <<requestExit, sigint, shutdown>>

Joins == /\ Main("join", "exit") /\ cpu = "done"
         /\ UNCHANGED <<requestExit, sigint, shutdown>>

-----------------------------------------------------------------------------
SetUp == Opens \/ MapsSlot \/ CreatesProcessor \/ CreatesDevices \/ SigintKills

GuestLeaves == \/ ExitToDevice \/ ExitThrows \/ ExitUnhandled
               \/ \E v \in 0..3 : WritesA20Gate(v)
               \/ WritesDiskRegister
Remaps   == \/ A20IsCurrent \/ FreesSlot3 \/ MapsSlot3
            \/ FreesSlot7 \/ UnmapsPage \/ MapsPage \/ MapsSlot7
CpuWork  == TestsExit \/ Remaps \/ Leaves \/ Ends
MainWork == SigintHandler \/ ShutdownHandler \/ Joins

Next == SetUp \/ CpuWork \/ RunFails \/ GuestLeaves \/ SigintArrives \/ MainWork

Spec == Init /\ [][Next]_vars

\* Both threads keep running.  Nothing makes a guest leave KVM_RUN: it may spin there,
\* or wait for ever in HLT, which does not leave it either once the interrupt controllers
\* are in the kernel (main.cpp:521).
FairSpec == /\ Spec /\ WF_vars(CpuWork)
            /\ WF_vars(SigintHandler) /\ WF_vars(ShutdownHandler) /\ WF_vars(Joins)

-----------------------------------------------------------------------------
\* Whenever the guest runs, its memory above 1 MiB is what its A20 gate says, and
\* the thread's copy of the gate agrees with it, in a build with high memory and in
\* one without (main.cpp:484-491, 653, 701-732).
A20Mapped == cpu = "run" => /\ slots[3] = A20Region(a20register)
                            /\ ~A20Changed

\* Whenever the guest runs, its window shows the boot page or the page it has asked
\* for, and never memory that the process has unmapped (main.cpp:734-781).
WindowMapped == /\ slots[7] = "Disk" => diskData = "mapped"
                /\ cpu = "run" => slots[7] \in {"Boot", "Disk"} /\ ~updateDiskMapping

\* No call asks KVM for what it must refuse: the regions of every build fit beside
\* one another, and a remapping finds the slot as it expects it, whatever remapping
\* and whatever failure came before (main.cpp:355-455, 466-516, 702-731, 738-772).
RequestsAreLegal ==
    /\ main = "slots" /\ step < 8 => Initial(step) = "none" \/ Accepts(step, Initial(step))
    /\ cpu = "a20" /\ A20Changed /\ high # 0 => Accepts(3, "none")
    /\ cpu = "a20map" => Accepts(3, A20Region(a20register))
    /\ cpu = "disk" /\ updateDiskMapping => Accepts(7, "none")
    /\ cpu = "mapdisk" => Accepts(7, "Disk")

\* The process never returns from main under a CPU thread still using its locals,
\* even one that has only its notice behind it, and the loop never stops under a guest
\* that may still call its devices (main.cpp:928, 945-954).
StopsInOrder == /\ main = "join" => cpu \in {"ending", "done"}
                /\ main = "exit" => cpu \in {"none", "done"}

\* A machine told to stop, by SIGINT or by a call that has failed, in the middle of a
\* remapping or of anything else, does stop, unless an exception ends it or its guest
\* stays in KVM_RUN for ever: the handler of SIGINT only sets a flag, which the CPU
\* thread looks at after an exit of the guest's own (main.cpp:639, 654, 928, 942-954).
ExitIsReached == requestExit ~> (main = "exit" \/ cpu = "aborted" \/ [](cpu = "run"))
=============================================================================
