---------------------------- MODULE VirtualDisk ----------------------------
(***************************************************************************)
(* The virtual disk: int 13h functions 02h and 03h of the option ROM       *)
(* (src/src/roms/virtual-disk/virtual-disk.asm) and the emulator's disk    *)
(* registers and remapping (src/src/main.cpp:203-222, 736-781).  The ROM   *)
(* sees the disk through a window of one page, 8 sectors, that shows the   *)
(* sectors from the LBA register on since the register was last committed. *)
(*                                                                         *)
(* 02h and 03h run the same instructions with source and destination       *)
(* swapped, so one transfer stands for both.  Sectors are their LBAs:      *)
(* moved is the sequence of LBAs the call has copied from or to, and       *)
(* Outside is a sector's worth of words past the end of the window.        *)
(***************************************************************************)
EXTENDS Integers, Sequences

CONSTANT Requests    \* the calls the guest makes

\* Cylinder, head and sector, and the number of sectors (al), within the geometry
\* function 08h reports and the most that fits a segment.
Request == [cylinder : 0..31, head : 0..254, sector : 1..63, count : 1..128]

ASSUME RequestsAssumption == Requests \subseteq Request

VARIABLES low, high,     \* selectedDiskLBA, as the two words the ROM accesses
          window,        \* the first sector of the page mapped in slot 7
          requestExit,
          pc, request,   \* where the handler is, and in which call
          bl,            \* sectors still to move
          moved

disk == <<low, high, window, requestExit>>
vars == <<disk, pc, request, bl, moved>>

Word    == 65536
Lba     == high * Word + low
Outside == -1

TypeOK == /\ low \in 0..(Word - 1) /\ high \in 0..(Word - 1)
          /\ window \in Nat \cup {Outside} /\ requestExit \in BOOLEAN
          /\ pc \in {"idle", "copyFirst", "copyBlocks"}
          /\ request \in Request /\ bl \in 0..255
          /\ moved \in Seq(Nat \cup {Outside})

\* Where a call starts, by 16-bit multiplications and an addition with carry.
FirstLba(r) == 63 * ((255 * r.cylinder + r.head) % Word) + r.sector - 1

\* A byte as the signed conditional jumps see it.
Signed(b) == IF b < 128 THEN b ELSE b - 256

\* The option ROM has initialised the disk: LBA zero is selected and mapped.
Init == /\ low = 0 /\ high = 0 /\ window = 0 /\ requestExit = FALSE
        /\ pc = "idle" /\ request \in Requests /\ bl = 0 /\ moved = <<>>

-----------------------------------------------------------------------------
\* Write both words and commit.  The page shown before is gone; the new one must
\* start on a page boundary of the file, and mapping it may fail, which stops the
\* machine.
SelectLba(l, h) ==
    /\ low' = l /\ high' = h
    /\ \/ /\ (h * Word + l) % 8 = 0
          /\ window' = h * Word + l /\ UNCHANGED requestExit
       \/ window' = Outside /\ requestExit' = TRUE

\* "adc ax, 0" follows "add dx, 2", which leaves the carry clear.
CarryOfLow == 0

IncrementLBA == SelectLba((low + 8) % Word, (high + CarryOfLow) % Word)

Copy(from, n) ==
    moved' = moved \o [i \in 1..n |-> IF from + i <= 8 THEN window + from + i - 1 ELSE Outside]

\* Select the first sector's page, unless the registers hold it already.
Begin(r) ==
    /\ pc = "idle" /\ request' = r
    /\ LET lba == FirstLba(r)
           l   == (lba - (lba % 8)) % Word
           h   == lba \div Word
       IN  /\ IF low = l /\ high = h THEN UNCHANGED disk ELSE SelectLba(l, h)
           /\ pc' = IF lba % 8 = 0 THEN "copyBlocks" ELSE "copyFirst"
    /\ bl' = r.count /\ moved' = <<>>

\* What follows a copy of n sectors: done, or on with the next page.
Continue(n) ==
    /\ bl' = bl - n
    /\ IF bl' = 0 THEN pc' = "idle" /\ UNCHANGED disk
                  ELSE pc' = "copyBlocks" /\ IncrementLBA
    /\ UNCHANGED request

\* Slip: the request is not tested to end before the page does.
CopyFirstWholePage ==
    /\ pc = "copyFirst"
    /\ LET al == FirstLba(request) % 8 IN Copy(al, 8 - al) /\ Continue(8 - al)

\* From the middle of a page to its end, or less.  The comparison is signed.
CopyFirst ==
    /\ pc = "copyFirst"
    /\ LET al == FirstLba(request) % 8
           ch == IF 8 - al > Signed(bl) THEN bl ELSE 8 - al
       IN  Copy(al, ch) /\ Continue(ch)

\* Slip: off by one, with eight sectors left neither loop nor last copy takes them.
CopyBlockAbove8 == pc = "copyBlocks" /\ bl > 8 /\ Copy(0, 8) /\ Continue(8)

CopyBlock == pc = "copyBlocks" /\ bl >= 8 /\ Copy(0, 8) /\ Continue(8)

CopyLast == pc = "copyBlocks" /\ bl < 8 /\ Copy(0, bl) /\ Continue(bl)

Transfer == CopyFirst \/ CopyBlock \/ CopyLast

Next == ~requestExit /\ ((\E r \in Requests : Begin(r)) \/ Transfer)

Spec == Init /\ [][Next]_vars

\* The guest's processor runs the handler on, until the machine stops.
FairSpec == Spec /\ WF_vars(~requestExit /\ Transfer)

-----------------------------------------------------------------------------
\* The sectors a call is for, in order.
Wanted(r) == [i \in 1..r.count |-> FirstLba(r) + i - 1]

Finished == pc = "idle" /\ bl = 0 /\ moved # <<>> /\ ~requestExit

CrossesWord(r) == FirstLba(r) \div Word # (FirstLba(r) + r.count - 1) \div Word
LongUnaligned(r) == r.count >= 128 /\ FirstLba(r) % 8 # 0

\* A call moves exactly the sectors asked for, whatever page the calls before it
\* left in the window, however it is split over pages -- but for the two kinds of
\* call below (virtual-disk.asm:200-294, 475-490).
TransferExact ==
    (Finished /\ ~CrossesWord(request) /\ ~LongUnaligned(request)) => moved = Wanted(request)

\* Every call comes to an end, or the machine stops.
CallEnds == pc # "idle" ~> (pc = "idle" \/ requestExit)

\* "increment the LBA before the next block" (asm:283): a call that runs past a
\* multiple of 65536 sectors still moves the sectors asked for.
CarryReachesHigh == (Finished /\ CrossesWord(request)) => moved = Wanted(request)
=============================================================================
