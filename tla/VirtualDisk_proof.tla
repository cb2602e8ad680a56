-------------------------- MODULE VirtualDisk_proof --------------------------
(***************************************************************************)
(* Proof about VirtualDisk, for every set of requests: a call moves the    *)
(* sectors that were asked for.                                            *)
(***************************************************************************)
EXTENDS VirtualDisk, SequenceTheorems, TLAPS

\* The types that the proof needs; a call is for at most 128 sectors.
Types == /\ low \in Nat /\ low < Word /\ high \in Nat /\ high < Word
         /\ requestExit \in BOOLEAN /\ pc \in {"idle", "copyFirst", "copyBlocks"}
         /\ request \in Request /\ bl \in 0..128

\* The window shows the page that the registers select.
PageInv == ~requestExit => window = Lba /\ Lba % 8 = 0

\* Sectors from one on.
Run(from, n) == [i \in 1..n |-> from + i - 1]

\* The calls that the two peculiarities of the code do not touch.
Ordinary(r) == ~CrossesWord(r) /\ ~LongUnaligned(r)

\* How far a call has come, and that the window is at its next sector, or at the page of the
\* first one.
ProgressInv ==
    ~requestExit /\ Ordinary(request) =>
        /\ pc = "copyFirst" => /\ bl = request.count /\ moved = <<>>
                               /\ FirstLba(request) % 8 # 0
                               /\ Lba = FirstLba(request) - (FirstLba(request) % 8)
        /\ pc = "copyBlocks" => /\ bl \in 1..request.count
                                /\ moved = Run(FirstLba(request), request.count - bl)
                                /\ Lba = FirstLba(request) + request.count - bl
        /\ pc = "idle" /\ moved # <<>> /\ bl = 0 => moved = Wanted(request)

-----------------------------------------------------------------------------
(* Arithmetic. *)

\* A disk of 32 cylinders: no multiplication overflows its 16 bits.
LEMMA FirstIs == ASSUME NEW r \in Request
                 PROVE  /\ FirstLba(r) \in Nat /\ FirstLba(r) < 514080
                        /\ r.count \in Nat /\ 1 <= r.count /\ r.count <= 128
<1>1. /\ r.cylinder \in Int /\ 0 <= r.cylinder /\ r.cylinder <= 31
      /\ r.head \in Int /\ 0 <= r.head /\ r.head <= 254
      /\ r.sector \in Int /\ 1 <= r.sector /\ r.sector <= 63
      /\ r.count \in Int /\ 1 <= r.count /\ r.count <= 128
  BY SMT DEF Request
<1>2. (255 * r.cylinder + r.head) % 65536 = 255 * r.cylinder + r.head
  BY <1>1, SMT
<1>. QED
  BY <1>1, <1>2, SMT DEF FirstLba, Word

\* Splitting an LBA into its words and rounding it down to a page.
LEMMA SplitIs ==
    ASSUME NEW lba \in Nat, lba < 514080
    PROVE  /\ lba % 8 \in Nat /\ lba % 8 < 8
           /\ (lba - (lba % 8)) % Word \in Nat /\ (lba - (lba % 8)) % Word < Word
           /\ lba \div Word \in Nat /\ lba \div Word < Word
           /\ (lba \div Word) * Word + ((lba - (lba % 8)) % Word) = lba - (lba % 8)
           /\ (lba - (lba % 8)) % 8 = 0
<1>. USE DEF Word
<1>1. lba % 8 \in Nat /\ lba % 8 < 8 /\ lba % 8 <= lba
  BY SMT
<1>2. (lba - (lba % 8)) % 65536 \in Nat /\ (lba - (lba % 8)) % 65536 < 65536
  BY <1>1, SMT
<1>3. lba \div 65536 \in Nat /\ lba \div 65536 < 65536
  BY SMT
<1>4. (lba \div 65536) * 65536 + ((lba - (lba % 8)) % 65536) = lba - (lba % 8)
  BY SMT
<1>5. (lba - (lba % 8)) % 8 = 0
  BY SMT
<1>. QED
  BY <1>1, <1>2, <1>3, <1>4, <1>5, SMT

\* The next page of a transfer that stays within a multiple of Word needs no carry.
LEMMA NextPage ==
    ASSUME NEW l \in Nat, l < Word, NEW h \in Nat, h < Word, NEW first \in Nat, NEW last \in Nat,
           h * Word + l + 8 <= last, first - 8 < h * Word + l, (h * Word + l) % 8 = 0,
           first \div Word = last \div Word
    PROVE  (l + 8) % Word = l + 8 /\ h % Word = h
<1>. USE DEF Word
<1>1. l + 8 < 65536
  BY SMT
<1>. QED
  BY <1>1, SMT

-----------------------------------------------------------------------------
(* What a copy appends. *)

LEMMA RunIs ==
    ASSUME NEW from \in Int, NEW n \in Nat
    PROVE  Run(from, n) \in Seq(Int) /\ Len(Run(from, n)) = n
           /\ \A i \in 1..n : Run(from, n)[i] = from + i - 1
<1>1. Run(from, n) \in [1..n -> Int]
  BY DEF Run
<1>2. Run(from, n) \in Seq(Int)
  BY <1>1
<1>. QED
  BY <1>1, <1>2 DEF Run

LEMMA RunsJoin ==
    ASSUME NEW from \in Int, NEW n \in Nat, NEW m \in Nat
    PROVE  Run(from, n) \o Run(from + n, m) = Run(from, n + m)
<1>. DEFINE s == Run(from, n)
            t == Run(from + n, m)
            u == Run(from, n + m)
<1>1. /\ s \in Seq(Int) /\ Len(s) = n /\ \A i \in 1..n : s[i] = from + i - 1
      /\ t \in Seq(Int) /\ Len(t) = m /\ \A i \in 1..m : t[i] = from + n + i - 1
      /\ u \in Seq(Int) /\ Len(u) = n + m /\ \A i \in 1..(n + m) : u[i] = from + i - 1
  BY RunIs
<1>. HIDE DEF s, t, u
<1>2. /\ s \o t \in Seq(Int) /\ Len(s \o t) = n + m
      /\ \A i \in 1..(n + m) : (s \o t)[i] = IF i <= n THEN s[i] ELSE t[i - n]
  BY <1>1, ConcatProperties
<1>3. \A i \in 1..(n + m) : (s \o t)[i] = u[i]
  <2>. SUFFICES ASSUME NEW i \in 1..(n + m) PROVE (s \o t)[i] = u[i]
    OBVIOUS
  <2>1. CASE i <= n
    BY <1>1, <1>2, <2>1
  <2>2. CASE ~(i <= n)
    <3>1. i - n \in 1..m
      BY <2>2
    <3>. QED
      BY <1>1, <1>2, <2>2, <3>1
  <2>. QED
    BY <2>1, <2>2
<1>. QED
  BY <1>1, <1>2, <1>3, SeqEqual DEF s, t, u

\* A copy of sectors within the window.
LEMMA CopyIs ==
    ASSUME NEW from \in Nat, NEW n \in Nat, from + n <= 8, window \in Int, Copy(from, n)
    PROVE  moved' = moved \o Run(window + from, n)
<1>1. \A i \in 1..n : from + i <= 8
  OBVIOUS
<1>2. [i \in 1..n |-> IF from + i <= 8 THEN window + from + i - 1 ELSE Outside] = Run(window + from, n)
  BY <1>1 DEF Run
<1>. QED
  BY <1>2 DEF Copy

-----------------------------------------------------------------------------
(* The steps. *)

LEMMA SelectIs ==
    ASSUME NEW l \in Nat, NEW h \in Nat, SelectLba(l, h), requestExit \in BOOLEAN
    PROVE  /\ low' = l /\ high' = h /\ requestExit' \in BOOLEAN
           /\ ~requestExit' => window' = h * Word + l /\ (h * Word + l) % 8 = 0
  BY DEF SelectLba

LEMMA TypesBegin ==
    ASSUME Types, PageInv, NEW r \in Request, Begin(r), ~requestExit
    PROVE  /\ Types' /\ PageInv'
           /\ ~requestExit' => Lba' = FirstLba(r) - (FirstLba(r) % 8)
<1>. DEFINE lba == FirstLba(r)
            l == (lba - (lba % 8)) % Word
            h == lba \div Word
<1>1. lba \in Nat /\ lba < 514080 /\ r.count \in 1..128
  BY FirstIs
<1>2. /\ l \in Nat /\ l < Word /\ h \in Nat /\ h < Word
      /\ h * Word + l = lba - (lba % 8)
  BY <1>1, SplitIs
<1>3. /\ IF low = l /\ high = h THEN UNCHANGED disk ELSE SelectLba(l, h)
      /\ pc' \in {"copyBlocks", "copyFirst"} /\ request' = r /\ bl' = r.count
  BY DEF Begin
<1>. HIDE DEF l, h, lba
<1>4. /\ low' = l /\ high' = h /\ requestExit' \in BOOLEAN
      /\ ~requestExit' => window' = h * Word + l /\ (h * Word + l) % 8 = 0
  <2>1. CASE low = l /\ high = h /\ UNCHANGED disk
    BY <2>1 DEF disk, Types, PageInv, Lba
  <2>2. CASE SelectLba(l, h)
    BY <1>2, <2>2, SelectIs DEF Types
  <2>. QED
    BY <1>3, <2>1, <2>2
<1>5. Types'
  BY <1>1, <1>2, <1>3, <1>4 DEF Types
<1>6. PageInv'
  BY <1>4 DEF PageInv, Lba
<1>7. ~requestExit' => Lba' = lba - (lba % 8)
  BY <1>2, <1>4 DEF Lba
<1>. QED
  BY <1>5, <1>6, <1>7 DEF lba

LEMMA TypesContinue ==
    ASSUME Types, PageInv, NEW n \in Nat, n <= bl, Continue(n), ~requestExit
    PROVE  Types' /\ PageInv'
<1>. DEFINE l == (low + 8) % Word
            h == (high + CarryOfLow) % Word
<1>1. l \in Nat /\ l < Word /\ h \in Nat /\ h < Word
  BY SMT DEF Types, Word, CarryOfLow
<1>2. bl - n \in 0..128
  BY DEF Types
<1>3. CASE bl' = 0 /\ pc' = "idle" /\ UNCHANGED disk
  BY <1>3 DEF Continue, Types, PageInv, Lba, disk
<1>4. CASE pc' = "copyBlocks" /\ SelectLba(l, h)
  <2>. HIDE DEF l, h
  <2>1. /\ low' = l /\ high' = h /\ requestExit' \in BOOLEAN
        /\ ~requestExit' => window' = h * Word + l /\ (h * Word + l) % 8 = 0
    BY <1>1, <1>4, SelectIs DEF Types
  <2>2. request' = request /\ bl' = bl - n
    BY DEF Continue
  <2>. QED
    BY <1>1, <1>2, <1>4, <2>1, <2>2 DEF Types, PageInv, Lba
<1>. QED
  BY <1>3, <1>4 DEF Continue, IncrementLBA

\* How much the first copy takes.
FirstPart == LET al == FirstLba(request) % 8 IN IF 8 - al > Signed(bl) THEN bl ELSE 8 - al

LEMMA FirstPartIs ==
    ASSUME Types
    PROVE  /\ FirstPart \in Nat /\ FirstPart <= bl
           /\ bl < 128 => FirstPart <= 8 - (FirstLba(request) % 8)
           /\ bl < 128 => FirstPart = bl \/ FirstPart = 8 - (FirstLba(request) % 8)
<1>1. FirstLba(request) % 8 \in Nat /\ FirstLba(request) % 8 < 8
  BY FirstIs, SplitIs DEF Types
<1>. QED
  BY <1>1, SMT DEF FirstPart, Signed, Types

LEMMA CopyFirstIs ==
    ASSUME CopyFirst
    PROVE  /\ pc = "copyFirst" /\ Copy(FirstLba(request) % 8, FirstPart) /\ Continue(FirstPart)
  BY DEF CopyFirst, FirstPart

-----------------------------------------------------------------------------
(* The window. *)

LEMMA WindowInit == Init => Types /\ PageInv
<1>. SUFFICES ASSUME Init PROVE Types /\ PageInv
  OBVIOUS
<1>1. request \in Request
  BY RequestsAssumption DEF Init
<1>2. low = 0 /\ high = 0 /\ window = 0 /\ requestExit = FALSE /\ pc = "idle" /\ bl = 0
  BY DEF Init
<1>3. Lba = 0 /\ 0 < Word
  BY <1>2, SMT DEF Lba, Word
<1>4. Types
  <2>1. 0 \in Nat /\ 0 \in 0..128
    OBVIOUS
  <2>. QED
    BY <1>1, <1>2, <1>3, <2>1, Zenon DEF Types
<1>5. PageInv
  BY <1>2, <1>3 DEF PageInv
<1>. QED
  BY <1>4, <1>5

LEMMA WindowStep == Types /\ PageInv /\ [Next]_vars => Types' /\ PageInv'
<1>. SUFFICES ASSUME Types, PageInv, [Next]_vars PROVE Types' /\ PageInv'
  OBVIOUS
<1>1. ASSUME ~requestExit, NEW r \in Requests, Begin(r) PROVE Types' /\ PageInv'
  BY <1>1, TypesBegin, RequestsAssumption
<1>2. CASE ~requestExit /\ CopyFirst
  BY <1>2, CopyFirstIs, FirstPartIs, TypesContinue
<1>3. CASE ~requestExit /\ CopyBlock
  BY <1>3, TypesContinue DEF CopyBlock, Types
<1>4. CASE ~requestExit /\ CopyLast
  <2>1. bl \in Nat
    BY DEF Types
  <2>. QED
    BY <1>4, <2>1, TypesContinue DEF CopyLast
<1>5. CASE UNCHANGED vars
  BY <1>5 DEF vars, disk, Types, PageInv, Lba
<1>. QED
  BY <1>1, <1>2, <1>3, <1>4, <1>5 DEF Next, Transfer

-----------------------------------------------------------------------------
(* The transfer. *)

LEMMA WantedIs == ASSUME NEW r PROVE Wanted(r) = Run(FirstLba(r), r.count)
BY DEF Wanted, Run

LEMMA ProgressInit == Init => ProgressInv
BY DEF Init, ProgressInv

LEMMA ProgressBegin ==
    ASSUME Types, PageInv, NEW r \in Request, Begin(r), ~requestExit
    PROVE  ProgressInv'
<1>. DEFINE lba == FirstLba(r)
<1>1. lba \in Nat /\ r.count \in Nat /\ 1 <= r.count
  BY FirstIs
<1>2. lba % 8 \in Nat /\ lba % 8 < 8
  BY FirstIs, SplitIs
<1>3. ~requestExit' => Lba' = lba - (lba % 8)
  BY TypesBegin
<1>4. /\ request' = r /\ bl' = r.count /\ moved' = <<>>
      /\ pc' = IF lba % 8 = 0 THEN "copyBlocks" ELSE "copyFirst"
  BY DEF Begin
<1>5. FirstLba(request)' = lba
  BY <1>4 DEF FirstLba
<1>6. Run(lba, 0) = <<>>
  BY DEF Run
<1>. HIDE DEF lba
<1>7. /\ (r.count - r.count) = 0 /\ lba + r.count - r.count = lba
      /\ lba % 8 = 0 => lba - (lba % 8) = lba
  BY <1>1, <1>2
<1>8. CASE lba % 8 = 0
  <2>1. bl' \in 1..request.count'
    <3>1. r.count \in 1..r.count
      BY <1>1
    <3>. QED
      BY <1>4, <3>1
  <2>2. moved' = Run(lba, (request.count - bl)')
    BY <1>4, <1>6, <1>7
  <2>3. ~requestExit' => Lba' = lba + request.count' - bl'
    BY <1>3, <1>4, <1>7, <1>8
  <2>. QED
    BY <1>4, <1>5, <1>8, <2>1, <2>2, <2>3 DEF ProgressInv
<1>9. CASE lba % 8 # 0
  BY <1>3, <1>4, <1>5, <1>9 DEF ProgressInv
<1>. QED
  BY <1>8, <1>9

\* After a copy of n sectors at the window's offset off, the next of the request.
LEMMA ProgressContinue ==
    ASSUME Types, PageInv, Types', PageInv', ~requestExit, Ordinary(request),
           NEW off \in Nat, NEW n \in Nat, 1 <= n, n <= bl, off + n <= 8,
           n = bl \/ off + n = 8, bl <= request.count,
           moved = Run(FirstLba(request), request.count - bl),
           Lba + off = FirstLba(request) + request.count - bl,
           Copy(off, n), Continue(n)
    PROVE  ProgressInv'
<1>. DEFINE first == FirstLba(request)
            count == request.count
            done  == count - bl
<1>1. first \in Nat /\ count \in Nat /\ 1 <= count /\ count <= 128
  BY FirstIs, SMT DEF Types
<1>2. /\ low \in Nat /\ low < Word /\ high \in Nat /\ high < Word /\ Lba \in Nat
      /\ bl \in Nat
  BY SMT DEF Types, Lba, Word
<1>3. window = Lba /\ Lba % 8 = 0
  BY DEF PageInv
<1>4. request' = request /\ bl' = bl - n
  BY DEF Continue
<1>5. moved' = moved \o Run(window + off, n)
  BY <1>2, <1>3, CopyIs
<1>6. FirstLba(request)' = first /\ Wanted(request)' = Wanted(request)
  BY <1>4 DEF FirstLba, Wanted
<1>7. /\ Lba + off = first + count - bl /\ moved = Run(first, done) /\ bl <= count
      /\ request.count = count /\ FirstLba(request) = first /\ done = count - bl
      /\ first \div Word = (first + count - 1) \div Word
  BY DEF Ordinary, CrossesWord
<1>. HIDE DEF first, count, done
<1>8. moved' = Run(first, count - bl')
  <2>1. done \in Nat /\ done + n = count - bl' /\ first \in Int
    BY <1>1, <1>2, <1>4, <1>7, SMT
  <2>2. window + off = first + done
    BY <1>1, <1>2, <1>3, <1>7, SMT
  <2>3. Run(first, done) \o Run(first + done, n) = Run(first, done + n)
    BY <2>1, RunsJoin
  <2>. QED
    BY <1>5, <1>7, <2>1, <2>2, <2>3
<1>9. CASE bl' = 0
  <2>1. moved' = Wanted(request)
    <3>1. count - bl' = count
      BY <1>1, <1>9
    <3>. QED
      BY <1>7, <1>8, <3>1, WantedIs
  <2>2. pc' = "idle"
    BY <1>9 DEF Continue
  <2>. QED
    BY <1>6, <2>1, <2>2 DEF ProgressInv
<1>10. CASE bl' # 0
  <2>1. pc' = "copyBlocks" /\ SelectLba((low + 8) % Word, (high + CarryOfLow) % Word)
    BY <1>10 DEF Continue, IncrementLBA
  <2>2. off + n = 8 /\ bl' \in 1..count
    BY <1>1, <1>2, <1>4, <1>7, <1>10, SMT
  <2>3. Lba + 8 = first + count - bl' /\ Lba + 8 <= first + count - 1 /\ first - 8 < Lba
    BY <1>1, <1>2, <1>4, <1>7, <2>2, SMT
  <2>4. (low + 8) % Word = low + 8 /\ high % Word = high
    <3>1. first + count - 1 \in Nat
      BY <1>1
    <3>. QED
      BY <1>1, <1>2, <1>3, <1>7, <2>3, <3>1, NextPage DEF Lba
  <2>5. low' = low + 8 /\ high' = high
    BY <1>2, <2>1, <2>4, SMT DEF SelectLba, CarryOfLow
  <2>6. Lba' = Lba + 8
    BY <1>2, <2>5, SMT DEF Lba, Word
  <2>. QED
    BY <1>4, <1>6, <1>7, <1>8, <2>1, <2>2, <2>3, <2>6 DEF ProgressInv
<1>. QED
  BY <1>9, <1>10

LEMMA ProgressStep == Types /\ PageInv /\ ProgressInv /\ [Next]_vars => ProgressInv'
<1>. SUFFICES ASSUME Types, PageInv, ProgressInv, [Next]_vars PROVE ProgressInv'
  OBVIOUS
<1>1. Types' /\ PageInv'
  BY WindowStep
<1>2. ASSUME ~requestExit, NEW r \in Requests, Begin(r) PROVE ProgressInv'
  BY <1>2, ProgressBegin, RequestsAssumption
<1>3. CASE ~requestExit /\ Transfer /\ Ordinary(request)
  <2>1. /\ FirstLba(request) \in Nat
        /\ request.count \in Nat /\ 1 <= request.count /\ request.count <= 128
        /\ FirstLba(request) % 8 \in Nat /\ FirstLba(request) % 8 < 8
    BY FirstIs, SplitIs DEF Types
  <2>2. Lba \in Nat
    BY SMT DEF Types, Lba, Word
  <2>3. CASE CopyFirst
    <3>. DEFINE al == FirstLba(request) % 8
                first == FirstLba(request)
    <3>1. pc = "copyFirst" /\ Copy(al, FirstPart) /\ Continue(FirstPart)
      BY <2>3, CopyFirstIs
    <3>2. bl = request.count /\ moved = <<>> /\ al # 0 /\ Lba = first - al
      BY <1>3, <3>1 DEF ProgressInv
    <3>3. bl < 128
      BY <1>3, <2>1, <3>2 DEF Ordinary, LongUnaligned
    <3>4. /\ FirstPart \in Nat /\ FirstPart <= bl /\ FirstPart <= 8 - al
          /\ FirstPart = bl \/ FirstPart = 8 - al
      BY <3>3, FirstPartIs
    <3>. HIDE DEF al, first
    <3>5. al \in Nat /\ al < 8 /\ first \in Nat
      BY <2>1 DEF al, first
    <3>6. 1 <= FirstPart /\ al + FirstPart <= 8 /\ (FirstPart = bl \/ al + FirstPart = 8)
      BY <2>1, <3>2, <3>4, <3>5
    <3>7. moved = Run(first, request.count - bl)
      <4>1. request.count - bl = 0
        BY <2>1, <3>2
      <4>. QED
        BY <3>2, <4>1 DEF Run
    <3>8. Lba + al = first + request.count - bl
      BY <2>1, <3>2, <3>5
    <3>. QED
      BY <1>1, <1>3, <2>1, <3>1, <3>2, <3>4, <3>5, <3>6, <3>7, <3>8, ProgressContinue DEF first
  <2>4. ASSUME pc = "copyBlocks", NEW n \in Nat, 1 <= n, n <= bl, n <= 8, n = bl \/ n = 8,
               Copy(0, n), Continue(n)
        PROVE  ProgressInv'
    <3>1. /\ bl \in 1..request.count /\ moved = Run(FirstLba(request), request.count - bl)
          /\ Lba = FirstLba(request) + request.count - bl
      BY <1>3, <2>4 DEF ProgressInv
    <3>2. Lba + 0 = FirstLba(request) + request.count - bl /\ 0 + n <= 8 /\ (n = bl \/ 0 + n = 8)
      BY <2>2, <2>4, <3>1
    <3>. QED
      BY <1>1, <1>3, <2>1, <2>4, <3>1, <3>2, ProgressContinue
  <2>5. CASE CopyBlock
    <3>1. bl \in Nat
      BY DEF Types
    <3>. QED
      BY <2>4, <2>5, <3>1 DEF CopyBlock
  <2>6. CASE CopyLast
    <3>1. pc = "copyBlocks" /\ bl < 8 /\ Copy(0, bl) /\ Continue(bl)
      BY <2>6 DEF CopyLast
    <3>2. bl \in 1..request.count
      BY <1>3, <3>1 DEF ProgressInv
    <3>. QED
      BY <2>1, <2>4, <3>1, <3>2
  <2>. QED
    BY <1>3, <2>3, <2>5, <2>6 DEF Transfer
<1>4. CASE ~requestExit /\ Transfer /\ ~Ordinary(request)
  <2>1. request' = request
    BY <1>4 DEF Transfer, CopyFirst, CopyBlock, CopyLast, Continue
  <2>. QED
    BY <1>4, <2>1 DEF ProgressInv, Ordinary, CrossesWord, LongUnaligned, FirstLba
<1>5. CASE UNCHANGED vars
  BY <1>5 DEF vars, disk, ProgressInv, Lba, Ordinary, CrossesWord, LongUnaligned, FirstLba, Wanted
<1>. QED
  BY <1>2, <1>3, <1>4, <1>5 DEF Next

-----------------------------------------------------------------------------
\* The window always shows the page that the LBA registers select, a page of the file,
\* until mapping one has failed (main.cpp:203-222, 736-781).
THEOREM WindowCorrect == Spec => [](Types /\ PageInv)
<1>1. Init => Types /\ PageInv
  BY WindowInit
<1>2. Types /\ PageInv /\ [Next]_vars => (Types /\ PageInv)'
  BY WindowStep
<1>. QED
  BY <1>1, <1>2, PTL DEF Spec

\* A call moves exactly the sectors asked for, in order, whatever calls came before it and
\* however it is split over pages, but for a call across a multiple of 65536 sectors and a
\* call of 128 sectors from the middle of a page (virtual-disk.asm:200-294).
THEOREM TransferExactCorrect == Spec => []TransferExact
<1>1. Init => ProgressInv
  BY ProgressInit
<1>2. Types /\ PageInv /\ ProgressInv /\ [Next]_vars => ProgressInv'
  BY ProgressStep
<1>3. ProgressInv => TransferExact
  BY DEF ProgressInv, TransferExact, Finished, Ordinary
<1>. QED
  BY <1>1, <1>2, <1>3, WindowCorrect, PTL DEF Spec

=============================================================================
