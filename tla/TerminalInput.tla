--------------------------- MODULE TerminalInput ---------------------------
(***************************************************************************)
(* What a guest may expect of its serial port's receiver: the terminal's   *)
(* bytes, numbered 1, 2, 3, ..., are taken one at a time, in order, none   *)
(* left out and none twice, and each byte that arrived is taken some day.  *)
(***************************************************************************)
EXTENDS Naturals

CONSTANT MaxBytes

VARIABLES arrived,   \* the number of bytes the terminal has sent
          taken      \* the last of them the guest has been given

Init == arrived = 0 /\ taken = 0

\* Any number of bytes arrives at once.
Arrive == /\ arrived' \in (arrived + 1)..MaxBytes
          /\ UNCHANGED taken

Take == /\ taken < arrived
        /\ taken' = taken + 1
        /\ UNCHANGED arrived

Next == Arrive \/ Take

Spec == Init /\ [][Next]_<<arrived, taken>>

FairSpec == Spec /\ WF_<<arrived, taken>>(Take)
=============================================================================
