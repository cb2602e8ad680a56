--------------------------- MODULE NonVolatileRam ---------------------------
(* What a guest expects of battery-backed memory: a byte it has written stays,  *)
(* over any number of power cycles.  One within a write leaves that byte old or *)
(* new, or empties the memory; after a store that has failed it may leave       *)
(* anything, until a store succeeds.                                            *)
EXTENDS Naturals

CONSTANTS Cells   \* the bytes of the memory
VARIABLES bytes, state

Init == bytes = [i \in Cells |-> 0] /\ state = "stored"

ChangesOne == \E i \in Cells : bytes' = [bytes EXCEPT ![i] = bytes'[i]]

Write == /\ state' = IF state = "failed" THEN "failed" ELSE "storing"
         /\ ChangesOne

Store == state' = "stored" /\ UNCHANGED bytes

Fail == state # "stored" /\ state' = "failed" /\ UNCHANGED bytes

Lose == /\ state # "stored" /\ state' = "stored"
        /\ \/ bytes' = [i \in Cells |-> 0]
           \/ state = "failed" /\ DOMAIN bytes' = Cells
           \/ ChangesOne

Spec == Init /\ [][Write \/ Store \/ Fail \/ Lose]_<<bytes, state>>

=============================================================================
