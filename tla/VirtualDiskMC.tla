--------------------------- MODULE VirtualDiskMC ---------------------------
(* Calls for VirtualDisk around the places where a transfer can go wrong. *)
EXTENDS VirtualDisk

\* Sectors 0, 3, 7 and 8 of the disk, three around sector 65536 (cylinder 4, head 20,
\* sector 17), and one near the disk's end.
Starts == {<<0, 0, 1>>, <<0, 0, 4>>, <<0, 0, 8>>, <<0, 0, 9>>, <<4, 20, 8>>,
           <<4, 20, 16>>, <<4, 20, 17>>, <<31, 254, 40>>}

Calls(starts, counts) ==
    {[cylinder |-> s[1], head |-> s[2], sector |-> s[3], count |-> n] : s \in starts, n \in counts}

AllCalls == Calls(Starts, {1, 2, 7, 8, 9, 16, 17, 127, 128})
CrossingCalls == Calls({<<4, 20, 8>>, <<4, 20, 16>>}, {1, 2, 16})
=============================================================================
