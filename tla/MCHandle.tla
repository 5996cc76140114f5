------------------------------ MODULE MCHandle -------------------------------
(* A disk with two partitions, one registration for each protocol. *)
EXTENDS HandleProps
CONSTANTS disk, part1, part2, r1, r2
Handles      == {disk, part1, part2}
PartitionsOf == [h \in Handles |-> IF h = disk THEN {part1, part2} ELSE {}]
PathLengths  == [h \in Handles |-> IF h = disk THEN 1 ELSE 2]
Regs         == {r1, r2}
RegGuids     == [r \in Regs |-> IF r = r1 THEN BlockIo ELSE DiskIo]
=============================================================================
