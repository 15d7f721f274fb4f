----------------------------- MODULE MCCommands -----------------------------
(***************************************************************************)
(* Every command, with the fewest repetitions that tell them apart: two    *)
(* units, two plan requests, two polls, and sixteen addresses of which     *)
(* overlapping subnets of every size that discovery treats differently     *)
(* take a part, or all.                                                    *)
(***************************************************************************)
EXTENDS Commands

MCCommands == {"read", "decode", "diagnostic", "reset", "write", "poll", "record", "fingerprint",
               "detect", "models", "map", "probe", "scan", "identify", "serve", "export", "discover"}

Cidr(first, bits) == [first |-> first, bits |-> bits]

\* A host and a pair; a large subnet and a smaller one inside it; the last; all.
MCSubnetLists == {<<Cidr(3, 4), Cidr(2, 3)>>, <<Cidr(4, 2), Cidr(4, 3), Cidr(6, 4)>>, <<Cidr(8, 1)>>,
                  <<Cidr(2, 3), Cidr(0, 0)>>}
MCDeviceSets == {{2, 3, 6}, {5, 6, 8, 14, 15}}

\* The order of texts: 10 to 15 come after 1 and before 2.
MCRank == [a \in 0 .. 15 |-> IF a < 2 THEN a ELSE IF a < 10 THEN a + 6 ELSE a - 8]
=============================================================================
