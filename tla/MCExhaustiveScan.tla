-------------------------- MODULE MCExhaustiveScan --------------------------
(***************************************************************************)
(* ExhaustiveScan on a range of a few registers that ends at the top of    *)
(* the address space, with blocks of 4, 2 and 1.  RefinementCap is below   *)
(* the refinement reads some devices cause and above those of others.      *)
(* The settings of the searching strategies play no part.                  *)
(***************************************************************************)
EXTENDS ExhaustiveScan

MCSafeSizes == {1, 2, 4}
MCRefinementCounts == {1, 2}
MCNoSizes == <<>>
MCNoSeeds == {}

\* A lossy device that has every register behaves as any lossy device may.
MCInit == Init /\ (device.lossy => device.readable = Addr)
MCSpec == MCInit /\ [][Next]_vars /\ WF_vars(Next)
=============================================================================
