-------------------------- MODULE MCSearchingScan ---------------------------
(***************************************************************************)
(* SearchingScan on a range of nine registers and reads of at most three,  *)
(* so that a block can be longer than the expansion and several search     *)
(* windows on either side of the seed, and a step needs several blocks.    *)
(* The settings of the exhaustive strategies play no part.                 *)
(***************************************************************************)
EXTENDS SearchingScan

MCBoundarySizes == <<1>>
MCSeeds == {[start |-> 4, count |-> 1], [start |-> 6, count |-> 1], [start |-> 8, count |-> 3]}
MCSteppedSizes == <<3, 2>>
MCSafeSizes == {1}
MCRefinementCounts == {1}
MCSunSpecChoices ==
  [base : {0}, bases : {<<10, 0, 3>>, <<11, 2>>}, maxModels : {1, 3}, maxSpan : {0, 4}]
    \cup [base : {1, 9}, bases : {<<0>>}, maxModels : {4}, maxSpan : {0, 5}]

\* Registers no read can reach are left out; a lossy device has those of the
\* middle, and may answer or refuse any read of them.  sunspec is not bound to
\* the range and meets a lossy device with every register.
MCInit ==
  /\ Init
  /\ IF algo = "sunspec"
     THEN device = [readable |-> Addr, lossy |-> TRUE]
     ELSE /\ device.readable \subseteq 0 .. EndAddress + 1
          /\ device.lossy => device.readable = 4 .. 8
MCSpec == MCInit /\ [][Next]_vars /\ WF_vars(Next)
=============================================================================
