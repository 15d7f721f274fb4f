---------------------------- MODULE SunSpecScan -----------------------------
(***************************************************************************)
(* The "sunspec" strategy: probe the candidate base addresses for the      *)
(* SunSpec marker, then follow the chain of models behind it: read the     *)
(* header of a model (an ID and a length), then its body block by block.   *)
(*                                                                         *)
(* The contents of a marker or a header are chosen when they are read: the *)
(* device may hold anything there, and change it.                          *)
(***************************************************************************)
EXTENDS ScanLoop

CONSTANT SunSpecChoices  (* what --sunspec-* may ask for, as in SearchingScan *)

VARIABLES
  phase,                 (* "detect", "walk" or "done"                     *)
  choice,
  baseIndex, baseAddr,   (* the candidate being probed, the base found     *)
  currentAddr,           (* the next header                                *)
  modelCount,
  body                   (* what is left to read of the body of a model    *)

strategyVars == <<phase, choice, baseIndex, baseAddr, currentAddr, modelCount, body>>
vars == <<loopVars, strategyVars>>

NoBody == [addr |-> 0, left |-> 0]
ReadingBody == body.left > 0

TypeOK ==
  /\ LoopTypeOK
  /\ phase \in {"detect", "walk", "done"}
  /\ choice \in SunSpecChoices
  /\ baseIndex \in 1 .. Len(choice.bases) + 1
  /\ baseAddr \in Addr /\ currentAddr \in Addr
  /\ modelCount \in 0 .. choice.maxModels
  /\ body \in [addr : Addr, left : Addr]

(* Faulty forms of the definitions below: the faults the properties catch. *)
ChunkOfLength == body.left
AlwaysMore == TRUE
-----------------------------------------------------------------------------
\* A base that is given is not probed.
Init ==
  /\ LoopInit
  /\ choice \in SunSpecChoices
  /\ baseIndex = 1
  /\ IF choice.base > 0
     THEN phase = "walk" /\ baseAddr = choice.base /\ currentAddr = choice.base + 2
     ELSE phase = "detect" /\ baseAddr = 0 /\ currentAddr = 0
  /\ modelCount = 0 /\ body = NoBody

Chunk == IF body.left < MaxBlock THEN body.left ELSE MaxBlock

\* The limits on the walk; the distance from the base wraps at 16 bits.
MoreModels ==
  /\ modelCount < choice.maxModels
  /\ choice.maxSpan > 0 => Wrap(currentAddr - baseAddr) <= choice.maxSpan

IssueRead ==
  /\ \/ phase = "detect" /\ Issue(Read(choice.bases[baseIndex], 2))
     \/ phase = "walk" /\ ReadingBody /\ Issue(Read(body.addr, Chunk))
     \/ phase = "walk" /\ ~ReadingBody /\ MoreModels /\ Issue(Read(currentAddr, 2))
  /\ UNCHANGED strategyVars

\* Next() has no task any more, or Done().
Stop ==
  /\ \/ phase = "walk" /\ ~ReadingBody /\ ~MoreModels
     \/ phase = "done"
  /\ Leave
  /\ phase' = "done"
  /\ UNCHANGED <<choice, baseIndex, baseAddr, currentAddr, modelCount, body>>

MarkerFound ==
  /\ phase = "detect" /\ Answered
  /\ phase' = "walk"
  /\ baseAddr' = task.start /\ currentAddr' = Wrap(task.start + 2)
  /\ UNCHANGED <<choice, baseIndex, modelCount, body>>

MarkerMissing ==
  /\ phase = "detect" /\ (Answered \/ Refused)
  /\ baseIndex' = baseIndex + 1
  /\ phase' = IF baseIndex' > Len(choice.bases) THEN "done" ELSE "detect"
  /\ UNCHANGED <<choice, baseAddr, currentAddr, modelCount, body>>

\* The header of a model of n registers whose successor has an address.
HeaderAt(n) ==
  /\ phase = "walk" /\ ~ReadingBody /\ Answered
  /\ currentAddr + 2 + n <= AddrMax
  /\ body' = [addr |-> currentAddr + 2, left |-> n]
  /\ currentAddr' = currentAddr + 2 + n
  /\ modelCount' = modelCount + 1
  /\ UNCHANGED <<phase, choice, baseIndex, baseAddr>>

\* The end model, a length of 0, a model past the last address, or a refusal.
ChainEnds ==
  /\ phase = "walk" /\ ~ReadingBody /\ (Answered \/ Refused)
  /\ phase' = "done"
  /\ UNCHANGED <<choice, baseIndex, baseAddr, currentAddr, modelCount, body>>

BodyResult ==
  /\ phase = "walk" /\ ReadingBody
  /\ \/ /\ Answered
        /\ body' = [addr |-> body.addr + task.count, left |-> body.left - task.count]
        /\ UNCHANGED phase
     \/ Refused /\ phase' = "done" /\ UNCHANGED body
  /\ UNCHANGED <<choice, baseIndex, baseAddr, currentAddr, modelCount>>

Next == \/ IssueRead \/ Stop \/ MarkerFound \/ MarkerMissing
        \/ (\E n \in 1 .. AddrMax : HeaderAt(n)) \/ ChainEnds \/ BodyResult

Spec == Init /\ [][Next]_vars
FairSpec == Spec /\ WF_vars(Next)
-----------------------------------------------------------------------------
\* The chain has no gap: everything from the first header to the next register
\* to read was captured, and the body in progress ends at the next header.
\* (A marker at the last two addresses makes the chain go on at address 0.)
ChainIsCaptured ==
  phase = "walk" =>
    /\ Wrap(baseAddr + 2) .. (IF ReadingBody THEN body.addr ELSE currentAddr) - 1 \subseteq captured
    /\ ReadingBody => body.addr + body.left = currentAddr

\* Bodies stay inside their model and no read is longer than one may be; only
\* a marker or a header at the last address asks for more than there is.
ReadsStayInSpace ==
  task # NoTask =>
    IF ReadingBody
    THEN LastOf(task) < currentAddr /\ task.count <= MaxBlock
    ELSE LastOf(task) <= AddrMax \/ task = Read(AddrMax, 2)

\* ALGOS.md 8: B base probes and M headers, each with the blocks of its body.
Blocks(n) == (n + MaxBlock - 1) \div MaxBlock
ReadsBounded ==
  requests <= Len(choice.bases) + choice.maxModels * (1 + Blocks(AddrMax - 2))
=============================================================================
