---------------------------- MODULE BoundaryScan ----------------------------
(***************************************************************************)
(* The "boundary" strategy: from a seed block known to be readable, find   *)
(* the whole contiguous block around it.  On each side it expands with     *)
(* growing reads until one fails or the sizes run out, then binary-        *)
(* searches the edge in windows of at most MaxBlock registers.             *)
(*                                                                         *)
(* Next() is a loop over phases; each of its turns is one action here,     *)
(* and only Issue (a read) and Leave end it.  Positions are 32 bits wide   *)
(* in the program and do not wrap.                                         *)
(***************************************************************************)
EXTENDS ScanLoop, Sequences

VARIABLES
  phase,
  seedEmitted,
  blockStart, blockEnd,           (* [blockStart, blockEnd) is readable      *)
  leftExpandIdx, rightExpandIdx,  (* expansion reads handed out on each side *)
  left,   (* binary search for the left edge: low, high, floor of the window *)
  right   (* ... and for the right edge: low, high, ceil of the window       *)

strategyVars == <<phase, seedEmitted, blockStart, blockEnd,
                  leftExpandIdx, rightExpandIdx, left, right>>
vars == <<loopVars, strategyVars>>

Phases == {"seed", "leftExpand", "leftBinary", "rightExpand", "rightBinary", "done"}
Position == 0 .. AddrMax + 1

TypeOK ==
  /\ LoopTypeOK
  /\ phase \in Phases
  /\ seedEmitted \in BOOLEAN
  /\ blockStart \in Position /\ blockEnd \in Position
  /\ leftExpandIdx \in 0 .. Len(BoundarySizes)
  /\ rightExpandIdx \in 0 .. Len(BoundarySizes)
  /\ left \in [low : Position, high : Position, floor : Position]
  /\ right \in [low : Position, high : Position, ceil : Position]

(* Faulty forms of the definitions below: the faults the properties catch. *)
LeftWindowUnclamped == blockStart - MaxBlock
LeftWindowReadable == FALSE
RightAfterFailureStuck(to) == to - 1
-----------------------------------------------------------------------------
Between(from, to) == Read(from, to - from)

\* The seed must be a legal read that lies inside the range.
IsUsable(seed) ==
  /\ seed.count \in 1 .. MaxBlock
  /\ seed.start >= StartAddress
  /\ LastOf(seed) <= EndAddress

Init ==
  /\ LoopInit
  /\ \E seed \in Seeds :
       /\ phase = IF IsUsable(seed) THEN "seed" ELSE "done"
       /\ blockStart = seed.start
       /\ blockEnd = seed.start + seed.count
  /\ seedEmitted = FALSE
  /\ leftExpandIdx = 0 /\ rightExpandIdx = 0
  /\ left = [low |-> 0, high |-> 0, floor |-> 0]
  /\ right = [low |-> 0, high |-> 0, ceil |-> 0]

EmitSeed ==
  /\ phase = "seed" /\ ~seedEmitted
  /\ Issue(Between(blockStart, blockEnd))
  /\ seedEmitted' = TRUE
  /\ UNCHANGED <<phase, blockStart, blockEnd, leftExpandIdx, rightExpandIdx, left, right>>

SeedDone ==
  /\ Idle /\ phase = "seed" /\ seedEmitted
  /\ phase' = "leftExpand"
  /\ UNCHANGED <<loopVars, seedEmitted, blockStart, blockEnd,
                 leftExpandIdx, rightExpandIdx, left, right>>

LeftFloor == IF blockStart - StartAddress > MaxBlock
             THEN blockStart - MaxBlock ELSE StartAddress

OpenLeftWindow ==
  /\ phase' = "leftBinary"
  /\ left' = [low |-> LeftFloor, high |-> blockStart, floor |-> LeftFloor]
  /\ UNCHANGED <<loopVars, seedEmitted, blockStart, blockEnd,
                 leftExpandIdx, rightExpandIdx, right>>

LeftExpandOver ==
  /\ Idle /\ phase = "leftExpand"
  /\ leftExpandIdx >= Len(BoundarySizes) \/ blockStart <= StartAddress
  /\ OpenLeftWindow

ExpandFrom(size) == IF blockStart - StartAddress > size
                    THEN blockStart - size ELSE StartAddress

LeftExpand ==
  /\ phase = "leftExpand"
  /\ leftExpandIdx < Len(BoundarySizes) /\ blockStart > StartAddress
  /\ leftExpandIdx' = leftExpandIdx + 1
  /\ Issue(Between(ExpandFrom(BoundarySizes[leftExpandIdx']), blockStart))
  /\ UNCHANGED <<phase, seedEmitted, blockStart, blockEnd, rightExpandIdx, left, right>>

\* The whole window was readable and the range goes on below it.
LeftWindowUsedUp == blockStart = left.floor /\ blockStart > StartAddress

NextLeftWindow ==
  /\ Idle /\ phase = "leftBinary"
  /\ left.low >= left.high /\ LeftWindowUsedUp
  /\ OpenLeftWindow

LeftEdgeFound ==
  /\ Idle /\ phase = "leftBinary"
  /\ left.low >= left.high /\ ~LeftWindowUsedUp
  /\ phase' = "rightExpand"
  /\ UNCHANGED <<loopVars, seedEmitted, blockStart, blockEnd,
                 leftExpandIdx, rightExpandIdx, left, right>>

LeftSearch ==
  /\ phase = "leftBinary" /\ left.low < left.high
  /\ Issue(Between((left.low + left.high) \div 2, blockStart))
  /\ UNCHANGED strategyVars

OpenRightWindow ==
  LET ceil == IF blockEnd + MaxBlock - 1 < EndAddress
              THEN blockEnd + MaxBlock - 1 ELSE EndAddress
  IN /\ phase' = "rightBinary"
     /\ right' = [low |-> blockEnd, high |-> ceil, ceil |-> ceil]
     /\ UNCHANGED <<loopVars, seedEmitted, blockStart, blockEnd,
                    leftExpandIdx, rightExpandIdx, left>>

Conclude ==
  /\ phase' = "done"
  /\ UNCHANGED <<loopVars, seedEmitted, blockStart, blockEnd,
                 leftExpandIdx, rightExpandIdx, left, right>>

RightExpandOver ==
  /\ Idle /\ phase = "rightExpand"
  /\ rightExpandIdx >= Len(BoundarySizes) \/ blockEnd > EndAddress
  /\ IF blockEnd <= EndAddress THEN OpenRightWindow ELSE Conclude

ExpandTo(size) == IF EndAddress + 1 - blockEnd > size
                  THEN blockEnd + size ELSE EndAddress + 1

RightExpand ==
  /\ phase = "rightExpand"
  /\ rightExpandIdx < Len(BoundarySizes) /\ blockEnd <= EndAddress
  /\ rightExpandIdx' = rightExpandIdx + 1
  /\ Issue(Between(blockEnd, ExpandTo(BoundarySizes[rightExpandIdx'])))
  /\ UNCHANGED <<phase, seedEmitted, blockStart, blockEnd, leftExpandIdx, left, right>>

RightSearchOver ==
  /\ Idle /\ phase = "rightBinary" /\ right.low > right.high
  /\ IF blockEnd = right.ceil + 1 /\ blockEnd <= EndAddress
     THEN OpenRightWindow ELSE Conclude

RightSearch ==
  /\ phase = "rightBinary" /\ right.low <= right.high
  /\ Issue(Between(blockEnd, (right.low + right.high) \div 2 + 1))
  /\ UNCHANGED strategyVars

Finish == phase = "done" /\ Leave /\ UNCHANGED strategyVars

SeedResult ==
  /\ phase = "seed"
  /\ \/ Answered /\ UNCHANGED phase
     \/ Refused /\ phase' = "done"
  /\ UNCHANGED <<seedEmitted, blockStart, blockEnd, leftExpandIdx, rightExpandIdx, left, right>>

LeftAfterFailure(from) == from + 1

LeftExpandResult ==
  /\ phase = "leftExpand"
  /\ \/ Answered /\ blockStart' = task.start /\ UNCHANGED <<phase, left>>
     \/ /\ Refused
        /\ phase' = "leftBinary"
        /\ left' = [low |-> LeftAfterFailure(task.start), high |-> blockStart, floor |-> task.start]
        /\ UNCHANGED blockStart
  /\ UNCHANGED <<seedEmitted, blockEnd, leftExpandIdx, rightExpandIdx, right>>

LeftBinaryResult ==
  /\ phase = "leftBinary"
  /\ \/ /\ Answered
        /\ blockStart' = task.start
        /\ left' = [left EXCEPT !.high = task.start]
     \/ /\ Refused
        /\ left' = [left EXCEPT !.low = LeftAfterFailure(task.start)]
        /\ UNCHANGED blockStart
  /\ UNCHANGED <<phase, seedEmitted, blockEnd, leftExpandIdx, rightExpandIdx, right>>

\* The failed read ended before to: to - 1 is no candidate any more.
RightAfterFailure(to) == to - 2

RightExpandResult ==
  LET to == task.start + task.count
  IN /\ phase = "rightExpand"
     /\ \/ Answered /\ blockEnd' = to /\ UNCHANGED <<phase, right>>
        \/ /\ Refused
           /\ phase' = "rightBinary"
           /\ right' = [low |-> blockEnd, high |-> RightAfterFailure(to), ceil |-> to - 1]
           /\ UNCHANGED blockEnd
     /\ UNCHANGED <<seedEmitted, blockStart, leftExpandIdx, rightExpandIdx, left>>

RightBinaryResult ==
  LET to == task.start + task.count
  IN /\ phase = "rightBinary"
     /\ \/ /\ Answered
           /\ blockEnd' = to
           /\ right' = [right EXCEPT !.low = to]
        \/ /\ Refused
           /\ right' = [right EXCEPT !.high = RightAfterFailure(to)]
           /\ UNCHANGED blockEnd
     /\ UNCHANGED <<phase, seedEmitted, blockStart, leftExpandIdx, rightExpandIdx, left>>

Next == \/ EmitSeed \/ SeedDone \/ SeedResult
        \/ LeftExpand \/ LeftExpandOver \/ LeftExpandResult
        \/ LeftSearch \/ NextLeftWindow \/ LeftEdgeFound \/ LeftBinaryResult
        \/ RightExpand \/ RightExpandOver \/ RightExpandResult
        \/ RightSearch \/ RightSearchOver \/ RightBinaryResult
        \/ Finish

Spec == Init /\ [][Next]_vars
FairSpec == Spec /\ WF_vars(Next)
-----------------------------------------------------------------------------
\* What the strategy takes for the block has been read, every register of it,
\* whatever the device refuses in between.
BlockIsCaptured ==
  phase \notin {"seed", "done"} => blockStart .. blockEnd - 1 \subseteq captured

\* "Grows a known-good seed read into the full contiguous block around it":
\* on a device that answers what it can, a scan that got past its seed ends
\* with a block no neighbour of which is readable in the range.
BlockIsMaximal ==
  finished /\ captured # {} /\ ~device.lossy =>
    /\ blockStart .. blockEnd - 1 \subseteq readable
    /\ blockStart > StartAddress => blockStart - 1 \notin readable
    /\ blockEnd <= EndAddress => blockEnd \notin readable
=============================================================================
