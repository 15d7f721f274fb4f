----------------------------- MODULE LinearScan -----------------------------
(***************************************************************************)
(* The "linear" strategy: probe blocks of MaxBlock registers; after a      *)
(* failed one, a success is extended backward by binary search; then read  *)
(* forward block by block and find the end of the block by binary search.  *)
(*                                                                         *)
(* Next() calls itself when it changes phase without a read; each of those *)
(* turns is an action here.  Positions are 32 bits wide and do not wrap.   *)
(***************************************************************************)
EXTENDS ScanLoop

VARIABLES
  phase,
  done,                (* Next() ran off the range                         *)
  probeStart,          (* next block to probe                              *)
  hadProbeFailure,     (* the previous block could not be read             *)
  blockStart, blockEnd,  (* the block being followed, blockEnd exclusive   *)
  origin,              (* originalBlockStart: where the probe succeeded    *)
  search,              (* backward or tail binary search: low, high, best  *)
  gapProbe,            (* "none", "pending" or "inFlight"                  *)
  gapProbeAddr

strategyVars == <<phase, done, probeStart, hadProbeFailure, blockStart, blockEnd,
                  origin, search, gapProbe, gapProbeAddr>>
vars == <<loopVars, strategyVars>>

Position == 0 .. AddrMax + 1 + MaxBlock

TypeOK ==
  /\ LoopTypeOK
  /\ phase \in {"probe", "backward", "forward", "tail"}
  /\ done \in BOOLEAN
  /\ probeStart \in Position /\ blockStart \in Position /\ blockEnd \in Position
  /\ hadProbeFailure \in BOOLEAN
  /\ origin \in Position
  /\ search \in [low : 0 .. MaxBlock + 1, high : 0 .. MaxBlock, best : 0 .. MaxBlock]
  /\ gapProbe \in {"none", "pending", "inFlight"}
  /\ gapProbeAddr \in Position

(* Faulty forms of the definitions below: the faults the properties catch. *)
BlockAtUnclamped(a) == MaxBlock
SearchKeepsBest(high) == [low |-> 1, high |-> high, best |-> search.best]
-----------------------------------------------------------------------------
\* A block of MaxBlock registers at a, cut off at the end of the range.
Least(x, y) == IF x < y THEN x ELSE y
BlockAt(a) == Least(MaxBlock, EndAddress - a + 1)

Init ==
  /\ LoopInit
  /\ phase = "probe" /\ done = FALSE
  /\ probeStart = StartAddress
  /\ hadProbeFailure = FALSE
  /\ blockStart = 0 /\ blockEnd = 0 /\ origin = 0
  /\ search = [low |-> 0, high |-> 0, best |-> 0]
  /\ gapProbe = "none" /\ gapProbeAddr = 0

IssueGapProbe ==
  /\ phase = "probe" /\ gapProbe = "pending"
  /\ Issue(Read(gapProbeAddr, 1))
  /\ gapProbe' = "inFlight"
  /\ UNCHANGED <<phase, done, probeStart, hadProbeFailure, blockStart, blockEnd,
                 origin, search, gapProbeAddr>>

IssueProbe ==
  /\ phase = "probe" /\ gapProbe = "none" /\ probeStart <= EndAddress
  /\ Issue(Read(probeStart, BlockAt(probeStart)))
  /\ UNCHANGED strategyVars

\* Next() has no task any more, and the loop ends.
RunOff ==
  /\ phase = "probe" /\ gapProbe = "none" /\ probeStart > EndAddress
  /\ done' = TRUE
  /\ Leave
  /\ UNCHANGED <<phase, probeStart, hadProbeFailure, blockStart, blockEnd,
                 origin, search, gapProbe, gapProbeAddr>>

GapProbeResult ==
  /\ phase = "probe" /\ gapProbe = "inFlight"
  /\ Answered \/ Refused
  /\ gapProbe' = "none"
  /\ UNCHANGED <<phase, done, probeStart, hadProbeFailure, blockStart, blockEnd,
                 origin, search, gapProbeAddr>>

\* A binary search for the largest count that is answered starts.
NewSearch(high) == [low |-> 1, high |-> high, best |-> 0]

\* Registers the backward search from a may cover.
BackwardWindow(a) == Least(a - StartAddress, MaxBlock)

ProbeSuccess ==
  /\ phase = "probe" /\ gapProbe # "inFlight"
  /\ Answered
  /\ blockEnd' = probeStart + task.count
  /\ IF hadProbeFailure
     THEN /\ phase' = "backward"
          /\ origin' = probeStart
          /\ search' = NewSearch(BackwardWindow(probeStart))
          /\ UNCHANGED blockStart
     ELSE /\ phase' = "forward"
          /\ blockStart' = probeStart
          /\ UNCHANGED <<origin, search>>
  /\ UNCHANGED <<done, probeStart, hadProbeFailure, gapProbe, gapProbeAddr>>

ProbeFailure ==
  /\ phase = "probe" /\ gapProbe # "inFlight"
  /\ Refused
  /\ hadProbeFailure' = TRUE
  /\ probeStart' = probeStart + MaxBlock
  /\ UNCHANGED <<phase, done, blockStart, blockEnd, origin, search, gapProbe, gapProbeAddr>>

Mid == (search.low + search.high) \div 2
SearchIsOver == search.low > search.high

\* Next() drops the middle without reading it.
Narrow(high) ==
  Idle /\ search' = [search EXCEPT !.high = high] /\ UNCHANGED loopVars

BackwardOver ==
  /\ Idle /\ phase = "backward" /\ SearchIsOver
  /\ blockStart' = origin - search.best
  /\ phase' = "forward"
  /\ UNCHANGED <<loopVars, done, probeStart, hadProbeFailure, blockEnd,
                 origin, search, gapProbe, gapProbeAddr>>

\* A read never starts below the range: Next() narrows the search instead.
BackwardSearch ==
  /\ phase = "backward" /\ ~SearchIsOver
  /\ IF origin - Mid < StartAddress
     THEN Narrow(Mid - 1)
     ELSE Issue(Read(origin - Mid, Mid)) /\ UNCHANGED search
  /\ UNCHANGED <<phase, done, probeStart, hadProbeFailure, blockStart, blockEnd,
                 origin, gapProbe, gapProbeAddr>>

\* One step of either binary search: the largest count that is answered.
HighAfter(n) == IF n > 1 THEN n - 1 ELSE 0

SearchResult ==
  /\ phase \in {"backward", "tail"}
  /\ \/ /\ Answered
        /\ search' = [search EXCEPT !.best = task.count, !.low = task.count + 1]
     \/ /\ Refused
        /\ search' = [search EXCEPT !.high = HighAfter(task.count)]
  /\ UNCHANGED <<phase, done, probeStart, hadProbeFailure, blockStart, blockEnd,
                 origin, gapProbe, gapProbeAddr>>

Forward ==
  /\ phase = "forward" /\ blockEnd <= EndAddress
  /\ Issue(Read(blockEnd, BlockAt(blockEnd)))
  /\ UNCHANGED strategyVars

ForwardOver ==
  /\ Idle /\ phase = "forward" /\ blockEnd > EndAddress
  /\ probeStart' = blockEnd
  /\ phase' = "probe"
  /\ hadProbeFailure' = FALSE
  /\ UNCHANGED <<loopVars, done, blockStart, blockEnd, origin, search, gapProbe, gapProbeAddr>>

ForwardSuccess ==
  /\ phase = "forward" /\ Answered
  /\ blockEnd' = blockEnd + task.count
  /\ UNCHANGED <<phase, done, probeStart, hadProbeFailure, blockStart,
                 origin, search, gapProbe, gapProbeAddr>>

ForwardFailure ==
  /\ phase = "forward" /\ Refused
  /\ phase' = "tail"
  /\ search' = NewSearch(BlockAt(blockEnd))
  /\ UNCHANGED <<done, probeStart, hadProbeFailure, blockStart, blockEnd,
                 origin, gapProbe, gapProbeAddr>>

\* ... nor does it end past it.  (low is at least 1, so Mid is too.)
TailSearch ==
  /\ phase = "tail" /\ ~SearchIsOver
  /\ IF Mid > EndAddress - blockEnd + 1
     THEN Narrow(Mid - 1)
     ELSE Issue(Read(blockEnd, Mid)) /\ UNCHANGED search
  /\ UNCHANGED <<phase, done, probeStart, hadProbeFailure, blockStart, blockEnd,
                 origin, gapProbe, gapProbeAddr>>

AfterTail == IF search.best > 0 THEN blockEnd + search.best ELSE blockEnd + MaxBlock
GapAddr == blockEnd

TailOver ==
  /\ Idle /\ phase = "tail" /\ SearchIsOver
  /\ probeStart' = AfterTail
  /\ IF probeStart' > blockEnd + 1
     THEN gapProbe' = "pending" /\ gapProbeAddr' = GapAddr
     ELSE UNCHANGED <<gapProbe, gapProbeAddr>>
  /\ phase' = "probe"
  /\ hadProbeFailure' = FALSE
  /\ UNCHANGED <<loopVars, done, blockStart, blockEnd, origin, search>>

Next == \/ IssueGapProbe \/ GapProbeResult
        \/ IssueProbe \/ ProbeSuccess \/ ProbeFailure \/ RunOff
        \/ BackwardSearch \/ BackwardOver \/ SearchResult
        \/ Forward \/ ForwardOver \/ ForwardSuccess \/ ForwardFailure
        \/ TailSearch \/ TailOver

Spec == Init /\ [][Next]_vars
FairSpec == Spec /\ WF_vars(Next)
-----------------------------------------------------------------------------
\* The block being followed has been read from end to end.
BlockIsCaptured ==
  phase \in {"forward", "tail"} => blockStart .. blockEnd - 1 \subseteq captured

\* When a tail search ends on a device that answers what it can, the block it
\* found cannot be extended: the next register is missing or out of range,
\* or the tail is as long as one read may be.
TailIsMaximal ==
  phase = "tail" /\ SearchIsOver /\ ~device.lossy =>
    LET last == blockEnd + search.best - 1
    IN /\ blockEnd .. last \subseteq readable
       /\ last + 1 \in (readable \cap ScanRange) => search.best = MaxBlock

\* The same for the backward search and the register below the block.
BackwardIsMaximal ==
  phase = "backward" /\ SearchIsOver /\ ~device.lossy =>
    LET first == origin - search.best
    IN /\ first .. origin - 1 \subseteq readable
       /\ first - 1 \in (readable \cap ScanRange) => search.best = MaxBlock

\* With no hits one read per block of the range (ALGOS.md 6.14).
ReadsBounded == captured = {} => requests <= (RangeLen + MaxBlock - 1) \div MaxBlock
=============================================================================
