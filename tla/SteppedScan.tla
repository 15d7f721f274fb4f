---------------------------- MODULE SteppedScan -----------------------------
(***************************************************************************)
(* The "stepped" strategy: probe one and two registers at, below and above *)
(* every step position; at the first probe that was answered read the      *)
(* largest block that the device answers, then go to the next position.    *)
(*                                                                         *)
(* Next() calls itself after moving to the next position without a read;   *)
(* each of those moves is an action here.                                  *)
(***************************************************************************)
EXTENDS ScanLoop, FiniteSets

VARIABLES
  stepIndex,    (* current step position                                   *)
  probeIndex,   (* probes of this position handed out                      *)
  hasHit, hitAddr,  (* the first probe of this position that was answered  *)
  expandIndex   (* 0 = not expanding, else the expansion size in use       *)

strategyVars == <<stepIndex, probeIndex, hasHit, hitAddr, expandIndex>>
vars == <<loopVars, strategyVars>>

(* Faulty forms of the definitions below: the faults the properties catch. *)
IsBaseExclusive(p) == p \in ScanRange /\ (p - StartAddress) % Step = 0 /\ p < EndAddress
SameSize == expandIndex
-----------------------------------------------------------------------------
IsBase(p) == p \in ScanRange /\ (p - StartAddress) % Step = 0

\* Half a step above a position, in 16 bits: it may wrap.
IsHalf(p) == StepHalfOffset /\ Step >= 2 /\ IsBase(Wrap(p - Step \div 2))

\* All of them up to the end of the range; the program keeps them in ascending
\* order, without duplicates.
stepPositions == {p \in 0 .. EndAddress : IsBase(p) \/ IsHalf(p)}

\* The position at the current index, in a set that is empty past the last one.
Current ==
  LET positions == stepPositions
  IN {p \in positions : Cardinality({q \in positions : q < p}) = stepIndex - 1}
MoreSteps == Current # {}

\* Probes may leave the range by one register on each side.
ProbeFloor == IF StartAddress > 0 THEN StartAddress - 1 ELSE 0
ProbeCeiling == IF EndAddress < AddrMax THEN EndAddress + 1 ELSE AddrMax

Clamp(a) == IF a < ProbeFloor THEN ProbeFloor
            ELSE IF a > ProbeCeiling THEN ProbeCeiling ELSE a

\* A probe of n registers at a, if a is an address, that does not end past the
\* ceiling.
Probe(a, n) == IF a \in Addr /\ LastOf(Read(Clamp(a), n)) <= ProbeCeiling
               THEN <<Read(Clamp(a), n)>> ELSE <<>>
ProbesAt(a) == Probe(a, 1) \o Probe(a, 2)

\* buildProbeTasks: counts 1 and 2 at pos - 1, pos and pos + 1.
ProbeTasks[pos \in Addr] == ProbesAt(pos - 1) \o ProbesAt(pos) \o ProbesAt(pos + 1)
probeTasks == IF MoreSteps THEN ProbeTasks[CHOOSE p \in Current : TRUE] ELSE <<>>

TypeOK ==
  /\ LoopTypeOK
  /\ stepIndex \in 1 .. Cardinality(stepPositions) + 1
  /\ probeIndex \in 0 .. 6
  /\ hasHit \in BOOLEAN
  /\ hitAddr \in Addr
  /\ expandIndex \in 0 .. Len(SteppedSizes)

Init ==
  /\ LoopInit
  /\ stepIndex = 1
  /\ probeIndex = 0
  /\ hasHit = FALSE
  /\ hitAddr = 0
  /\ expandIndex = 0

\* The position is finished: clear its hit, build the probes of the next one.
GoToNextStep ==
  /\ stepIndex' = stepIndex + 1
  /\ probeIndex' = 0
  /\ hasHit' = FALSE
  /\ hitAddr' = 0
  /\ expandIndex' = 0

MoreProbes == expandIndex = 0 /\ probeIndex < Len(probeTasks)
ReadyToExpand == expandIndex > 0 \/ (~MoreProbes /\ hasHit)

IssueProbe ==
  /\ Idle /\ MoreSteps /\ MoreProbes
  /\ Issue(probeTasks[probeIndex + 1])
  /\ probeIndex' = probeIndex + 1
  /\ UNCHANGED <<stepIndex, hasHit, hitAddr, expandIndex>>

\* The expansion sizes from the one in use on that end inside the range.
Fits(addr, size) == addr + size - 1 <= EndAddress
FittingFrom(from) ==
  {i \in DOMAIN SteppedSizes : i >= from /\ Fits(hitAddr, SteppedSizes[i])}

Expand ==
  /\ Idle /\ MoreSteps /\ ReadyToExpand
  /\ \E i \in FittingFrom(expandIndex) :
       /\ \A j \in FittingFrom(expandIndex) : i <= j
       /\ Issue(Read(hitAddr, SteppedSizes[i]))
       /\ expandIndex' = i
  /\ UNCHANGED <<stepIndex, probeIndex, hasHit, hitAddr>>

NothingFits ==
  /\ Idle /\ MoreSteps /\ ReadyToExpand
  /\ FittingFrom(expandIndex) = {}
  /\ GoToNextStep
  /\ UNCHANGED loopVars

NoHit ==
  /\ Idle /\ MoreSteps /\ ~MoreProbes /\ ~ReadyToExpand
  /\ GoToNextStep
  /\ UNCHANGED loopVars

Finish == Idle /\ ~MoreSteps /\ Leave /\ UNCHANGED strategyVars

\* OnResult of a probe: the first success is the hit.
ProbeResult ==
  /\ expandIndex = 0
  /\ \/ Refused /\ UNCHANGED <<hasHit, hitAddr>>
     \/ Answered /\ hasHit /\ UNCHANGED <<hasHit, hitAddr>>
     \/ Answered /\ ~hasHit /\ hasHit' = TRUE /\ hitAddr' = task.start
  /\ UNCHANGED <<stepIndex, probeIndex, expandIndex>>

\* OnResult of an expansion read: done with this position, or a smaller size.
ExpansionSuccess == expandIndex > 0 /\ Answered /\ GoToNextStep

NextSize == expandIndex + 1

ExpansionFailure ==
  /\ expandIndex > 0 /\ Refused
  /\ IF expandIndex = Len(SteppedSizes)
     THEN GoToNextStep
     ELSE /\ expandIndex' = NextSize
          /\ UNCHANGED <<stepIndex, probeIndex, hasHit, hitAddr>>

Next == \/ IssueProbe \/ Expand \/ NothingFits \/ NoHit \/ Finish
        \/ ProbeResult \/ ExpansionSuccess \/ ExpansionFailure

Spec == Init /\ [][Next]_vars
FairSpec == Spec /\ WF_vars(Next)
-----------------------------------------------------------------------------
\* Probes and expansions stay within one register of the range; nothing ever
\* reads past the register above it (ALGOS.md 5.2).
ReadsStayNearRange == task # NoTask =>
  Covered(task) \subseteq Addr \cap (StartAddress - 1 .. EndAddress + 1)

\* With no hits at most six reads for each step position, half steps included
\* (ALGOS.md 5.9; printScanWorstCaseHint counts the whole steps alone); hits or
\* not, a position costs its probes and one read per expansion size.
ReadsBounded ==
  /\ captured = {} => requests <= 6 * Cardinality(stepPositions)
  /\ requests <= (6 + Len(SteppedSizes)) * Cardinality(stepPositions)

\* No position is lost: when the scan of a device that answers what it can is
\* over, every readable step position is captured, and at the lowest readable
\* register around each position so is every block an expansion could read.
Around(p) == {a \in {p - 1, p, p + 1} \cap readable : a \in StartAddress - 1 .. EndAddress + 1}

HitsAreExpanded ==
  finished /\ ~device.lossy =>
    \A p \in {a \in ScanRange : (a - StartAddress) % Step = 0} :
      /\ p \in readable => p \in captured
      /\ Around(p) # {} =>
           LET hit == CHOOSE a \in Around(p) : \A b \in Around(p) : a <= b
           IN \A i \in DOMAIN SteppedSizes :
                LET block == Covered(Read(hit, SteppedSizes[i]))
                IN block \subseteq readable /\ Fits(hit, SteppedSizes[i]) => block \subseteq captured
=============================================================================
