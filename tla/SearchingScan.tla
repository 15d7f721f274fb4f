--------------------------- MODULE SearchingScan ---------------------------
(***************************************************************************)
(* `client scan` with one of the strategies that look for blocks instead   *)
(* of settling every register: boundary grows the block around a seed,     *)
(* linear follows blocks up the range, stepped samples the range, sunspec  *)
(* walks a chain of models.                                                *)
(***************************************************************************)
EXTENDS ScanLoop

CONSTANT SunSpecChoices  (* what --sunspec-* may ask for; base 0 for none  *)

ASSUME SunSpecAssumption ==
  \A c \in SunSpecChoices :
    /\ c.base \in 0 .. AddrMax - 2
    /\ c.bases \in Seq(Addr) /\ c.bases # <<>>
    /\ c.maxModels \in Nat \ {0}
    /\ c.maxSpan \in Addr

VARIABLES
  algo,                                                (* --algo           *)
  phase,                                               (* of all but stepped *)
  blockStart, blockEnd,                                (* boundary, linear *)
  seedEmitted, leftExpandIdx, rightExpandIdx, left, right,  (* boundary    *)
  done, probeStart, hadProbeFailure, origin, search, gapProbe, gapProbeAddr,  (* linear *)
  stepIndex, probeIndex, hasHit, hitAddr, expandIndex,  (* stepped         *)
  choice, baseIndex, baseAddr, currentAddr, modelCount, body  (* sunspec   *)

blockVars == <<blockStart, blockEnd>>
boundaryVars == <<seedEmitted, leftExpandIdx, rightExpandIdx, left, right>>
linearVars == <<done, probeStart, hadProbeFailure, origin, search, gapProbe, gapProbeAddr>>
steppedVars == <<stepIndex, probeIndex, hasHit, hitAddr, expandIndex>>
sunspecVars == <<choice, baseIndex, baseAddr, currentAddr, modelCount, body>>
vars == <<algo, loopVars, phase, blockVars, boundaryVars, linearVars, steppedVars, sunspecVars>>

Boundary == INSTANCE BoundaryScan
Linear == INSTANCE LinearScan
Stepped == INSTANCE SteppedScan
SunSpec == INSTANCE SunSpecScan

\* The fields of the strategies that were not chosen.
NoPhase == phase = "none"
NoBlock == blockStart = 0 /\ blockEnd = 0
NoBoundary ==
  /\ seedEmitted = FALSE /\ leftExpandIdx = 0 /\ rightExpandIdx = 0
  /\ left = [low |-> 0, high |-> 0, floor |-> 0]
  /\ right = [low |-> 0, high |-> 0, ceil |-> 0]
NoLinear ==
  /\ done = FALSE /\ probeStart = 0 /\ hadProbeFailure = FALSE /\ origin = 0
  /\ search = [low |-> 0, high |-> 0, best |-> 0]
  /\ gapProbe = "none" /\ gapProbeAddr = 0
NoStepped ==
  /\ stepIndex = 1 /\ probeIndex = 0 /\ hasHit = FALSE /\ hitAddr = 0 /\ expandIndex = 0
NoSunSpec ==
  /\ choice = NoTask /\ baseIndex = 0 /\ baseAddr = 0 /\ currentAddr = 0
  /\ modelCount = 0 /\ body = NoTask

TypeOK ==
  CASE algo = "boundary" -> Boundary!TypeOK /\ NoLinear /\ NoStepped /\ NoSunSpec
    [] algo = "linear" -> Linear!TypeOK /\ NoBoundary /\ NoStepped /\ NoSunSpec
    [] algo = "stepped" -> Stepped!TypeOK /\ NoPhase /\ NoBlock /\ NoBoundary /\ NoLinear /\ NoSunSpec
    [] algo = "sunspec" -> SunSpec!TypeOK /\ NoBlock /\ NoBoundary /\ NoLinear /\ NoStepped
-----------------------------------------------------------------------------
\* newScanStrategy, and the Init of what it returns.
Init ==
  \/ algo = "boundary" /\ Boundary!Init /\ NoLinear /\ NoStepped /\ NoSunSpec
  \/ algo = "linear" /\ Linear!Init /\ NoBoundary /\ NoStepped /\ NoSunSpec
  \/ /\ algo = "stepped" /\ Stepped!Init
     /\ NoPhase /\ NoBlock /\ NoBoundary /\ NoLinear /\ NoSunSpec
  \/ /\ algo = "sunspec" /\ SunSpec!Init
     /\ NoBlock /\ NoBoundary /\ NoLinear /\ NoStepped

BoundaryStep ==
  algo = "boundary" /\ Boundary!Next /\ UNCHANGED <<algo, linearVars, steppedVars, sunspecVars>>
LinearStep ==
  algo = "linear" /\ Linear!Next /\ UNCHANGED <<algo, boundaryVars, steppedVars, sunspecVars>>
SteppedStep ==
  /\ algo = "stepped" /\ Stepped!Next
  /\ UNCHANGED <<algo, phase, blockVars, boundaryVars, linearVars, sunspecVars>>
SunSpecStep ==
  /\ algo = "sunspec" /\ SunSpec!Next
  /\ UNCHANGED <<algo, blockVars, boundaryVars, linearVars, steppedVars>>

Next == BoundaryStep \/ LinearStep \/ SteppedStep \/ SunSpecStep

Spec == Init /\ [][Next]_vars
\* The client's timeout ends every read, and nothing else can hold up the loop.
FairSpec == Spec /\ WF_vars(Next)
-----------------------------------------------------------------------------
\* boundary and linear read registers of the range only; a probe of stepped
\* may touch one register on either side of it; sunspec has no range but stays
\* inside the models it found.
ReadsStayInScope ==
  CASE algo = "stepped" -> Stepped!ReadsStayNearRange
    [] algo = "sunspec" -> SunSpec!ReadsStayInSpace
    [] OTHER -> ReadsStayInRange

\* The block a strategy is following was read from end to end, whatever the
\* device refused in between; so was the chain of models of sunspec.
BlockIsCaptured ==
  CASE algo = "boundary" -> Boundary!BlockIsCaptured
    [] algo = "linear" -> Linear!BlockIsCaptured
    [] algo = "sunspec" -> SunSpec!ChainIsCaptured
    [] OTHER -> TRUE

\* On a device that answers what it can, a block that was found cannot be
\* extended: its neighbours are missing, or outside the range or of one read.
EdgesAreExact ==
  CASE algo = "boundary" -> Boundary!BlockIsMaximal
    [] algo = "linear" -> Linear!TailIsMaximal /\ Linear!BackwardIsMaximal
    [] OTHER -> TRUE

\* stepped loses no position, and reads the largest block at every hit.
HitsAreExpanded == algo = "stepped" => Stepped!HitsAreExpanded

\* The strategies read no more than the worst case documented for them (ALGOS.md
\* 9): where nothing answers one read per block for linear and six per step
\* position for stepped, half steps included, which the number that client scan
\* prints leaves out; a base and each model with its body for sunspec.
ReadsBounded ==
  /\ algo = "linear" => Linear!ReadsBounded
  /\ algo = "stepped" => Stepped!ReadsBounded
  /\ algo = "sunspec" => SunSpec!ReadsBounded
=============================================================================
