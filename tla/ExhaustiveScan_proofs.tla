----------------------- MODULE ExhaustiveScan_proofs ------------------------
(***************************************************************************)
(* Proofs about the exhaustive scans, for every range, block sizes and     *)
(* device: first each strategy alone, then the scan with any of the three. *)
(*                                                                         *)
(* SafeIInv says where safe's walk is: the reads in progress start at      *)
(* current and fit in the range, size 1 is still to come as long as the    *)
(* address is not settled, and everything below current is settled.        *)
(*                                                                         *)
(* SmartIInv says that the waiting blocks and the one being read are       *)
(* disjoint parts of the range, that what they do not cover is settled,    *)
(* and that they lie apart from, or strictly inside, every block handed    *)
(* out before.                                                             *)
(*                                                                         *)
(* DeepIInv is SmartIInv until the refinement begins; from then on every   *)
(* register is settled and what is left to read fits in the range.         *)
(*                                                                         *)
(* CostInv bounds the reads handed out so far: of safe by the addresses    *)
(* walked over and the sizes tried, of smart by what the waiting blocks    *)
(* may still cost, of deep by that and the length of its queue.            *)
(***************************************************************************)
EXTENDS ExhaustiveScan, FiniteSetTheorems, NaturalsInduction, WellFoundedInduction, TLAPS

\* The constants are integers in the order the assumptions give them.
LEMMA Bounds ==
  /\ AddrMax \in Int /\ MaxBlock \in Int /\ StartAddress \in Int /\ EndAddress \in Int
  /\ 0 <= StartAddress /\ StartAddress <= EndAddress /\ EndAddress <= AddrMax
  /\ 1 <= MaxBlock
  /\ RequestCap \in Nat
  /\ \A size \in SafeSizes : size \in Int /\ 1 <= size /\ size <= MaxBlock
  /\ 1 \in SafeSizes
  BY ScanAssumption, SizesAssumption
-----------------------------------------------------------------------------
(* The safe strategy.                                                      *)

\* The one range on which the 16-bit count of the registers left wraps to 0.
NotWholeSpace == ~(StartAddress = 0 /\ EndAddress = AddrMax)

SafeLeft == EndAddress - current + 1

\* A read of the walk is at current and fits; the smaller sizes are left.
SafeReadInv ==
  task # Safe!NoTask /\ probe # "inFlight" =>
    /\ task.start = current
    /\ task.count \in SafeSizes /\ task.count <= SafeLeft
    /\ \A size \in ladder : size < task.count
    /\ task.count = 1 \/ 1 \in ladder

\* Between two reads, the sizes left are those of an address in the range.
SafeLadderInv ==
  task = Safe!NoTask /\ ladder # {} =>
    1 \in ladder /\ (\A size \in ladder : size <= SafeLeft)

\* The left-boundary probe reads a settled register between two addresses.
SafeProbeInv ==
  /\ probe # "none" =>
       ladder = {} /\ probeAddr \in Safe!ScanRange /\ probeAddr \in captured \cup refused
  /\ probe = "pending" => task = Safe!NoTask
  /\ probe = "inFlight" => task = Safe!Read(probeAddr, 1)

SafeSettledInv == \A a \in Safe!Addr : StartAddress <= a /\ a < current => a \in captured \cup refused

SafeFinishInv ==
  finished => task = Safe!NoTask /\ (NotWholeSpace => current > EndAddress)

SafeIInv ==
  /\ Safe!TypeOK
  /\ SafeReadInv /\ SafeLadderInv /\ SafeProbeInv
  /\ SafeSettledInv
  /\ SafeFinishInv

\* The candidate sizes at an address fit in the range, and when there is one
\* there is size 1; an address of the range has one, wrapping aside.
LEMMA CandidatesFit ==
  ASSUME NEW at \in StartAddress .. EndAddress + 1
  PROVE  /\ Safe!Candidates(at) \subseteq SafeSizes
         /\ \A size \in Safe!Candidates(at) : size <= EndAddress - at + 1
         /\ Safe!Candidates(at) # {} => 1 \in Safe!Candidates(at)
         /\ NotWholeSpace /\ at <= EndAddress => 1 \in Safe!Candidates(at)
<1>1. at \in Int /\ StartAddress <= at /\ at <= EndAddress + 1
  BY Bounds
<1>2. Safe!Remaining(at) \in Int /\ Safe!Remaining(at) <= EndAddress - at + 1
  BY <1>1, Bounds DEF Safe!Remaining, Safe!Wrap
<1>3. NotWholeSpace /\ at <= EndAddress => Safe!Remaining(at) >= 1
  BY <1>1, Bounds DEF Safe!Remaining, Safe!Wrap, NotWholeSpace
<1>4. QED
  BY <1>1, <1>2, <1>3, Bounds DEF Safe!Candidates

\* The invariant holds at the start of a scan.
LEMMA SafeInitInv == Safe!Init => SafeIInv
<1> SUFFICES ASSUME Safe!Init PROVE SafeIInv
  OBVIOUS
<1>1. Safe!TypeOK
  <2>1. Safe!LoopTypeOK
    <3>1. /\ device \in [readable : SUBSET Safe!Addr, lossy : BOOLEAN]
          /\ captured \subseteq Safe!Addr /\ refused \subseteq Safe!Addr
          /\ task = Safe!NoTask /\ finished \in BOOLEAN
      BY DEF Safe!Init, Safe!LoopInit
    <3>2. requests \in 0 .. RequestCap
      BY Bounds DEF Safe!Init, Safe!LoopInit
    <3>3. QED
      BY <3>1, <3>2 DEF Safe!LoopTypeOK
  <2>2. current \in StartAddress .. EndAddress + 1 /\ probeAddr \in Safe!Addr
    BY Bounds DEF Safe!Init, Safe!Addr
  <2>3. ladder \in SUBSET SafeSizes /\ hadFailure \in BOOLEAN
        /\ probe \in {"none", "pending", "inFlight"}
    BY DEF Safe!Init
  <2>4. QED
    BY <2>1, <2>2, <2>3 DEF Safe!TypeOK
<1>2. SafeReadInv /\ SafeLadderInv /\ SafeProbeInv /\ SafeFinishInv
  BY DEF Safe!Init, Safe!LoopInit, SafeReadInv, SafeLadderInv, SafeProbeInv, SafeFinishInv
<1>3. SafeSettledInv
  BY Bounds DEF Safe!Init, SafeSettledInv, Safe!Addr
<1>4. QED
  BY <1>1, <1>2, <1>3 DEF SafeIInv

\* Every step preserves the invariant.
LEMMA SafeStepInv == SafeIInv /\ [Safe!Next]_(Safe!vars) => SafeIInv'
<1> SUFFICES ASSUME SafeIInv, [Safe!Next]_(Safe!vars) PROVE SafeIInv'
  OBVIOUS
<1> USE DEF SafeIInv
<1>1. CASE Safe!IssueProbe
  <2>1. Safe!TypeOK'
    BY <1>1, Bounds DEF Safe!IssueProbe, Safe!Issue, Safe!TypeOK, Safe!LoopTypeOK, Safe!Read,
      Safe!Count, Safe!Idle
  <2>2. SafeReadInv' /\ SafeLadderInv' /\ SafeFinishInv'
    BY <1>1, Bounds DEF Safe!IssueProbe, Safe!Issue, Safe!Idle, SafeReadInv, SafeLadderInv,
      SafeFinishInv, Safe!Read, Safe!NoTask
  <2>3. SafeProbeInv'
    BY <1>1 DEF Safe!IssueProbe, Safe!Issue, SafeProbeInv
  <2>4. SafeSettledInv'
    BY <1>1 DEF Safe!IssueProbe, Safe!Issue, SafeSettledInv
  <2>5. QED
    BY <2>1, <2>2, <2>3, <2>4
<1>2. CASE Safe!IssueCandidate
  <2> DEFINE open == IF ladder = {} THEN Safe!Candidates(current) ELSE ladder
  <2>1. PICK size \in open :
          /\ \A other \in open : other <= size
          /\ Safe!Issue(Safe!Read(current, size))
          /\ ladder' = open \ {size}
    BY <1>2 DEF Safe!IssueCandidate
  <2>2. /\ open \subseteq SafeSizes
        /\ \A other \in open : other <= SafeLeft
        /\ 1 \in open
    BY <2>1, CandidatesFit, Bounds DEF Safe!TypeOK, SafeLadderInv, SafeLeft, Safe!Issue, Safe!Idle
  <2>3. /\ size \in SafeSizes /\ size \in Int /\ 1 <= size /\ size <= MaxBlock /\ size <= SafeLeft
        /\ current \in Int /\ StartAddress <= current /\ current <= EndAddress
    BY <2>1, <2>2, Bounds DEF Safe!TypeOK, SafeLeft
  <2>4. /\ task' = [start |-> current, count |-> size]
        /\ task' # Safe!NoTask
        /\ UNCHANGED <<device, captured, refused, finished, current, hadFailure, probe, probeAddr>>
        /\ requests' = Safe!Count(requests)
        /\ probe = "none" /\ task = Safe!NoTask /\ ~finished
    BY <1>2, <2>1, <2>3 DEF Safe!IssueCandidate, Safe!Issue, Safe!Read, Safe!NoTask, Safe!Idle
  <2>5. Safe!TypeOK'
    BY <2>1, <2>2, <2>3, <2>4, Bounds DEF Safe!TypeOK, Safe!LoopTypeOK, Safe!Addr, Safe!Count
  <2>6. SafeReadInv'
    <3>1. \A other \in ladder' : other < size
      BY <2>1, <2>2, <2>3, Bounds
    <3>2. QED
      BY <2>1, <2>2, <2>3, <2>4, <3>1 DEF SafeReadInv, SafeLeft
  <2>7. SafeLadderInv' /\ SafeProbeInv' /\ SafeSettledInv' /\ SafeFinishInv'
    BY <2>4 DEF SafeLadderInv, SafeProbeInv, SafeSettledInv, SafeFinishInv
  <2>8. QED
    BY <2>5, <2>6, <2>7
<1>3. CASE Safe!Finish
  <2>1. /\ task = Safe!NoTask /\ probe # "pending"
        /\ UNCHANGED <<device, task, captured, refused, requests, Safe!strategyVars>>
        /\ finished' = TRUE
    BY <1>3 DEF Safe!Finish, Safe!Leave, Safe!Idle
  <2>2. NotWholeSpace => current > EndAddress
    <3>1. CASE Safe!Done
      BY <3>1, Bounds DEF Safe!Done, Safe!TypeOK
    <3>2. CASE Safe!Candidates(current) = {}
      BY <3>2, CandidatesFit, Bounds DEF Safe!TypeOK
    <3>3. QED
      BY <1>3, <3>1, <3>2 DEF Safe!Finish
  <2>3. QED
    BY <2>1, <2>2
    DEF Safe!TypeOK, Safe!LoopTypeOK, SafeReadInv, SafeLadderInv, SafeProbeInv, SafeSettledInv,
      SafeFinishInv, Safe!strategyVars, SafeLeft
<1>4. CASE Safe!ProbeResult
  <2>1. /\ task = Safe!Read(probeAddr, 1) /\ task' = Safe!NoTask /\ probe' = "none"
        /\ ladder = {} /\ ~finished
        /\ captured \subseteq captured' /\ refused \subseteq refused'
        /\ captured' \subseteq captured \cup {probeAddr}
        /\ refused' \subseteq refused \cup {probeAddr}
        /\ UNCHANGED <<device, requests, finished, current, ladder, hadFailure, probeAddr>>
    BY <1>4 DEF Safe!ProbeResult, Safe!Answered, Safe!Refused, SafeProbeInv, Safe!Read,
      Safe!Covered, Safe!LastOf, SafeFinishInv, Safe!NoTask, Safe!TypeOK, Safe!Addr
  <2>2. Safe!TypeOK'
    BY <2>1 DEF Safe!TypeOK, Safe!LoopTypeOK
  <2>3. SafeSettledInv'
    BY <2>1 DEF SafeSettledInv
  <2>4. SafeReadInv' /\ SafeLadderInv' /\ SafeProbeInv' /\ SafeFinishInv'
    BY <2>1 DEF SafeReadInv, SafeLadderInv, SafeProbeInv, SafeFinishInv
  <2>5. QED
    BY <2>2, <2>3, <2>4
<1>5. CASE Safe!OnSuccess
  <2>1. /\ task # Safe!NoTask /\ task' = Safe!NoTask /\ probe # "inFlight" /\ probe # "pending"
        /\ Safe!Covered(task) \subseteq Safe!readable
        /\ captured' = captured \cup Safe!Covered(task)
        /\ current' = task.start + task.count
        /\ ladder' = {} /\ hadFailure' = FALSE
        /\ UNCHANGED <<device, refused, requests, finished>>
    BY <1>5 DEF Safe!OnSuccess, Safe!Answered, Safe!StepOver, SafeProbeInv
  <2>2. /\ task.start = current /\ task.count \in Int /\ 1 <= task.count /\ task.count <= SafeLeft
        /\ current \in Int /\ StartAddress <= current
        /\ \A a \in Int : current <= a /\ a < current' => a \in captured'
    BY <2>1, Bounds DEF SafeReadInv, Safe!TypeOK, Safe!Covered, Safe!LastOf
  <2>3. SafeSettledInv'
    BY <2>1, <2>2, Bounds DEF SafeSettledInv, Safe!Addr
  <2>4. SafeFinishInv'
    BY <2>1 DEF SafeFinishInv
  <2>5. Safe!LoopTypeOK' /\ ladder' \in SUBSET SafeSizes /\ hadFailure' \in BOOLEAN
    <3>1. captured' \subseteq Safe!Addr
      BY <2>1 DEF Safe!TypeOK, Safe!LoopTypeOK, Safe!readable
    <3>2. QED
      BY <2>1, <3>1 DEF Safe!TypeOK, Safe!LoopTypeOK
  <2>6. current' \in StartAddress .. EndAddress + 1
    BY <2>1, <2>2, Bounds DEF SafeLeft
  <2>7. CASE Safe!WantsProbe(task)
    <3>1. /\ probe' = "pending" /\ probeAddr' = current - 1 /\ current > StartAddress
      BY <1>5, <2>2, <2>7 DEF Safe!OnSuccess, Safe!WantsProbe
    <3>2. probeAddr' \in Safe!Addr /\ probeAddr' \in Safe!ScanRange
          /\ probeAddr' \in captured \cup refused
      BY <3>1, <2>2, Bounds DEF SafeSettledInv, Safe!Addr, Safe!ScanRange, SafeLeft
    <3>3. Safe!TypeOK'
      BY <2>5, <2>6, <3>1, <3>2 DEF Safe!TypeOK, Safe!Addr
    <3>4. SafeReadInv' /\ SafeLadderInv' /\ SafeProbeInv'
      BY <2>1, <3>1, <3>2 DEF SafeReadInv, SafeLadderInv, SafeProbeInv, Safe!ScanRange
    <3>5. QED
      BY <2>3, <2>4, <3>3, <3>4
  <2>8. CASE ~Safe!WantsProbe(task)
    <3>1. probe' = "none" /\ probeAddr' = probeAddr
      BY <1>5, <2>1, <2>8 DEF Safe!OnSuccess, Safe!TypeOK
    <3>2. Safe!TypeOK'
      BY <2>5, <2>6, <3>1 DEF Safe!TypeOK
    <3>3. SafeReadInv' /\ SafeLadderInv' /\ SafeProbeInv'
      BY <2>1, <3>1 DEF SafeReadInv, SafeLadderInv, SafeProbeInv
    <3>4. QED
      BY <2>3, <2>4, <3>2, <3>3
  <2>9. QED
    BY <2>7, <2>8
<1>6. CASE Safe!OnFailure
  <2>1. /\ task # Safe!NoTask /\ task' = Safe!NoTask /\ probe = "none"
        /\ refused' = refused \cup (IF task.count = 1 THEN {task.start} ELSE {})
        /\ hadFailure' = TRUE
        /\ current' = IF ladder = {} THEN current + 1 ELSE current
        /\ UNCHANGED <<device, captured, requests, finished, ladder, probe, probeAddr>>
    BY <1>6 DEF Safe!OnFailure, Safe!Refused, Safe!AfterFailure, SafeProbeInv, Safe!TypeOK
  <2>2. /\ task.start = current /\ task.count \in Int /\ 1 <= task.count /\ task.count <= SafeLeft
        /\ current \in Int /\ StartAddress <= current /\ current <= EndAddress
        /\ ladder = {} => task.count = 1
        /\ ladder # {} => 1 \in ladder
        /\ \A size \in ladder : size < task.count
    BY <2>1, Bounds DEF SafeReadInv, Safe!TypeOK, SafeLeft
  <2>3. Safe!TypeOK'
    BY <2>1, <2>2, Bounds DEF Safe!TypeOK, Safe!LoopTypeOK, Safe!Addr
  <2>4. SafeSettledInv'
    BY <2>1, <2>2, Bounds DEF SafeSettledInv, Safe!Addr
  <2>5. SafeLadderInv'
    BY <2>1, <2>2, Bounds DEF SafeLadderInv, SafeLeft, Safe!TypeOK
  <2>6. SafeReadInv' /\ SafeProbeInv' /\ SafeFinishInv'
    BY <2>1 DEF SafeReadInv, SafeProbeInv, SafeFinishInv
  <2>7. QED
    BY <2>3, <2>4, <2>5, <2>6
<1>7. CASE UNCHANGED Safe!vars
  BY <1>7
  DEF Safe!vars, Safe!loopVars, Safe!strategyVars, Safe!TypeOK, Safe!LoopTypeOK, SafeReadInv,
    SafeLadderInv, SafeProbeInv,
      SafeSettledInv, SafeFinishInv, SafeLeft
<1>8. QED
  BY <1>1, <1>2, <1>3, <1>4, <1>5, <1>6, <1>7 DEF Safe!Next

\* The invariant holds in every reachable state.
LEMMA SafeInvHolds == Safe!Spec => []SafeIInv
<1>1. QED
  BY SafeInitInv, SafeStepInv, PTL DEF Safe!Spec

\* The state of the strategy has its type, for every range and set of sizes:
\* the 16-bit positions of the code never leave the range, and never wrap.
THEOREM SafeTypeCorrect == Safe!Spec => []Safe!TypeOK
<1>1. SafeIInv => Safe!TypeOK
  BY DEF SafeIInv
<1>2. QED
  BY <1>1, SafeInvHolds, PTL

\* safe reads registers of the configured range only, for every range.
THEOREM SafeStaysInRange == Safe!Spec => []Safe!ReadsStayInRange
<1>1. SafeIInv => Safe!ReadsStayInRange
  <2> SUFFICES ASSUME SafeIInv, task # Safe!NoTask PROVE Safe!Covered(task) \subseteq Safe!ScanRange
    BY DEF Safe!ReadsStayInRange
  <2>1. CASE probe = "inFlight"
    BY <2>1, Bounds DEF SafeIInv, SafeProbeInv, Safe!Read, Safe!Covered, Safe!LastOf, Safe!ScanRange
  <2>2. CASE probe # "inFlight"
    BY <2>2, Bounds DEF SafeIInv, SafeReadInv, Safe!TypeOK, Safe!Covered, Safe!LastOf,
      Safe!ScanRange, SafeLeft
  <2>3. QED
    BY <2>1, <2>2
<1>2. QED
  BY <1>1, SafeInvHolds, PTL

\* The left-boundary probe always reads a register that is settled already.
THEOREM ProbesRevisit == Safe!Spec => []Safe!ProbeRevisits
<1>1. SafeIInv => Safe!ProbeRevisits
  BY DEF SafeIInv, SafeProbeInv, Safe!ProbeRevisits
<1>2. QED
  BY <1>1, SafeInvHolds, PTL

\* A safe scan that ended has captured every register of the range or seen the
\* device refuse it alone - unless the range is the whole address space, on
\* which the code's count of the registers left wraps to 0.
THEOREM SafeEverySettled ==
  ASSUME NotWholeSpace
  PROVE  Safe!Spec => []Safe!EveryAddressSettled
<1>1. SafeIInv => Safe!EveryAddressSettled
  <2> SUFFICES ASSUME SafeIInv, finished PROVE Safe!ScanRange \subseteq captured \cup refused
    BY DEF Safe!EveryAddressSettled
  <2>1. current > EndAddress /\ current \in Int
    BY Bounds, NotWholeSpace DEF SafeIInv, SafeFinishInv, Safe!TypeOK
  <2>2. QED
    BY <2>1, Bounds DEF SafeIInv, SafeSettledInv, Safe!ScanRange, Safe!Addr
<1>2. QED
  BY <1>1, SafeInvHolds, PTL

\* Every step of safe is a step of the promise, or none.
LEMMA SafeStepImplements ==
  ASSUME NotWholeSpace
  PROVE  SafeIInv /\ [Safe!Next]_(Safe!vars) => [Safe!Promise!PromiseNext]_(Safe!Promise!promiseVars)
<1> SUFFICES ASSUME SafeIInv, [Safe!Next]_(Safe!vars)
             PROVE  [Safe!Promise!PromiseNext]_(Safe!Promise!promiseVars)
  OBVIOUS
<1> USE DEF Safe!Promise!promiseVars
<1>1. task # Safe!NoTask =>
        /\ ~finished
        /\ task.start \in Safe!ScanRange /\ task.count \in Int /\ 1 <= task.count
        /\ task.start + task.count - 1 \in Safe!ScanRange
  <2>1. CASE probe = "inFlight"
    BY <2>1, Bounds DEF SafeIInv, SafeProbeInv, SafeFinishInv, Safe!Read, Safe!ScanRange
  <2>2. CASE probe # "inFlight"
    BY <2>2, Bounds DEF SafeIInv, SafeReadInv, SafeFinishInv, Safe!TypeOK, Safe!ScanRange, SafeLeft
  <2>3. QED
    BY <2>1, <2>2
<1>2. ASSUME Safe!Answered PROVE Safe!Promise!Capture
  BY <1>1, <1>2 DEF Safe!Answered, Safe!Covered, Safe!LastOf, Safe!Promise!Capture,
    Safe!Promise!Wanted, Safe!ScanRange
<1>3. ASSUME Safe!Refused PROVE Safe!Promise!GiveUp \/ UNCHANGED Safe!Promise!promiseVars
  <2>1. CASE task.count = 1
    BY <1>1, <1>3, <2>1 DEF Safe!Refused, Safe!Promise!GiveUp, Safe!Promise!Wanted, Safe!ScanRange
  <2>2. CASE task.count # 1
    BY <1>1, <1>3, <2>2 DEF Safe!Refused
  <2>3. QED
    BY <2>1, <2>2
<1>4. ASSUME Safe!Finish PROVE Safe!Promise!Conclude
  <2>1. current > EndAddress /\ current \in Int
    <3>1. CASE Safe!Done
      BY <3>1, Bounds DEF Safe!Done, SafeIInv, Safe!TypeOK
    <3>2. CASE Safe!Candidates(current) = {}
      BY <3>2, CandidatesFit, Bounds, NotWholeSpace DEF SafeIInv, Safe!TypeOK
    <3>3. QED
      BY <1>4, <3>1, <3>2 DEF Safe!Finish
  <2>2. Safe!Promise!Wanted \subseteq captured \cup refused
    BY <2>1, Bounds DEF SafeIInv, SafeSettledInv, Safe!Promise!Wanted, Safe!Addr
  <2>3. QED
    BY <1>4, <2>2 DEF Safe!Finish, Safe!Leave, Safe!Idle, Safe!Promise!Conclude
<1>5. Safe!IssueProbe \/ Safe!IssueCandidate => UNCHANGED Safe!Promise!promiseVars
  BY DEF Safe!IssueProbe, Safe!IssueCandidate, Safe!Issue
<1>6. Safe!ProbeResult \/ Safe!OnSuccess \/ Safe!OnFailure => Safe!Answered \/ Safe!Refused
  BY DEF Safe!ProbeResult, Safe!OnSuccess, Safe!OnFailure
<1>7. UNCHANGED Safe!vars => UNCHANGED Safe!Promise!promiseVars
  BY DEF Safe!vars, Safe!loopVars
<1>8. QED
  BY <1>2, <1>3, <1>4, <1>5, <1>6, <1>7 DEF Safe!Next, Safe!Promise!PromiseNext

\* safe implements the promise of an exhaustive scan: every step of it is a
\* block captured inside the range, a register given up, the conclusion when
\* everything is settled, or no step at all.
THEOREM SafeImplements ==
  ASSUME NotWholeSpace
  PROVE  Safe!Spec => Safe!ImplementsRangeScan
<1>1. Safe!Init => Safe!Promise!PromiseInit
  BY DEF Safe!Init, Safe!LoopInit, Safe!Promise!PromiseInit
<1>2. QED
  BY <1>1, SafeStepImplements, SafeInvHolds, PTL
  DEF Safe!Spec, Safe!ImplementsRangeScan, Safe!Promise!PromiseSpec
-----------------------------------------------------------------------------
(* The smart strategy.                                                     *)

Busy == task # Smart!NoTask

Within(b) == StartAddress <= b.start /\ b.start + b.count - 1 <= EndAddress
Apart(b, c) == b.start + b.count <= c.start \/ c.start + c.count <= b.start
Inside(b, c) ==
  b.count < c.count /\ c.start <= b.start /\ b.start + b.count <= c.start + c.count

\* The waiting blocks are disjoint parts of the range.
QueueInv ==
  /\ \A b \in queue : Within(b)
  /\ \A b, c \in queue : b = c \/ Apart(b, c)

\* The block being read was noted, is in the range and is nobody else's.
TaskInv ==
  Busy => task \in visited /\ Within(task) /\ (\A b \in queue : Apart(b, task))

\* Blocks only ever get smaller: what waits is no block handed out before.
NestedInv ==
  /\ \A v \in visited, b \in queue : Apart(b, v) \/ Inside(b, v)
  /\ Busy => \A v \in visited : v = task \/ Apart(task, v) \/ Inside(task, v)

\* No captured register is asked for again.
CapturedInv ==
  /\ \A a \in captured, b \in queue : a \notin Smart!Covered(b)
  /\ Busy => captured \cap Smart!Covered(task) = {}

\* Every register of the range is settled, being read or waiting.
SmartSettledInv ==
  \A a \in Smart!ScanRange :
    \/ a \in captured \cup refused
    \/ Busy /\ a \in Smart!Covered(task)
    \/ \E b \in queue : a \in Smart!Covered(b)

SmartFinishInv == finished => ~Busy /\ queue = {}

SmartIInv ==
  /\ Smart!TypeOK
  /\ QueueInv /\ TaskInv /\ NestedInv
  /\ CapturedInv /\ SmartSettledInv
  /\ SmartFinishInv

\* Division with remainder of a natural number.
LEMMA DivMod ==
  ASSUME NEW x \in Nat, NEW m \in Nat, m > 0
  PROVE  (x \div m) \in Nat /\ (x % m) \in 0 .. m - 1 /\ x = (m * (x \div m)) + (x % m)
<1>1. (x \div m) \in Nat
  OBVIOUS
<1>2. (x % m) \in 0 .. m - 1
  OBVIOUS
<1>3. x = (m * (x \div m)) + (x % m)
  OBVIOUS
<1>4. QED
  BY <1>1, <1>2, <1>3

\* Two different multiples of m are at least m apart.
LEMMA MultiplesApart ==
  ASSUME NEW m \in Nat, m > 0, NEW x \in Nat, NEW y \in Nat,
         x % m = 0, y % m = 0, x < y
  PROVE  x + m <= y
<1> DEFINE i == x \div m
           j == y \div m
<1>1. i \in Nat /\ j \in Nat /\ x = m * i /\ y = m * j
  <2>1. i \in Nat /\ x = (m * i) + (x % m)
    BY DivMod
  <2>2. j \in Nat /\ y = (m * j) + (y % m)
    BY DivMod
  <2>3. m * i \in Nat /\ m * j \in Nat
    BY <2>1, <2>2
  <2>4. QED
    BY <2>1, <2>2, <2>3
<1> HIDE DEF i, j
<1>2. i < j
  <2> SUFFICES ASSUME j <= i PROVE FALSE
    BY <1>1
  <2>1. m * j <= m * i
    BY <1>1
  <2>2. QED
    BY <1>1, <2>1
<1>3. m * (i + 1) <= m * j
  BY <1>1, <1>2
<1>4. QED
  BY <1>1, <1>3

\* A number less its remainder is a multiple.
LEMMA FloorIsMultiple ==
  ASSUME NEW m \in Nat, m > 0, NEW x \in Nat
  PROVE  (x - (x % m)) % m = 0 /\ x - (x % m) \in Nat /\ x - (x % m) <= x /\ x < x - (x % m) + m
<1> DEFINE r == x % m
<1>1. r \in 0 .. m - 1 /\ (x \div m) \in Nat /\ x = (m * (x \div m)) + r
  BY DivMod
<1>2. m * (x \div m) \in Nat
  BY <1>1
<1>3. x - r \in Nat
  BY <1>1, <1>2
<1>4. (x - r) % m = 0
  BY <1>1, <1>2, <1>3
<1>5. QED
  BY <1>1, <1>3, <1>4

\* The first blocks are disjoint parts of the range and cover it.
LEMMA InitialBlocksPartition ==
  /\ Smart!InitialBlocks \subseteq Smart!Interval
  /\ \A b \in Smart!InitialBlocks : Within(b)
  /\ \A b, c \in Smart!InitialBlocks : b = c \/ Apart(b, c)
  /\ \A a \in Smart!ScanRange : \E b \in Smart!InitialBlocks : a \in Smart!Covered(b)
<1> DEFINE Length(a) == IF EndAddress - a + 1 < MaxBlock THEN EndAddress - a + 1 ELSE MaxBlock
           starts == {a \in Smart!ScanRange : (a - StartAddress) % MaxBlock = 0}
<1>1. Smart!InitialBlocks = {Smart!Read(a, Length(a)) : a \in starts}
  BY DEF Smart!InitialBlocks
<1>2. \A a \in starts : /\ a \in Smart!Addr /\ a \in Int /\ StartAddress <= a /\ a <= EndAddress
                        /\ Length(a) \in 1 .. MaxBlock
                        /\ a + Length(a) - 1 <= EndAddress
                        /\ (a - StartAddress) % MaxBlock = 0
  BY Bounds DEF Smart!ScanRange, Smart!Addr
<1>3. \A a, b \in starts : a < b => a + Length(a) <= b
  <2> SUFFICES ASSUME NEW a \in starts, NEW b \in starts, a < b
               PROVE  a + MaxBlock <= b
    BY <1>2, Bounds
  <2> DEFINE x == a - StartAddress
             y == b - StartAddress
  <2>1. /\ x \in Nat /\ y \in Nat /\ x < y
        /\ x % MaxBlock = 0 /\ y % MaxBlock = 0
        /\ MaxBlock \in Nat /\ MaxBlock > 0
    BY <1>2, Bounds
  <2>2. b - a = y - x
    BY <1>2, Bounds
  <2> HIDE DEF x, y
  <2>3. x + MaxBlock <= y
    BY ONLY <2>1, MultiplesApart
  <2>4. QED
    BY <2>1, <2>2, <2>3, <1>2, Bounds
<1>4. \A a \in Smart!ScanRange : \E b \in starts : b <= a /\ a < b + Length(b)
  <2> SUFFICES ASSUME NEW a \in Smart!ScanRange PROVE \E b \in starts : b <= a /\ a < b + Length(b)
    OBVIOUS
  <2> DEFINE x == a - StartAddress
             r == x % MaxBlock
  <2>1. /\ a \in Int /\ StartAddress <= a /\ a <= EndAddress
        /\ x \in Nat /\ a = x + StartAddress
        /\ MaxBlock \in Nat /\ MaxBlock > 0
    BY Bounds DEF Smart!ScanRange
  <2> HIDE DEF x
  <2>2. /\ (x - r) % MaxBlock = 0 /\ x - r \in Nat /\ x - r <= x /\ x < x - r + MaxBlock
    BY ONLY <2>1, FloorIsMultiple
  <2> DEFINE b == x - r + StartAddress
  <2> HIDE DEF r
  <2>3. b \in Smart!ScanRange /\ b - StartAddress = x - r /\ b <= a /\ a < b + MaxBlock
    BY <2>1, <2>2, Bounds DEF Smart!ScanRange
  <2> HIDE DEF b
  <2>4. b \in starts
    BY <2>2, <2>3
  <2>5. a < b + Length(b)
    BY <2>1, <2>3, Bounds DEF Smart!ScanRange
  <2>6. QED
    BY <2>3, <2>4, <2>5
<1> HIDE DEF Length, starts
<1>5. Smart!InitialBlocks \subseteq Smart!Interval /\ \A b \in Smart!InitialBlocks : Within(b)
  BY <1>1, <1>2, Bounds DEF Smart!Interval, Within, Smart!Read
<1>6. \A b, c \in Smart!InitialBlocks : b = c \/ Apart(b, c)
  <2> SUFFICES ASSUME NEW a \in starts, NEW d \in starts, a # d
               PROVE  Apart(Smart!Read(a, Length(a)), Smart!Read(d, Length(d)))
    BY <1>1
  <2>1. a < d \/ d < a
    BY <1>2
  <2>2. QED
    BY <2>1, <1>3 DEF Apart, Smart!Read
<1>7. \A a \in Smart!ScanRange : \E b \in Smart!InitialBlocks : a \in Smart!Covered(b)
  <2> SUFFICES ASSUME NEW a \in Smart!ScanRange
               PROVE  \E b \in Smart!InitialBlocks : a \in Smart!Covered(b)
    OBVIOUS
  <2>1. PICK b \in starts : b <= a /\ a < b + Length(b)
    BY <1>4
  <2>2. Smart!Read(b, Length(b)) \in Smart!InitialBlocks
    BY <1>1
  <2>3. a \in Int
    BY Bounds DEF Smart!ScanRange
  <2>4. a \in Smart!Covered(Smart!Read(b, Length(b)))
    BY <2>1, <2>3, <1>2, Bounds DEF Smart!Covered, Smart!LastOf, Smart!Read
  <2>5. QED
    BY <2>2, <2>4
<1>8. QED
  BY <1>5, <1>6, <1>7

\* Halving splits a block into two smaller ones that cover it.
LEMMA HalvesPartition ==
  ASSUME NEW t \in Smart!Interval, Within(t), Smart!MustSplit(t)
  PROVE  /\ Smart!Halves(t) \subseteq Smart!Interval
         /\ \A h \in Smart!Halves(t) : Inside(h, t)
         /\ \A h, g \in Smart!Halves(t) : h = g \/ Apart(h, g)
         /\ \A a \in Smart!Covered(t) : \E h \in Smart!Halves(t) : a \in Smart!Covered(h)
<1> DEFINE n == t.count \div 2
           left == Smart!Read(t.start, n)
           right == Smart!Read(t.start + n, t.count - n)
<1>1. /\ t.start \in Int /\ 0 <= t.start /\ t.start <= AddrMax
      /\ t.count \in Int /\ 1 < t.count /\ t.count <= MaxBlock
  BY Bounds DEF Smart!Interval, Smart!Addr, Smart!MustSplit
<1>2. n \in Int /\ 1 <= n /\ n < t.count
  BY <1>1
<1>3. Smart!Halves(t) = {left, right}
  BY DEF Smart!Halves
<1> HIDE DEF n
<1>4. Smart!Halves(t) \subseteq Smart!Interval /\ \A h \in Smart!Halves(t) : Inside(h, t)
  BY <1>1, <1>2, <1>3, Bounds DEF Inside, Smart!Read, Smart!Interval, Smart!Addr, Within
<1>5. \A h, g \in Smart!Halves(t) : h = g \/ Apart(h, g)
  BY <1>1, <1>2, <1>3 DEF Apart, Smart!Read
<1>6. \A a \in Smart!Covered(t) : \E h \in Smart!Halves(t) : a \in Smart!Covered(h)
  BY <1>1, <1>2, <1>3 DEF Smart!Covered, Smart!LastOf, Smart!Read
<1>7. QED
  BY <1>4, <1>5, <1>6

\* A block inside another is apart from all the other one is apart from, and
\* its registers are among the other's.
LEMMA InsideShrinks ==
  ASSUME NEW h \in Smart!Interval, NEW t \in Smart!Interval, Inside(h, t)
  PROVE  /\ Within(t) => Within(h)
         /\ \A b \in Smart!Interval : Apart(b, t) => Apart(b, h) /\ Apart(h, b)
         /\ \A v \in Smart!Interval : Inside(t, v) => Inside(h, v)
         /\ Smart!Covered(h) \subseteq Smart!Covered(t)
<1>1. /\ h.start \in Int /\ h.count \in Int /\ t.start \in Int /\ t.count \in Int
      /\ \A b \in Smart!Interval : b.start \in Int /\ b.count \in Int
  BY Bounds DEF Smart!Interval, Smart!Addr
<1>2. Within(t) => Within(h)
  BY <1>1, Bounds DEF Within, Inside
<1>3. \A b \in Smart!Interval : Apart(b, t) => Apart(b, h) /\ Apart(h, b)
  BY <1>1 DEF Apart, Inside
<1>4. \A v \in Smart!Interval : Inside(t, v) => Inside(h, v)
  BY <1>1 DEF Inside
<1>5. Smart!Covered(h) \subseteq Smart!Covered(t)
  BY <1>1 DEF Smart!Covered, Smart!LastOf, Inside
<1>6. QED
  BY <1>2, <1>3, <1>4, <1>5

\* Blocks that are apart have no register in common; no block is apart from,
\* or strictly inside, itself.
LEMMA ApartBlocks ==
  ASSUME NEW b \in Smart!Interval, NEW c \in Smart!Interval
  PROVE  /\ Apart(b, c) => Apart(c, b) /\ Smart!Covered(b) \cap Smart!Covered(c) = {}
         /\ ~Apart(b, b) /\ ~Inside(b, b) /\ b # Smart!NoTask
<1>1. /\ b.start \in Int /\ b.count \in Int /\ 1 <= b.count
      /\ c.start \in Int /\ c.count \in Int
  BY Bounds DEF Smart!Interval, Smart!Addr
<1>2. Apart(b, c) => Apart(c, b)
  BY DEF Apart
<1>3. Apart(b, c) => Smart!Covered(b) \cap Smart!Covered(c) = {}
  BY <1>1 DEF Apart, Smart!Covered, Smart!LastOf
<1>4. ~Apart(b, b) /\ ~Inside(b, b)
  BY <1>1 DEF Apart, Inside
<1>5. b # Smart!NoTask
  BY <1>1 DEF Smart!NoTask, Smart!Read
<1>6. QED
  BY <1>2, <1>3, <1>4, <1>5

\* The invariant holds when the strategy has cut the range into blocks.
LEMMA SmartInitInv == Smart!Init => SmartIInv
<1> SUFFICES ASSUME Smart!Init PROVE SmartIInv
  OBVIOUS
<1>1. /\ device \in [readable : SUBSET Smart!Addr, lossy : BOOLEAN] /\ captured = {}
         /\ refused = {} /\ task = Smart!NoTask
      /\ requests = 0 /\ finished = FALSE /\ queue = Smart!InitialBlocks /\ visited = {}
  BY DEF Smart!Init, Smart!LoopInit, Smart!SmartInit
<1>2. Smart!TypeOK
  <2>1. requests \in 0 .. RequestCap
    BY <1>1, Bounds
  <2>2. QED
    BY <1>1, <2>1, InitialBlocksPartition DEF Smart!TypeOK, Smart!LoopTypeOK, Smart!SmartTypeOK
<1>3. QueueInv /\ SmartSettledInv
  BY <1>1, InitialBlocksPartition DEF QueueInv, SmartSettledInv
<1>4. TaskInv /\ NestedInv /\ CapturedInv /\ SmartFinishInv
  BY <1>1 DEF TaskInv, NestedInv, CapturedInv, SmartFinishInv, Busy
<1>5. QED
  BY <1>2, <1>3, <1>4 DEF SmartIInv

\* A block popped was never handed out before: the pop always issues it.
LEMMA PopIssues ==
  ASSUME SmartIInv, Smart!Pop
  PROVE  \E iv \in queue : /\ iv \notin visited
                           /\ queue' = queue \ {iv}
                           /\ visited' = visited \cup {iv}
                           /\ Smart!Issue(iv)
<1>1. PICK iv \in queue : /\ queue' = queue \ {iv}
                          /\ visited' = visited \cup {iv}
                          /\ IF iv \in visited THEN Smart!Idle /\ UNCHANGED Smart!loopVars
                             ELSE Smart!Issue(iv)
  BY DEF Smart!Pop
<1>2. iv \notin visited
  BY ApartBlocks DEF SmartIInv, NestedInv, Smart!TypeOK, Smart!SmartTypeOK
<1>3. QED
  BY <1>1, <1>2

\* Every step preserves the invariant.
LEMMA SmartStepInv == SmartIInv /\ [Smart!Next]_(Smart!vars) => SmartIInv'
<1> SUFFICES ASSUME SmartIInv, [Smart!Next]_(Smart!vars) PROVE SmartIInv'
  OBVIOUS
<1> USE DEF SmartIInv
<1>0. /\ queue \subseteq Smart!Interval /\ visited \subseteq Smart!Interval
      /\ Busy => task \in Smart!Interval
  BY DEF Smart!TypeOK, Smart!LoopTypeOK, Smart!SmartTypeOK, Busy, Smart!Interval
<1>1. CASE Smart!Pop
  <2>1. PICK iv \in queue : /\ iv \notin visited
                            /\ queue' = queue \ {iv}
                            /\ visited' = visited \cup {iv}
                            /\ Smart!Issue(iv)
    BY <1>1, PopIssues
  <2>2. /\ task' = iv /\ requests' = Smart!Count(requests) /\ ~Busy /\ ~finished
        /\ iv \in Smart!Interval /\ Busy'
        /\ UNCHANGED <<device, captured, refused, finished>>
    BY <2>1, <1>0, ApartBlocks DEF Smart!Issue, Smart!Idle, Busy
  <2>3. Smart!TypeOK'
    <3>1. task' \in [start : Smart!Addr, count : 1 .. MaxBlock] \cup {Smart!NoTask}
      BY <2>2 DEF Smart!Interval
    <3>2. requests' \in 0 .. RequestCap
      BY <2>2, Bounds DEF Smart!Count, Smart!TypeOK, Smart!LoopTypeOK
    <3>3. queue' \subseteq Smart!Interval /\ visited' \subseteq Smart!Interval
      BY <1>0, <2>1
    <3>4. QED
      BY <2>2, <3>1, <3>2, <3>3 DEF Smart!TypeOK, Smart!LoopTypeOK, Smart!SmartTypeOK
  <2>4. QueueInv' /\ TaskInv'
    BY <1>0, <2>1, <2>2, ApartBlocks DEF QueueInv, TaskInv, Within, Apart
  <2>5. NestedInv'
    <3>1. \A v \in visited, b \in queue : Apart(b, v) \/ Inside(b, v)
      BY DEF NestedInv
    <3>2. \A b \in queue' : Apart(b, iv)
      BY <2>1 DEF QueueInv
    <3>3. QED
      BY <2>1, <2>2, <3>1, <3>2 DEF NestedInv
  <2>6. CapturedInv' /\ SmartFinishInv'
    BY <2>1, <2>2 DEF CapturedInv, SmartFinishInv
  <2>7. SmartSettledInv'
    BY <2>1, <2>2 DEF SmartSettledInv
  <2>8. QED
    BY <2>3, <2>4, <2>5, <2>6, <2>7
<1>2. CASE Smart!Finish
  <2>1. /\ queue = {} /\ task = Smart!NoTask /\ finished' = TRUE
        /\ UNCHANGED <<device, task, captured, refused, requests, queue, visited>>
    BY <1>2 DEF Smart!Finish, Smart!Leave, Smart!Idle, Smart!smartVars
  <2>2. Smart!TypeOK'
    BY <2>1 DEF Smart!TypeOK, Smart!LoopTypeOK, Smart!SmartTypeOK
  <2>3. QueueInv' /\ TaskInv' /\ NestedInv' /\ CapturedInv' /\ SmartSettledInv' /\ SmartFinishInv'
    BY <2>1 DEF QueueInv, TaskInv, NestedInv, CapturedInv, SmartSettledInv, SmartFinishInv, Busy
  <2>4. QED
    BY <2>2, <2>3
<1>3. CASE Smart!OnSuccess
  <2>1. /\ Busy /\ ~Busy' /\ Smart!Covered(task) \subseteq Smart!readable
        /\ captured' = captured \cup Smart!Covered(task) /\ task' = Smart!NoTask
        /\ UNCHANGED <<device, refused, requests, finished, queue, visited>>
    BY <1>3 DEF Smart!OnSuccess, Smart!Answered, Smart!smartVars, Busy
  <2>2. Smart!TypeOK'
    <3>1. captured' \subseteq Smart!Addr
      BY <2>1 DEF Smart!TypeOK, Smart!LoopTypeOK, Smart!readable
    <3>2. QED
      BY <2>1, <3>1 DEF Smart!TypeOK, Smart!LoopTypeOK, Smart!SmartTypeOK
  <2>3. QueueInv' /\ TaskInv' /\ NestedInv' /\ SmartFinishInv'
    BY <2>1 DEF QueueInv, TaskInv, NestedInv, SmartFinishInv
  <2>4. CapturedInv'
    <3>1. \A b \in queue : Smart!Covered(b) \cap Smart!Covered(task) = {}
      BY <2>1, <1>0, ApartBlocks DEF TaskInv
    <3>2. QED
      BY <2>1, <3>1 DEF CapturedInv
  <2>5. SmartSettledInv'
    BY <2>1 DEF SmartSettledInv
  <2>6. QED
    BY <2>2, <2>3, <2>4, <2>5
<1>4. CASE Smart!Split
  <2>1. /\ Busy /\ ~Busy' /\ task' = Smart!NoTask /\ Smart!MustSplit(task)
        /\ refused' = refused \cup (IF task.count = 1 THEN {task.start} ELSE {})
        /\ queue' = queue \cup Smart!Halves(task)
        /\ UNCHANGED <<device, captured, requests, finished, visited>>
    BY <1>4 DEF Smart!Split, Smart!Refused, Busy
  <2>2. /\ task \in Smart!Interval /\ Within(task) /\ task \in visited
        /\ \A b \in queue : Apart(b, task)
        /\ \A v \in visited : v = task \/ Apart(task, v) \/ Inside(task, v)
        /\ captured \cap Smart!Covered(task) = {}
    BY <1>0, <2>1 DEF TaskInv, NestedInv, CapturedInv
  <2>3. /\ Smart!Halves(task) \subseteq Smart!Interval
        /\ \A h \in Smart!Halves(task) : Inside(h, task)
        /\ \A h, g \in Smart!Halves(task) : h = g \/ Apart(h, g)
        /\ \A a \in Smart!Covered(task) : \E h \in Smart!Halves(task) : a \in Smart!Covered(h)
    BY <2>1, <2>2, HalvesPartition
  <2>4. refused' = refused
    BY <2>1, <2>2 DEF Smart!MustSplit, Smart!Interval
  <2>5. Smart!TypeOK'
    BY <2>1, <2>3, <2>4 DEF Smart!TypeOK, Smart!LoopTypeOK, Smart!SmartTypeOK
  <2>6. QueueInv'
    <3>1. \A h \in Smart!Halves(task) : Within(h)
      BY <2>2, <2>3, InsideShrinks
    <3>2. \A h \in Smart!Halves(task), b \in queue : Apart(b, h) /\ Apart(h, b)
      BY <1>0, <2>2, <2>3, InsideShrinks
    <3>3. QED
      BY <2>1, <2>3, <3>1, <3>2 DEF QueueInv
  <2>7. NestedInv'
    <3>1. \A h \in Smart!Halves(task), v \in visited : Apart(h, v) \/ Inside(h, v)
      <4> SUFFICES ASSUME NEW h \in Smart!Halves(task), NEW v \in visited
                   PROVE  Apart(h, v) \/ Inside(h, v)
        OBVIOUS
      <4>1. CASE Apart(task, v)
        BY <4>1, <1>0, <2>2, <2>3, InsideShrinks, ApartBlocks
      <4>2. CASE Inside(task, v)
        BY <4>2, <1>0, <2>2, <2>3, InsideShrinks
      <4>3. QED
        BY <4>1, <4>2, <2>2, <2>3
    <3>2. QED
      BY <2>1, <3>1 DEF NestedInv
  <2>8. CapturedInv'
    <3>1. \A h \in Smart!Halves(task) : Smart!Covered(h) \subseteq Smart!Covered(task)
      BY <2>2, <2>3, InsideShrinks
    <3>2. QED
      BY <2>1, <2>2, <3>1 DEF CapturedInv
  <2>9. SmartSettledInv'
    BY <2>1, <2>3, <2>4 DEF SmartSettledInv
  <2>10. TaskInv' /\ SmartFinishInv'
    BY <2>1 DEF TaskInv, SmartFinishInv
  <2>11. QED
    BY <2>5, <2>6, <2>7, <2>8, <2>9, <2>10
<1>5. CASE Smart!GiveUpSingle
  <2>1. /\ Busy /\ ~Busy' /\ task' = Smart!NoTask /\ ~Smart!MustSplit(task)
        /\ refused' = refused \cup (IF task.count = 1 THEN {task.start} ELSE {})
        /\ UNCHANGED <<device, captured, requests, finished, queue, visited>>
    BY <1>5 DEF Smart!GiveUpSingle, Smart!Refused, Smart!smartVars, Busy
  <2>2. task.count = 1 /\ task.start \in Smart!Addr /\ Smart!Covered(task) = {task.start}
    BY <1>0, <2>1, Bounds DEF Smart!MustSplit, Smart!Interval, Smart!Covered, Smart!LastOf,
      Smart!Addr
  <2>3. Smart!TypeOK'
    BY <2>1, <2>2 DEF Smart!TypeOK, Smart!LoopTypeOK, Smart!SmartTypeOK
  <2>4. QueueInv' /\ TaskInv' /\ NestedInv' /\ CapturedInv' /\ SmartFinishInv'
    BY <2>1 DEF QueueInv, TaskInv, NestedInv, CapturedInv, SmartFinishInv
  <2>5. SmartSettledInv'
    BY <2>1, <2>2 DEF SmartSettledInv
  <2>6. QED
    BY <2>3, <2>4, <2>5
<1>6. CASE UNCHANGED Smart!vars
  BY <1>6
  DEF Smart!vars, Smart!loopVars, Smart!smartVars, Smart!TypeOK, Smart!LoopTypeOK,
    Smart!SmartTypeOK, QueueInv, TaskInv, NestedInv,
      CapturedInv, SmartSettledInv, SmartFinishInv, Busy
<1>7. QED
  BY <1>1, <1>2, <1>3, <1>4, <1>5, <1>6 DEF Smart!Next

\* The invariant holds in every reachable state.
LEMMA SmartInvHolds == Smart!Spec => []SmartIInv
<1>1. QED
  BY SmartInitInv, SmartStepInv, PTL DEF Smart!Spec

\* The queue and the read in progress always hold blocks of the address space.
THEOREM SmartTypeCorrect == Smart!Spec => []Smart!TypeOK
<1>1. SmartIInv => Smart!TypeOK
  BY DEF SmartIInv
<1>2. QED
  BY <1>1, SmartInvHolds, PTL

\* smart reads registers of the configured range only, for every range.
THEOREM SmartStaysInRange == Smart!Spec => []Smart!ReadsStayInRange
<1>1. SmartIInv => Smart!ReadsStayInRange
  <2> SUFFICES ASSUME SmartIInv, Busy PROVE Smart!Covered(task) \subseteq Smart!ScanRange
    BY DEF Smart!ReadsStayInRange, Busy
  <2>1. Within(task) /\ task \in Smart!Interval
    BY DEF SmartIInv, TaskInv, Smart!TypeOK, Smart!LoopTypeOK, Smart!Interval, Busy
  <2>2. QED
    BY <2>1, Bounds DEF Within, Smart!Covered, Smart!LastOf, Smart!ScanRange, Smart!Interval,
      Smart!Addr
<1>2. QED
  BY <1>1, SmartInvHolds, PTL

\* The visited check never drops a block: no waiting block was handed out.
THEOREM NothingDropped == Smart!Spec => []Smart!NothingVisitedWaits
<1>1. SmartIInv => Smart!NothingVisitedWaits
  BY ApartBlocks DEF SmartIInv, NestedInv, Smart!NothingVisitedWaits, Smart!TypeOK,
    Smart!SmartTypeOK
<1>2. QED
  BY <1>1, SmartInvHolds, PTL

\* A smart scan that ended has captured every register of the range or seen
\* the device refuse it alone, whatever fails on the way.
THEOREM SmartEverySettled == Smart!Spec => []Smart!EveryAddressSettled
<1>1. SmartIInv => Smart!EveryAddressSettled
  BY DEF SmartIInv, SmartFinishInv, SmartSettledInv, Smart!EveryAddressSettled
<1>2. QED
  BY <1>1, SmartInvHolds, PTL

\* No register is captured twice.
THEOREM CapturesOnce == Smart!Spec => Smart!CapturedOnce
<1>1. SmartIInv /\ [Smart!Next]_(Smart!vars)
        => [captured' # captured => Smart!Covered(task) \cap captured = {}]_(Smart!vars)
  <2> SUFFICES ASSUME SmartIInv, Smart!Next, captured' # captured
               PROVE  Smart!Covered(task) \cap captured = {}
    OBVIOUS
  <2>1. Busy
    BY PopIssues
    DEF Smart!Next, Smart!Finish, Smart!Leave, Smart!OnSuccess, Smart!Answered, Smart!Split,
      Smart!GiveUpSingle, Smart!Refused, Smart!Issue, Busy
  <2>2. QED
    BY <2>1 DEF SmartIInv, CapturedInv
<1>2. QED
  BY <1>1, SmartInvHolds, PTL DEF Smart!Spec, Smart!CapturedOnce

\* Every step of smart is a step of the promise, or none.
LEMMA SmartStepImplements ==
  SmartIInv /\ [Smart!Next]_(Smart!vars) => [Smart!Promise!PromiseNext]_(Smart!Promise!promiseVars)
<1> SUFFICES ASSUME SmartIInv, [Smart!Next]_(Smart!vars)
             PROVE  [Smart!Promise!PromiseNext]_(Smart!Promise!promiseVars)
  OBVIOUS
<1> USE DEF Smart!Promise!promiseVars
<1>1. Busy =>
        /\ ~finished
        /\ task.start \in Smart!ScanRange /\ task.count \in Int /\ 1 <= task.count
        /\ task.start + task.count - 1 \in Smart!ScanRange
  <2> SUFFICES ASSUME Busy PROVE /\ ~finished
        /\ task.start \in Smart!ScanRange /\ task.count \in Int /\ 1 <= task.count
        /\ task.start + task.count - 1 \in Smart!ScanRange
    OBVIOUS
  <2>1. task \in Smart!Interval /\ Within(task) /\ ~finished
    BY DEF SmartIInv, TaskInv, SmartFinishInv, Smart!TypeOK, Smart!LoopTypeOK, Smart!Interval, Busy
  <2>2. QED
    BY <2>1, Bounds DEF Within, Smart!Interval, Smart!Addr, Smart!ScanRange
<1>2. ASSUME Smart!Answered PROVE Smart!Promise!Capture
  BY <1>1, <1>2 DEF Smart!Answered, Smart!Covered, Smart!LastOf, Smart!Promise!Capture,
    Smart!Promise!Wanted, Smart!ScanRange, Busy
<1>3. ASSUME Smart!Refused PROVE Smart!Promise!GiveUp \/ UNCHANGED Smart!Promise!promiseVars
  <2>1. CASE task.count = 1
    BY <1>1, <1>3, <2>1 DEF Smart!Refused, Smart!Promise!GiveUp, Smart!Promise!Wanted,
      Smart!ScanRange, Busy
  <2>2. CASE task.count # 1
    BY <1>1, <1>3, <2>2 DEF Smart!Refused
  <2>3. QED
    BY <2>1, <2>2
<1>4. ASSUME Smart!Finish PROVE Smart!Promise!Conclude
  <2>1. Smart!ScanRange \subseteq captured \cup refused
    BY <1>4 DEF Smart!Finish, Smart!Leave, Smart!Idle, SmartIInv, SmartSettledInv, Busy
  <2>2. QED
    BY <1>4, <2>1 DEF Smart!Finish, Smart!Leave, Smart!Idle, Smart!Promise!Conclude,
      Smart!Promise!Wanted, Smart!ScanRange
<1>5. Smart!Pop => UNCHANGED Smart!Promise!promiseVars
  BY PopIssues DEF Smart!Issue
<1>6. Smart!OnSuccess \/ Smart!Split \/ Smart!GiveUpSingle => Smart!Answered \/ Smart!Refused
  BY DEF Smart!OnSuccess, Smart!Split, Smart!GiveUpSingle
<1>7. UNCHANGED Smart!vars => UNCHANGED Smart!Promise!promiseVars
  BY DEF Smart!vars, Smart!loopVars
<1>8. QED
  BY <1>2, <1>3, <1>4, <1>5, <1>6, <1>7 DEF Smart!Next, Smart!Promise!PromiseNext

\* smart implements the promise of an exhaustive scan: every step of it is a
\* block captured inside the range, a register given up, the conclusion when
\* everything is settled, or no step at all.
THEOREM SmartImplements == Smart!Spec => Smart!ImplementsRangeScan
<1>1. Smart!Init => Smart!Promise!PromiseInit
  BY DEF Smart!Init, Smart!LoopInit, Smart!Promise!PromiseInit
<1>2. QED
  BY <1>1, SmartStepImplements, SmartInvHolds, PTL
  DEF Smart!Spec, Smart!ImplementsRangeScan, Smart!Promise!PromiseSpec
-----------------------------------------------------------------------------
(* The deep strategy: phase 1 is the smart strategy.                       *)

\* The queue of refinement reads holds reads of the range, and they are only
\* handed out once smart has settled every register of it.
RefinementInv ==
  /\ Busy => Within(task)
  /\ \A x \in refinementQueue : Deep!Fits(x)
  /\ Smart!ScanRange \subseteq captured \cup refused
  /\ finished => ~Busy

DeepIInv ==
  /\ Deep!TypeOK
  /\ phase = 1 => SmartIInv /\ ~finished
  /\ phase = 2 => RefinementInv

\* Phase 1 of deep and the smart strategy are the same steps on the same data.
LEMMA PhaseOneIsSmart ==
  /\ Deep!Smart!Interval = Smart!Interval
  /\ Deep!LoopInit <=> Smart!LoopInit
  /\ Deep!Smart!SmartInit <=> Smart!SmartInit
  /\ Deep!LoopTypeOK <=> Smart!LoopTypeOK
  /\ Deep!Smart!SmartTypeOK <=> Smart!SmartTypeOK
  /\ Deep!Smart!Pop <=> Smart!Pop
  /\ Deep!Smart!OnSuccess <=> Smart!OnSuccess
  /\ Deep!Smart!Split <=> Smart!Split
  /\ Deep!Smart!GiveUpSingle <=> Smart!GiveUpSingle
<1>1. Deep!Smart!Interval = Smart!Interval
  BY DEF Deep!Smart!Interval, Smart!Interval, Deep!Smart!Addr, Smart!Addr
<1>2. Deep!LoopInit <=> Smart!LoopInit
  BY DEF Deep!LoopInit, Smart!LoopInit, Deep!Addr, Smart!Addr, Deep!NoTask, Smart!NoTask,
         Deep!Read, Smart!Read
<1>3. Deep!Smart!SmartInit <=> Smart!SmartInit
  BY DEF Deep!Smart!SmartInit, Smart!SmartInit, Deep!Smart!InitialBlocks, Smart!InitialBlocks,
         Deep!Smart!Read, Smart!Read, Deep!Smart!ScanRange, Smart!ScanRange
<1>4. Deep!LoopTypeOK <=> Smart!LoopTypeOK
  BY DEF Deep!LoopTypeOK, Smart!LoopTypeOK, Deep!Addr, Smart!Addr, Deep!NoTask, Smart!NoTask,
         Deep!Read, Smart!Read
<1>5. Deep!Smart!SmartTypeOK <=> Smart!SmartTypeOK
  BY <1>1 DEF Deep!Smart!SmartTypeOK, Smart!SmartTypeOK
<1>6. Deep!Smart!Pop <=> Smart!Pop
  BY DEF Deep!Smart!Pop, Smart!Pop, Deep!Smart!IsTop, Smart!IsTop, Deep!Smart!Before,
         Smart!Before, Deep!Smart!Issue, Smart!Issue, Deep!Smart!Idle, Smart!Idle,
         Deep!Smart!NoTask, Smart!NoTask, Deep!Smart!Read, Smart!Read, Deep!Smart!Count,
         Smart!Count, Deep!Smart!loopVars, Smart!loopVars
<1>7. /\ Deep!Smart!Answered <=> Smart!Answered
      /\ Deep!Smart!Refused <=> Smart!Refused
      /\ Deep!Smart!smartVars = Smart!smartVars
  BY DEF Deep!Smart!Answered, Smart!Answered, Deep!Smart!Refused, Smart!Refused,
         Deep!Smart!NoTask, Smart!NoTask, Deep!Smart!Read, Smart!Read, Deep!Smart!Covered,
         Smart!Covered, Deep!Smart!LastOf, Smart!LastOf, Deep!Smart!readable, Smart!readable,
         Deep!Smart!smartVars, Smart!smartVars
<1>8. Deep!Smart!OnSuccess <=> Smart!OnSuccess
  BY <1>7 DEF Deep!Smart!OnSuccess, Smart!OnSuccess, Deep!Smart!smartVars, Smart!smartVars
<1>9. /\ Deep!Smart!Split <=> Smart!Split
      /\ Deep!Smart!GiveUpSingle <=> Smart!GiveUpSingle
  BY <1>7 DEF Deep!Smart!Split, Smart!Split, Deep!Smart!GiveUpSingle, Smart!GiveUpSingle,
         Deep!Smart!MustSplit, Smart!MustSplit, Deep!Smart!Halves, Smart!Halves,
         Deep!Smart!Read, Smart!Read, Deep!Smart!smartVars, Smart!smartVars
<1>10. QED
  BY <1>1, <1>2, <1>3, <1>4, <1>5, <1>6, <1>8, <1>9

\* Every refinement read is a read of the range.
LEMMA RefinementsFit ==
  ASSUME readableIntervals \in Seq(Smart!Interval), NEW x \in Deep!BuildRefinementQueue
  PROVE  x \in Deep!Refinement /\ Deep!Fits(x)
<1> DEFINE near == [k \in Deep!Boundaries |-> Deep!Near(Deep!EdgeAt(k))]
           new(k) == near[k] \ UNION {near[j] : j \in {b \in Deep!Boundaries : b < k}}
<1>1. PICK k \in Deep!Boundaries :
        x \in [edge : {k}, start : new(k), count : RefinementCounts] /\ Deep!Fits(x)
  BY DEF Deep!BuildRefinementQueue, Deep!Capped
<1>2. k \in Nat
  BY DEF Deep!Boundaries
<1>3. new(k) \subseteq Deep!ScanRange
  BY DEF Deep!Near
<1> HIDE DEF new
<1>4. QED
  BY <1>1, <1>2, <1>3 DEF Deep!Refinement

\* What is known of a refinement read.
LEMMA RefinementFacts ==
  ASSUME NEW x \in Deep!Refinement, Deep!Fits(x)
  PROVE  /\ Deep!ReadOf(x) \in Smart!Interval
         /\ Within(Deep!ReadOf(x))
         /\ Deep!ReadOf(x) # Smart!NoTask
<1>1. x.start \in Deep!ScanRange /\ x.count \in 1 .. MaxBlock
  BY RefinementAssumption DEF Deep!Refinement
<1>2. Deep!ReadOf(x) = [start |-> x.start, count |-> x.count]
  BY DEF Deep!ReadOf, Deep!Read
<1>3. x.start + x.count - 1 <= EndAddress
  BY <1>2 DEF Deep!Fits, Deep!LastOf
<1>4. /\ x.start \in Int /\ StartAddress <= x.start /\ x.start <= EndAddress
      /\ x.count \in Int /\ 1 <= x.count /\ x.count <= MaxBlock
  BY <1>1, Bounds DEF Deep!ScanRange
<1>5. Deep!ReadOf(x) \in Smart!Interval
  BY <1>2, <1>4, Bounds DEF Smart!Interval, Smart!Addr
<1>6. QED
  BY <1>2, <1>3, <1>4, <1>5 DEF Within, Smart!NoTask, Smart!Read

\* Handing out a refinement read keeps what is said of the refinement.
LEMMA HandOutKeeps ==
  ASSUME NEW reads, reads \subseteq Deep!Refinement, \A x \in reads : Deep!Fits(x),
         Deep!HandOut(reads), Smart!LoopTypeOK
  PROVE  /\ Smart!LoopTypeOK' /\ refinementQueue' \subseteq reads
         /\ task = Smart!NoTask /\ Within(task') /\ finished' = FALSE
         /\ UNCHANGED <<device, captured, refused>>
<1>1. PICK x \in reads : Deep!Issue(Deep!ReadOf(x)) /\ refinementQueue' = reads \ {x}
  BY DEF Deep!HandOut
<1>2. Deep!ReadOf(x) \in Smart!Interval /\ Within(Deep!ReadOf(x))
  BY RefinementFacts
<1>3. /\ task = Smart!NoTask /\ finished = FALSE
      /\ task' = Deep!ReadOf(x) /\ requests' = Smart!Count(requests)
      /\ UNCHANGED <<device, captured, refused, finished>>
  BY <1>1 DEF Deep!Issue, Deep!Idle, Deep!NoTask, Smart!NoTask, Deep!Read, Smart!Read, Deep!Count,
     Smart!Count, Smart!LoopTypeOK
<1>4. Smart!LoopTypeOK'
  BY <1>2, <1>3, Bounds DEF Smart!LoopTypeOK, Smart!Count, Smart!Interval
<1>5. QED
  BY <1>1, <1>2, <1>3, <1>4

\* The invariant holds when the strategy is set up.
LEMMA DeepInitInv == Deep!Init => DeepIInv
<1> SUFFICES ASSUME Deep!Init PROVE DeepIInv
  OBVIOUS
<1>1. Smart!Init
  BY PhaseOneIsSmart DEF Deep!Init, Smart!Init
<1>2. SmartIInv /\ ~finished
  BY <1>1, SmartInitInv DEF Smart!Init, Smart!LoopInit
<1>3. Smart!LoopTypeOK /\ Smart!SmartTypeOK
  BY <1>2 DEF SmartIInv, Smart!TypeOK
<1>4. readableIntervals \in Seq(Smart!Interval)
  BY DEF Deep!Init
<1>5. Deep!TypeOK
  BY <1>3, <1>4, PhaseOneIsSmart DEF Deep!TypeOK, Deep!Init
<1>6. QED
  BY <1>2, <1>5 DEF DeepIInv, Deep!Init

\* A step of phase 1 is a step of smart.
LEMMA PhaseOneKeeps ==
  ASSUME DeepIInv, Deep!SmartNext \/ Deep!SmartSuccess \/ Deep!SmartFailure
  PROVE  DeepIInv'
<1> USE DEF DeepIInv
<1>1. Smart!Next /\ phase = 1 /\ phase' = 1 /\ UNCHANGED refinementQueue
  BY PhaseOneIsSmart
  DEF Deep!SmartNext, Deep!SmartSuccess, Deep!SmartFailure, Smart!Next, Deep!deepVars
<1>2. SmartIInv'
  BY <1>1, SmartStepInv
<1>3. Smart!LoopTypeOK' /\ Smart!SmartTypeOK'
  BY <1>2 DEF SmartIInv, Smart!TypeOK
<1>4. ~finished'
  BY PhaseOneIsSmart, PopIssues, <1>1
  DEF Deep!SmartNext, Deep!SmartSuccess, Deep!SmartFailure, Smart!Issue, Smart!OnSuccess,
      Smart!Answered, Smart!Split, Smart!GiveUpSingle, Smart!Refused
<1>5. /\ readableIntervals' \in Seq(Smart!Interval)
      /\ failedIntervals' \subseteq Smart!Interval
  <2>1. readableIntervals \in Seq(Smart!Interval) /\ failedIntervals \subseteq Smart!Interval
    BY PhaseOneIsSmart DEF Deep!TypeOK
  <2>2. Busy => task \in Smart!Interval
    BY <1>1 DEF SmartIInv, Smart!TypeOK, Smart!LoopTypeOK, Smart!Interval, Busy
  <2>3. CASE Deep!SmartNext
    BY <2>1, <2>3 DEF Deep!SmartNext, Deep!deepVars
  <2>4. CASE Deep!SmartSuccess
    <3>1. Busy
      BY <2>4, PhaseOneIsSmart DEF Deep!SmartSuccess, Smart!OnSuccess, Smart!Answered, Busy
    <3>2. QED
      BY <2>1, <2>2, <2>4, <3>1 DEF Deep!SmartSuccess
  <2>5. CASE Deep!SmartFailure
    <3>1. Busy
      BY <2>5, PhaseOneIsSmart
      DEF Deep!SmartFailure, Smart!Split, Smart!GiveUpSingle, Smart!Refused, Busy
    <3>2. QED
      BY <2>1, <2>2, <2>5, <3>1 DEF Deep!SmartFailure
  <2>6. QED
    BY <2>3, <2>4, <2>5
<1>6. Deep!TypeOK'
  <2>1. refinementQueue' \subseteq Deep!Refinement
    BY <1>1 DEF Deep!TypeOK, Deep!Refinement, Deep!ScanRange
  <2>2. Deep!LoopTypeOK' /\ Deep!Smart!SmartTypeOK'
    BY <1>3
    DEF Deep!LoopTypeOK, Smart!LoopTypeOK, Deep!Addr, Smart!Addr, Deep!NoTask, Smart!NoTask,
        Deep!Read, Smart!Read, Deep!Smart!SmartTypeOK, Smart!SmartTypeOK,
        Deep!Smart!Interval, Smart!Interval, Deep!Smart!Addr
  <2>3. QED
    BY <1>1, <1>5, <2>1, <2>2, PhaseOneIsSmart DEF Deep!TypeOK
<1>7. QED
  BY <1>1, <1>2, <1>4, <1>6

\* Phase 2 begins with every register settled, and only adds to what is captured.
LEMMA RefinementKeeps ==
  ASSUME DeepIInv,
         Deep!StartRefinement \/ Deep!Refine \/ Deep!Finish \/ Deep!RefinementResult
  PROVE  DeepIInv'
<1> USE DEF DeepIInv
<1>1. /\ Smart!LoopTypeOK /\ Smart!SmartTypeOK
      /\ readableIntervals \in Seq(Smart!Interval)
      /\ refinementQueue \subseteq Deep!Refinement
  BY PhaseOneIsSmart DEF Deep!TypeOK
<1>2. phase' = 2 /\ UNCHANGED <<queue, visited, readableIntervals, failedIntervals>>
  BY DEF Deep!StartRefinement, Deep!Refine, Deep!Finish, Deep!Done, Deep!RefinementResult,
         Deep!deepVars
<1>3. Smart!LoopTypeOK' /\ refinementQueue' \subseteq Deep!Refinement /\ RefinementInv'
  <2>1. CASE Deep!StartRefinement
    <3>1. Smart!ScanRange \subseteq captured \cup refused
      <4>1. phase = 1 /\ queue = {} /\ ~Busy
        BY <2>1 DEF Deep!StartRefinement, Deep!Idle, Deep!NoTask, Deep!Read, Busy, Smart!NoTask,
                    Smart!Read
      <4>2. QED
        BY <4>1 DEF SmartIInv, SmartSettledInv
    <3>2. /\ Deep!BuildRefinementQueue \subseteq Deep!Refinement
          /\ \A x \in Deep!BuildRefinementQueue : Deep!Fits(x)
      BY <1>1, RefinementsFit
    <3>3. \/ Deep!Leave /\ refinementQueue' = {}
          \/ Deep!HandOut(Deep!BuildRefinementQueue)
      BY <2>1 DEF Deep!StartRefinement
    <3>4. CASE Deep!Leave /\ refinementQueue' = {}
      <4>1. /\ task = Smart!NoTask /\ finished' = TRUE
            /\ UNCHANGED <<device, task, captured, refused, requests>>
        BY <3>4 DEF Deep!Leave, Deep!Idle, Deep!NoTask, Deep!Read, Smart!NoTask, Smart!Read
      <4>2. QED
        BY <1>1, <3>1, <3>4, <4>1 DEF Smart!LoopTypeOK, RefinementInv, Busy
    <3>5. CASE Deep!HandOut(Deep!BuildRefinementQueue)
      BY <1>1, <3>1, <3>2, <3>5, HandOutKeeps DEF RefinementInv
    <3>6. QED
      BY <3>3, <3>4, <3>5
  <2>2. CASE Deep!Refine
    BY <1>1, <2>2, HandOutKeeps DEF Deep!Refine, RefinementInv
  <2>3. CASE Deep!Finish
    <3>1. /\ task = Smart!NoTask /\ finished' = TRUE /\ phase = 2
          /\ UNCHANGED <<device, task, captured, refused, requests, refinementQueue>>
      BY <2>3 DEF Deep!Finish, Deep!Done, Deep!Leave, Deep!Idle, Deep!NoTask, Deep!Read,
                  Smart!NoTask, Smart!Read, Deep!deepVars
    <3>2. QED
      BY <1>1, <3>1 DEF Smart!LoopTypeOK, RefinementInv, Busy
  <2>4. CASE Deep!RefinementResult
    <3>1. /\ Busy /\ ~finished /\ Within(task) /\ task \in Smart!Interval /\ phase = 2
      BY <1>1, <2>4 DEF Deep!RefinementResult, Deep!Answered, Deep!Refused, Deep!NoTask, Deep!Read,
         Smart!NoTask, Smart!Read, Busy, RefinementInv, Smart!LoopTypeOK, Smart!Interval
    <3>2. /\ task' = Smart!NoTask
          /\ captured \subseteq captured' /\ captured' \subseteq Smart!Addr
          /\ refused \subseteq refused' /\ refused' \subseteq Smart!Addr
          /\ UNCHANGED <<device, requests, finished, refinementQueue>>
      BY <1>1, <2>4, <3>1
      DEF Deep!RefinementResult, Deep!Answered, Deep!Refused, Deep!readable, Deep!NoTask,
          Deep!Read, Smart!NoTask, Smart!Read, Smart!LoopTypeOK, Smart!Interval, Deep!deepVars
    <3>3. QED
      BY <1>1, <3>1, <3>2 DEF Smart!LoopTypeOK, RefinementInv, Busy
  <2>5. QED
    BY <2>1, <2>2, <2>3, <2>4
<1>4. Deep!TypeOK'
  <2>1. Smart!SmartTypeOK'
    BY <1>1, <1>2 DEF Smart!SmartTypeOK
  <2>2. Deep!LoopTypeOK' /\ Deep!Smart!SmartTypeOK'
    BY <1>3, <2>1
    DEF Deep!LoopTypeOK, Smart!LoopTypeOK, Deep!Addr, Smart!Addr, Deep!NoTask, Smart!NoTask,
        Deep!Read, Smart!Read, Deep!Smart!SmartTypeOK, Smart!SmartTypeOK,
        Deep!Smart!Interval, Smart!Interval, Deep!Smart!Addr
  <2>3. QED
    BY <1>2, <1>3, <2>2 DEF Deep!TypeOK
<1>5. QED
  BY <1>2, <1>3, <1>4

\* Every step preserves the invariant.
LEMMA DeepStepInv == DeepIInv /\ [Deep!Next]_(Deep!vars) => DeepIInv'
<1> SUFFICES ASSUME DeepIInv, [Deep!Next]_(Deep!vars) PROVE DeepIInv'
  OBVIOUS
<1>1. CASE UNCHANGED Deep!vars
  <2>1. UNCHANGED <<device, task, captured, refused, requests, finished, queue, visited, phase,
                    readableIntervals, failedIntervals, refinementQueue>>
    BY <1>1 DEF Deep!vars, Deep!loopVars, Deep!deepVars
  <2>2. Deep!TypeOK'
    BY <2>1 DEF DeepIInv, Deep!TypeOK, Deep!LoopTypeOK, Deep!Smart!SmartTypeOK
  <2>3. phase = 1 => SmartIInv' /\ ~finished'
    BY <2>1, SmartStepInv DEF DeepIInv, Smart!vars, Smart!loopVars, Smart!smartVars
  <2>4. phase = 2 => RefinementInv'
    BY <2>1 DEF DeepIInv, RefinementInv, Busy
  <2>5. QED
    BY <2>1, <2>2, <2>3, <2>4 DEF DeepIInv
<1>2. QED
  BY <1>1, PhaseOneKeeps, RefinementKeeps DEF Deep!Next

\* The invariant holds in every reachable state.
LEMMA DeepInvHolds == Deep!Spec => []DeepIInv
<1>1. QED
  BY DeepInitInv, DeepStepInv, PTL DEF Deep!Spec

\* What the invariant says of the read in progress and of the end, in both phases.
LEMMA DeepFacts ==
  ASSUME DeepIInv
  PROVE  /\ Smart!LoopTypeOK
         /\ Busy => ~finished /\ task \in Smart!Interval /\ Within(task)
         /\ finished => Smart!ScanRange \subseteq captured \cup refused
         /\ (phase = 1 /\ queue = {} /\ ~Busy) \/ phase = 2
              => Smart!ScanRange \subseteq captured \cup refused
<1>1. phase \in {1, 2} /\ Smart!LoopTypeOK
  BY PhaseOneIsSmart DEF DeepIInv, Deep!TypeOK
<1>2. Busy => task \in Smart!Interval
  BY <1>1 DEF Smart!LoopTypeOK, Smart!Interval, Busy
<1>3. CASE phase = 1
  BY <1>1, <1>2, <1>3 DEF DeepIInv, SmartIInv, TaskInv, SmartSettledInv
<1>4. CASE phase = 2
  BY <1>1, <1>2, <1>4 DEF DeepIInv, RefinementInv
<1>5. QED
  BY <1>1, <1>3, <1>4

\* Every step of deep is a step of the promise, or none.
LEMMA DeepStepImplements ==
  DeepIInv /\ [Deep!Next]_(Deep!vars) => [Deep!Promise!PromiseNext]_(Deep!Promise!promiseVars)
<1> SUFFICES ASSUME DeepIInv, [Deep!Next]_(Deep!vars)
             PROVE  [Deep!Promise!PromiseNext]_(Deep!Promise!promiseVars)
  OBVIOUS
<1> USE DEF Deep!Promise!promiseVars
<1>1. Busy =>
        /\ ~finished
        /\ task.start \in Smart!ScanRange /\ task.count \in Int /\ 1 <= task.count
        /\ task.start + task.count - 1 \in Smart!ScanRange
  BY DeepFacts, Bounds DEF Within, Smart!Interval, Smart!Addr, Smart!ScanRange
<1>2. ASSUME Smart!Answered PROVE Deep!Promise!Capture
  BY <1>1, <1>2 DEF Smart!Answered, Smart!Covered, Smart!LastOf, Deep!Promise!Capture,
     Deep!Promise!Wanted, Smart!ScanRange, Busy
<1>3. ASSUME Smart!Refused PROVE Deep!Promise!GiveUp \/ UNCHANGED Deep!Promise!promiseVars
  <2>1. CASE task.count = 1
    BY <1>1, <1>3, <2>1 DEF Smart!Refused, Deep!Promise!GiveUp, Deep!Promise!Wanted,
       Smart!ScanRange, Busy
  <2>2. CASE task.count # 1
    BY <1>1, <1>3, <2>2 DEF Smart!Refused
  <2>3. QED
    BY <2>1, <2>2
<1>4. /\ Deep!SmartSuccess => Smart!Answered
      /\ Deep!SmartFailure => Smart!Refused
      /\ Deep!RefinementResult => Smart!Answered \/ Smart!Refused
  <2>1. /\ Deep!Answered <=> Smart!Answered
        /\ Deep!Refused <=> Smart!Refused
    BY DEF Deep!Answered, Smart!Answered, Deep!Refused, Smart!Refused,
           Deep!NoTask, Smart!NoTask, Deep!Read, Smart!Read, Deep!Covered,
           Smart!Covered, Deep!LastOf, Smart!LastOf, Deep!readable, Smart!readable
  <2>2. QED
    BY <2>1, PhaseOneIsSmart
    DEF Deep!SmartSuccess, Deep!SmartFailure, Deep!RefinementResult, Smart!OnSuccess,
        Smart!Split, Smart!GiveUpSingle
<1>5. ASSUME Deep!Leave, Deep!StartRefinement \/ Deep!Finish PROVE Deep!Promise!Conclude
  <2>1. Smart!ScanRange \subseteq captured \cup refused
    BY <1>5, DeepFacts
    DEF Deep!StartRefinement, Deep!Finish, Deep!Done, Deep!Idle, Deep!NoTask, Deep!Read,
        Smart!NoTask, Smart!Read, Busy
  <2>2. QED
    BY <1>5, <2>1 DEF Deep!Leave, Deep!Idle, Deep!Promise!Conclude, Deep!Promise!Wanted,
       Smart!ScanRange
<1>6. \/ Deep!SmartNext
      \/ Deep!Refine
      \/ Deep!StartRefinement /\ ~Deep!Leave
      => UNCHANGED Deep!Promise!promiseVars
  <2>1. Deep!SmartNext => UNCHANGED Deep!Promise!promiseVars
    BY PhaseOneIsSmart, PopIssues DEF Deep!SmartNext, DeepIInv, Smart!Issue
  <2>2. QED
    BY <2>1 DEF Deep!Refine, Deep!StartRefinement, Deep!HandOut, Deep!Issue
<1>7. UNCHANGED Deep!vars => UNCHANGED Deep!Promise!promiseVars
  BY DEF Deep!vars, Deep!loopVars
<1>8. Deep!Finish => Deep!Leave
  BY DEF Deep!Finish
<1>9. QED
  BY <1>2, <1>3, <1>4, <1>5, <1>6, <1>7, <1>8 DEF Deep!Next, Deep!Promise!PromiseNext

\* deep implements the promise of an exhaustive scan, whatever fails in either
\* phase and wherever the cap cuts the refinement short.
THEOREM DeepImplements == Deep!Spec => Deep!ImplementsRangeScan
<1>1. Deep!Init => Deep!Promise!PromiseInit
  BY DEF Deep!Init, Deep!LoopInit, Deep!Promise!PromiseInit
<1>2. QED
  BY <1>1, DeepStepImplements, DeepInvHolds, PTL
  DEF Deep!Spec, Deep!ImplementsRangeScan, Deep!Promise!PromiseSpec
-----------------------------------------------------------------------------
(* The scan with whichever strategy was chosen.                            *)

\* The capture only holds registers the device has, and a device that is not
\* lossy refuses no register it has.
HonestInv ==
  /\ captured \subseteq readable
  /\ ~device.lossy => refused \cap readable = {}

IInv ==
  /\ algo \in {"safe", "smart", "deep"}
  /\ algo = "safe" => SafeIInv /\ NoSmart /\ NoDeep
  /\ algo = "smart" => SmartIInv /\ NoSafe /\ NoDeep
  /\ algo = "deep" => DeepIInv /\ NoSafe
  /\ HonestInv

\* What the strategies' invariants say of the loop they share.
LEMMA LoopFacts ==
  ASSUME IInv
  PROVE  /\ LoopTypeOK
         /\ task # NoTask =>
              /\ ~finished
              /\ task.start \in ScanRange /\ task.count \in Int /\ 1 <= task.count
              /\ task.start + task.count - 1 \in ScanRange
         /\ finished /\ (NotWholeSpace \/ algo # "safe") => ScanRange \subseteq captured \cup refused
<1>1. CASE algo = "safe"
  <2>1. SafeIInv
    BY <1>1 DEF IInv
  <2>2. LoopTypeOK
    BY <2>1 DEF SafeIInv, Safe!TypeOK, Safe!LoopTypeOK, LoopTypeOK, Safe!Addr, Addr, Safe!NoTask,
       NoTask, Safe!Read, Read
  <2>3. task # NoTask =>
          /\ ~finished
          /\ task.start \in ScanRange /\ task.count \in Int /\ 1 <= task.count
          /\ task.start + task.count - 1 \in ScanRange
    <3>1. CASE probe = "inFlight"
      BY <2>1, <3>1, Bounds
      DEF SafeIInv, SafeProbeInv, SafeFinishInv, Safe!Read, Safe!NoTask, Read, NoTask,
          Safe!ScanRange, ScanRange
    <3>2. CASE probe # "inFlight"
      BY <2>1, <3>2, Bounds
      DEF SafeIInv, SafeReadInv, SafeFinishInv, Safe!TypeOK, Safe!NoTask, Safe!Read, NoTask, Read,
          ScanRange, SafeLeft
    <3>3. QED
      BY <3>1, <3>2
  <2>4. finished /\ NotWholeSpace => ScanRange \subseteq captured \cup refused
    BY <2>1, Bounds DEF SafeIInv, SafeFinishInv, Safe!TypeOK, SafeSettledInv, ScanRange, Safe!Addr
  <2>5. QED
    BY <1>1, <2>2, <2>3, <2>4
<1>2. CASE algo \in {"smart", "deep"}
  <2>1. /\ Smart!LoopTypeOK
        /\ Busy => ~finished /\ task \in Smart!Interval /\ Within(task)
        /\ finished => Smart!ScanRange \subseteq captured \cup refused
    <3>1. CASE algo = "smart"
      BY <3>1
      DEF IInv, SmartIInv, Smart!TypeOK, Smart!LoopTypeOK, TaskInv, SmartFinishInv,
          SmartSettledInv, Smart!Interval, Busy
    <3>2. CASE algo = "deep"
      BY <3>2, DeepFacts DEF IInv
    <3>3. QED
      BY <1>2, <3>1, <3>2
  <2>2. LoopTypeOK
    BY <2>1 DEF Smart!LoopTypeOK, LoopTypeOK, Smart!Addr, Addr, Smart!NoTask, NoTask,
       Smart!Read, Read
  <2>3. QED
    BY <2>1, <2>2, Bounds
    DEF Within, Busy, Smart!Interval, Smart!Addr, Smart!NoTask, Smart!Read, NoTask, Read,
        Smart!ScanRange, ScanRange
<1>3. QED
  BY <1>1, <1>2 DEF IInv

\* A step of a strategy either settles the read in progress or leaves the
\* device, the captured and the refused registers as they are.
LEMMA StepSettlesOrNot ==
  ASSUME IInv, Next
  PROVE  Answered \/ Refused \/ UNCHANGED <<device, captured, refused>>
<1>1. CASE SafeStep
  <2>1. Safe!ProbeResult \/ Safe!OnSuccess \/ Safe!OnFailure => Answered \/ Refused
    BY DEF Safe!ProbeResult, Safe!OnSuccess, Safe!OnFailure, Safe!Answered, Answered,
           Safe!Refused, Refused, Safe!NoTask, NoTask, Safe!Read, Read, Safe!Covered, Covered,
           Safe!LastOf, LastOf, Safe!readable, readable
  <2>2. Safe!IssueProbe \/ Safe!IssueCandidate \/ Safe!Finish
          => UNCHANGED <<device, captured, refused>>
    BY DEF Safe!IssueProbe, Safe!IssueCandidate, Safe!Finish, Safe!Issue, Safe!Leave
  <2>3. QED
    BY <1>1, <2>1, <2>2 DEF SafeStep, Safe!Next
<1>2. Smart!Answered \/ Smart!Refused => Answered \/ Refused
  BY DEF Smart!Answered, Answered, Smart!Refused, Refused, Smart!NoTask, NoTask, Smart!Read, Read,
         Smart!Covered, Covered, Smart!LastOf, LastOf, Smart!readable, readable
<1>3. CASE SmartStep
  <2>1. SmartIInv
    BY <1>3 DEF SmartStep, IInv
  <2>2. Smart!Pop => UNCHANGED <<device, captured, refused>>
    BY <2>1, PopIssues DEF Smart!Issue
  <2>3. QED
    BY <1>2, <1>3, <2>2
    DEF SmartStep, Smart!Next, Smart!Finish, Smart!Leave, Smart!OnSuccess, Smart!Split,
        Smart!GiveUpSingle
<1>4. CASE DeepStep
  <2>1. DeepIInv /\ Deep!Next
    BY <1>4 DEF DeepStep, IInv
  <2>2. Deep!SmartNext => UNCHANGED <<device, captured, refused>>
    BY <2>1, PhaseOneIsSmart, PopIssues DEF Deep!SmartNext, DeepIInv, Smart!Issue
  <2>3. Deep!SmartSuccess \/ Deep!SmartFailure => Answered \/ Refused
    BY <1>2, PhaseOneIsSmart
    DEF Deep!SmartSuccess, Deep!SmartFailure, Smart!OnSuccess, Smart!Split, Smart!GiveUpSingle
  <2>4. Deep!RefinementResult => Answered \/ Refused
    BY DEF Deep!RefinementResult, Deep!Answered, Answered, Deep!Refused, Refused, Deep!NoTask,
           NoTask, Deep!Read, Read, Deep!Covered, Covered, Deep!LastOf, LastOf, Deep!readable,
           readable
  <2>5. Deep!StartRefinement \/ Deep!Refine \/ Deep!Finish => UNCHANGED <<device, captured, refused>>
    BY DEF Deep!StartRefinement, Deep!Refine, Deep!Finish, Deep!HandOut, Deep!Issue, Deep!Leave
  <2>6. QED
    BY <2>1, <2>2, <2>3, <2>4, <2>5 DEF Deep!Next
<1>5. QED
  BY <1>1, <1>3, <1>4 DEF Next

\* Settling a read captures what the device has and refuses what it may refuse.
LEMMA HonestKeeps ==
  ASSUME IInv, Answered \/ Refused \/ UNCHANGED <<device, captured, refused>>
  PROVE  HonestInv'
<1>1. HonestInv /\ LoopTypeOK
  BY LoopFacts DEF IInv
<1>2. CASE Answered
  BY <1>1, <1>2 DEF Answered, HonestInv, readable
<1>3. CASE Refused
  <2>1. task.count = 1 => Covered(task) = {task.start}
    BY <1>3, LoopFacts, Bounds DEF Refused, Covered, LastOf, ScanRange
  <2>2. QED
    BY <1>1, <1>3, <2>1 DEF Refused, HonestInv, readable
<1>4. QED
  BY <1>1, <1>2, <1>3 DEF HonestInv, readable

\* The invariant holds when the strategy is set up.
LEMMA InitInv == Init => IInv
<1> SUFFICES ASSUME Init PROVE IInv
  OBVIOUS
<1>1. captured = {} /\ refused = {}
  BY DEF Init, Safe!Init, Smart!Init, Deep!Init, Safe!LoopInit, Smart!LoopInit, Deep!LoopInit
<1>2. HonestInv
  BY <1>1 DEF HonestInv
<1>3. QED
  BY <1>2, SafeInitInv, SmartInitInv, DeepInitInv DEF Init, IInv

\* Every step preserves the invariant.
LEMMA StepInv == IInv /\ [Next]_vars => IInv'
<1> SUFFICES ASSUME IInv, [Next]_vars PROVE IInv'
  OBVIOUS
<1>1. HonestInv'
  <2>1. UNCHANGED vars => UNCHANGED <<device, captured, refused>>
    BY DEF vars, loopVars
  <2>2. QED
    BY <2>1, StepSettlesOrNot, HonestKeeps
<1>2. CASE SafeStep
  <2>1. SafeIInv' /\ NoSmart' /\ NoDeep' /\ algo = "safe" /\ algo' = "safe"
    BY <1>2, SafeStepInv
    DEF SafeStep, IInv, NoSmart, NoDeep, smartVars, deepVars
  <2>2. QED
    BY <1>1, <2>1 DEF IInv
<1>3. CASE SmartStep
  <2>1. SmartIInv' /\ NoSafe' /\ NoDeep' /\ algo = "smart" /\ algo' = "smart"
    BY <1>3, SmartStepInv
    DEF SmartStep, IInv, NoSafe, NoDeep, safeVars, deepVars
  <2>2. QED
    BY <1>1, <2>1 DEF IInv
<1>4. CASE DeepStep
  <2>1. DeepIInv' /\ NoSafe' /\ algo = "deep" /\ algo' = "deep"
    BY <1>4, DeepStepInv DEF DeepStep, IInv, NoSafe, safeVars
  <2>2. QED
    BY <1>1, <2>1 DEF IInv
<1>5. CASE UNCHANGED vars
  <2>1. UNCHANGED <<algo, device, task, captured, refused, requests, finished, current, ladder,
                    hadFailure, probe, probeAddr, queue, visited, phase, readableIntervals,
                    failedIntervals, refinementQueue>>
    BY <1>5 DEF vars, loopVars, safeVars, smartVars, deepVars
  <2>2. UNCHANGED Safe!vars /\ UNCHANGED Smart!vars /\ UNCHANGED Deep!vars
    BY <2>1 DEF Safe!vars, Safe!loopVars, Safe!strategyVars, Smart!vars, Smart!loopVars,
       Smart!smartVars, Deep!vars, Deep!loopVars, Deep!deepVars
  <2>3. NoSafe => NoSafe'
    BY <2>1 DEF NoSafe
  <2>4. NoSmart /\ NoDeep => NoSmart' /\ NoDeep'
    BY <2>1 DEF NoSmart, NoDeep
  <2>5. NoDeep => NoDeep'
    BY <2>1 DEF NoDeep
  <2>6. algo' = algo
    BY <2>1
  <2>7. QED
    BY <1>1, <2>2, <2>3, <2>4, <2>5, <2>6, SafeStepInv, SmartStepInv, DeepStepInv DEF IInv
<1>6. QED
  BY <1>2, <1>3, <1>4, <1>5 DEF Next

\* The invariant holds in every reachable state of a scan, for every strategy.
THEOREM ExhaustiveInvariant == Spec => []IInv
<1>1. QED
  BY InitInv, StepInv, PTL DEF Spec

\* Whatever the strategy, the state of a scan has its type, and the fields of
\* the strategies that were not chosen stay as they were.
THEOREM ScanTypeOK == Spec => []TypeOK
<1>1. IInv => TypeOK
  <2>1. /\ SafeIInv => Safe!TypeOK
        /\ SmartIInv => Smart!TypeOK
        /\ DeepIInv => Deep!TypeOK
    BY DEF SafeIInv, SmartIInv, DeepIInv
  <2>2. QED
    BY <2>1 DEF IInv, TypeOK
<1>2. QED
  BY <1>1, ExhaustiveInvariant, PTL

\* safe, smart and deep read registers of the configured range only, the
\* left-boundary probe and the refinement reads included.
THEOREM ScanStaysInRange == Spec => []ReadsStayInRange
<1>1. IInv => ReadsStayInRange
  BY LoopFacts, Bounds DEF ReadsStayInRange, Covered, LastOf, ScanRange
<1>2. QED
  BY <1>1, ExhaustiveInvariant, PTL

\* A scan that ended has captured every register of the range or seen the
\* device refuse it alone - unless the range is the whole address space, on
\* which safe's count of the registers left wraps to 0.
THEOREM ScanSettles ==
  ASSUME NotWholeSpace
  PROVE  Spec => []EveryAddressSettled
<1>1. IInv => EveryAddressSettled
  BY LoopFacts, NotWholeSpace DEF EveryAddressSettled
<1>2. QED
  BY <1>1, ExhaustiveInvariant, PTL

\* On a device that answers every read it can, the capture of a finished scan
\* holds exactly the readable registers of the range.
THEOREM ScanCapturesWhatIsReadable ==
  ASSUME NotWholeSpace
  PROVE  Spec => []CapturesWhatIsReadable
<1>1. IInv => CapturesWhatIsReadable
  <2>1. IInv => HonestInv
    BY DEF IInv
  <2>2. QED
    BY <2>1, LoopFacts, NotWholeSpace DEF HonestInv, CapturesWhatIsReadable
<1>2. QED
  BY <1>1, ExhaustiveInvariant, PTL

\* Whatever the strategy, a scan implements the promise of an exhaustive scan:
\* it captures blocks of the range, gives up single registers of it, and
\* concludes when every register is one or the other.
THEOREM ScanImplements ==
  ASSUME NotWholeSpace
  PROVE  Spec => ImplementsRangeScan
<1>1. Init => Promise!PromiseInit
  BY DEF Init, Safe!Init, Smart!Init, Deep!Init, Safe!LoopInit, Smart!LoopInit, Deep!LoopInit,
         Promise!PromiseInit
<1>2. IInv /\ [Next]_vars => [Promise!PromiseNext]_(Promise!promiseVars)
  <2> SUFFICES ASSUME IInv, [Next]_vars PROVE [Promise!PromiseNext]_(Promise!promiseVars)
    OBVIOUS
  <2>1. CASE SafeStep
    <3>1. [Safe!Promise!PromiseNext]_(Safe!Promise!promiseVars)
      BY <2>1, SafeStepImplements, NotWholeSpace DEF SafeStep, IInv
    <3>2. QED
      BY <3>1
      DEF Safe!Promise!PromiseNext, Promise!PromiseNext, Safe!Promise!promiseVars,
          Promise!promiseVars, Safe!Promise!Capture, Promise!Capture, Safe!Promise!GiveUp,
          Promise!GiveUp, Safe!Promise!Conclude, Promise!Conclude, Safe!Promise!Wanted,
          Promise!Wanted
  <2>2. CASE SmartStep
    <3>1. [Smart!Promise!PromiseNext]_(Smart!Promise!promiseVars)
      BY <2>2, SmartStepImplements DEF SmartStep, IInv
    <3>2. QED
      BY <3>1
      DEF Smart!Promise!PromiseNext, Promise!PromiseNext, Smart!Promise!promiseVars,
          Promise!promiseVars, Smart!Promise!Capture, Promise!Capture, Smart!Promise!GiveUp,
          Promise!GiveUp, Smart!Promise!Conclude, Promise!Conclude, Smart!Promise!Wanted,
          Promise!Wanted
  <2>3. CASE DeepStep
    <3>1. [Deep!Promise!PromiseNext]_(Deep!Promise!promiseVars)
      BY <2>3, DeepStepImplements DEF DeepStep, IInv
    <3>2. QED
      BY <3>1
      DEF Deep!Promise!PromiseNext, Promise!PromiseNext, Deep!Promise!promiseVars,
          Promise!promiseVars, Deep!Promise!Capture, Promise!Capture, Deep!Promise!GiveUp,
          Promise!GiveUp, Deep!Promise!Conclude, Promise!Conclude, Deep!Promise!Wanted,
          Promise!Wanted
  <2>4. CASE UNCHANGED vars
    BY <2>4 DEF vars, loopVars, Promise!promiseVars
  <2>5. QED
    BY <2>1, <2>2, <2>3, <2>4 DEF Next
<1>3. QED
  BY <1>1, <1>2, ExhaustiveInvariant, PTL DEF Spec, ImplementsRangeScan, Promise!PromiseSpec
-----------------------------------------------------------------------------
(* What a safe scan costs.                                                *)

\* The reads of the walk at the current address: it has tried the sizes that
\* are not left.
Trying == (task # Safe!NoTask /\ probe # "inFlight") \/ ladder # {}
SizesTried == IF Trying THEN Cardinality(SafeSizes) - Cardinality(ladder) ELSE 0
Walked == current - StartAddress

\* Every address walked over cost a read of each size at most, and after a
\* success, which took one read less, a probe.
SafeCostInv ==
  /\ captured = {} => probe = "none" /\ requests <= (Walked * Cardinality(SafeSizes)) + SizesTried
  /\ requests + (IF probe = "pending" THEN 1 ELSE 0)
       <= (Walked * (Cardinality(SafeSizes) + 1)) + SizesTried

\* The number of sizes, and of those left.
LEMMA SizesCount ==
  /\ IsFiniteSet(SafeSizes) /\ Cardinality(SafeSizes) \in Nat /\ Cardinality(SafeSizes) >= 1
  /\ \A sizes \in SUBSET SafeSizes :
       /\ IsFiniteSet(sizes) /\ Cardinality(sizes) \in Nat
       /\ Cardinality(sizes) <= Cardinality(SafeSizes)
       /\ Cardinality(sizes) = 0 <=> sizes = {}
       /\ \A size \in sizes : Cardinality(sizes \ {size}) = Cardinality(sizes) - 1
<1>1. IsFiniteSet(SafeSizes)
  <2>1. IsFiniteSet(1 .. MaxBlock)
    BY Bounds, FS_Interval
  <2>2. QED
    BY <2>1, SizesAssumption, FS_Subset
<1>2. \A sizes \in SUBSET SafeSizes :
        IsFiniteSet(sizes) /\ Cardinality(sizes) <= Cardinality(SafeSizes)
  BY <1>1, FS_Subset
<1>3. \A sizes \in SUBSET SafeSizes :
        /\ Cardinality(sizes) \in Nat
        /\ Cardinality(sizes) = 0 <=> sizes = {}
        /\ \A size \in sizes : Cardinality(sizes \ {size}) = Cardinality(sizes) - 1
  BY <1>2, FS_CardinalityType, FS_EmptySet, FS_RemoveElement
<1>4. Cardinality(SafeSizes) \in Nat /\ Cardinality(SafeSizes) # 0
  BY <1>3, SizesAssumption
<1>5. QED
  BY <1>1, <1>2, <1>3, <1>4

\* A product grows by its second factor at least when its first factor grows.
LEMMA ProductGrows ==
  ASSUME NEW m \in Nat, NEW n \in Nat, m < n, NEW k \in Nat
  PROVE  m * k \in Nat /\ n * k \in Nat /\ (m * k) + k <= n * k
<1>1. PICK d \in Nat : n = m + 1 + d
  <2>1. n - m - 1 \in Nat /\ n = m + 1 + (n - m - 1)
    OBVIOUS
  <2>2. QED
    BY <2>1
<1>2. n * k = (m * k) + k + (d * k)
  BY <1>1
<1>3. m * k \in Nat /\ d * k \in Nat
  OBVIOUS
<1>4. QED
  BY <1>2, <1>3

\* The request counter grows by one at most.
LEMMA CountsUp == ASSUME NEW x \in Nat PROVE Safe!Count(x) \in Nat /\ Safe!Count(x) <= x + 1
  BY DEF Safe!Count

\* Where the walk is, in numbers.
LEMMA WalkFacts ==
  ASSUME SafeIInv
  PROVE  /\ Walked \in Nat /\ Walked <= EndAddress - StartAddress + 1
         /\ current = StartAddress + Walked
         /\ requests \in Nat
         /\ Trying => Walked <= EndAddress - StartAddress
         /\ SizesTried \in Nat /\ SizesTried <= Cardinality(SafeSizes)
<1>1. current \in StartAddress .. EndAddress + 1 /\ requests \in Nat /\ ladder \in SUBSET SafeSizes
  BY Bounds DEF SafeIInv, Safe!TypeOK, Safe!LoopTypeOK
<1>2. Trying => current <= EndAddress
  <2>1. CASE task # Safe!NoTask /\ probe # "inFlight"
    BY <1>1, <2>1, Bounds DEF SafeIInv, SafeReadInv, SafeLeft
  <2>2. CASE task = Safe!NoTask /\ ladder # {}
    BY <1>1, <2>2, Bounds DEF SafeIInv, SafeLadderInv, SafeLeft
  <2>3. CASE probe = "inFlight"
    BY <2>3 DEF SafeIInv, SafeProbeInv, Trying
  <2>4. QED
    BY <2>1, <2>2, <2>3 DEF Trying
<1>3. SizesTried \in Nat /\ SizesTried <= Cardinality(SafeSizes)
  BY <1>1, SizesCount DEF SizesTried
<1>4. QED
  BY <1>1, <1>2, <1>3, Bounds DEF Walked

\* Every strategy counts the elements of a set in the same way.
LEMMA SameCardinality ==
  ASSUME NEW S
  PROVE  /\ Safe!Cardinality(S) = Cardinality(S)
         /\ Smart!Cardinality(S) = Cardinality(S)
         /\ Deep!Cardinality(S) = Cardinality(S)
         /\ Deep!Smart!Cardinality(S) = Cardinality(S)
<1>1. Safe!Cardinality(S) = Cardinality(S)
  BY DEF Safe!Cardinality, Cardinality
<1>2. Smart!Cardinality(S) = Cardinality(S)
  BY DEF Smart!Cardinality, Cardinality
<1>3. Deep!Cardinality(S) = Cardinality(S)
  BY DEF Deep!Cardinality, Cardinality
<1>4. Deep!Smart!Cardinality(S) = Cardinality(S)
  BY DEF Deep!Smart!Cardinality, Cardinality
<1>5. QED
  BY <1>1, <1>2, <1>3, <1>4

\* A safe scan starts with nothing read.
LEMMA SafeCostInit == Safe!Init => SafeCostInv
<1> SUFFICES ASSUME Safe!Init PROVE SafeCostInv
  OBVIOUS
<1>1. /\ task = Safe!NoTask /\ captured = {} /\ requests = 0 /\ ladder = {} /\ probe = "none"
      /\ Walked = 0 /\ ~Trying
  BY Bounds DEF Safe!Init, Safe!LoopInit, Walked, Trying
<1>2. SizesTried = 0
  BY <1>1 DEF SizesTried
<1>3. QED
  BY <1>1, <1>2, SizesCount DEF SafeCostInv

\* Every step stays within what the walk has cost so far.
LEMMA SafeCostStep ==
  ASSUME SafeIInv, SafeIInv', SafeCostInv, [Safe!Next]_(Safe!vars)
  PROVE  SafeCostInv'
<1> DEFINE k == Cardinality(SafeSizes)
<1>1. k \in Nat /\ k >= 1
  BY SizesCount
<1>2. /\ Walked \in Nat /\ requests \in Nat /\ SizesTried \in Nat /\ SizesTried <= k
      /\ current = StartAddress + Walked /\ ladder \in SUBSET SafeSizes
      /\ probe \in {"none", "pending", "inFlight"}
  BY WalkFacts DEF SafeIInv, Safe!TypeOK
<1>3. Walked' \in Nat /\ ladder' \in SUBSET SafeSizes
  <2>1. current' \in StartAddress .. EndAddress + 1 /\ ladder' \in SUBSET SafeSizes
    BY DEF SafeIInv, Safe!TypeOK
  <2>2. Walked' = current' - StartAddress
    BY DEF Walked
  <2>3. Walked' \in Nat
    <3>1. PICK at \in StartAddress .. EndAddress + 1 : at = current'
      BY <2>1
    <3>2. at - StartAddress \in Nat
      BY Bounds
    <3>3. QED
      BY <2>2, <3>1, <3>2
  <2>4. QED
    BY <2>1, <2>3
<1>4. SizesTried' \in Nat
  BY <1>1, <1>3, SizesCount DEF SizesTried
<1>5. Safe!Count(requests) \in Nat /\ Safe!Count(requests) <= requests + 1
  BY <1>2, CountsUp
<1>6. /\ Walked * k \in Nat /\ Walked' * k \in Nat
      /\ Walked * (k + 1) \in Nat /\ Walked' * (k + 1) \in Nat
  BY <1>1, <1>2, <1>3
\* The four kinds of step, as the walk sees them.
<1>7. ASSUME UNCHANGED <<captured, requests, probe, Walked>>, SizesTried' = SizesTried
      PROVE  SafeCostInv'
  BY <1>7 DEF SafeCostInv
<1>8. CASE Safe!IssueProbe
  <2>1. /\ probe = "pending" /\ probe' = "inFlight" /\ ladder = {} /\ ladder' = {}
        /\ task = Safe!NoTask /\ captured' = captured /\ Walked' = Walked
        /\ requests' = Safe!Count(requests)
    BY <1>8 DEF Safe!IssueProbe, Safe!Issue, Safe!Idle, SafeIInv, SafeProbeInv, Walked
  <2>2. SizesTried = 0 /\ SizesTried' = 0
    BY <2>1 DEF SizesTried, Trying
  <2>3. QED
    BY <1>2, <1>5, <1>6, <2>1, <2>2 DEF SafeCostInv
<1>9. CASE Safe!IssueCandidate
  <2> DEFINE open == IF ladder = {} THEN Safe!Candidates(current) ELSE ladder
  <2>1. PICK size \in open : Safe!Issue(Safe!Read(current, size)) /\ ladder' = open \ {size}
    BY <1>9 DEF Safe!IssueCandidate
  <2>2. /\ probe = "none" /\ probe' = "none" /\ task = Safe!NoTask /\ task'.count = size
        /\ captured' = captured /\ Walked' = Walked /\ requests' = Safe!Count(requests)
    BY <1>9, <2>1 DEF Safe!IssueCandidate, Safe!Issue, Safe!Idle, Safe!Read, Walked
  <2>3. open \subseteq SafeSizes
    BY <1>2, CandidatesFit, Bounds DEF SafeIInv, Safe!TypeOK
  <2>4. task' # Safe!NoTask
    BY <2>1, <2>2, <2>3, Bounds DEF Safe!NoTask, Safe!Read
  <2>5. Cardinality(ladder') = Cardinality(open) - 1 /\ Cardinality(open) \in Nat
        /\ Cardinality(open) <= k /\ Cardinality({}) = 0
    <3>1. {} \in SUBSET SafeSizes /\ open \in SUBSET SafeSizes
      BY <2>3
    <3>2. QED
      BY <2>1, <3>1, SizesCount
  <2>6. SizesTried' >= SizesTried + 1
    <3>1. SizesTried' = k - Cardinality(ladder')
      BY <2>2, <2>4 DEF SizesTried, Trying
    <3>2. CASE ladder = {}
      BY <1>1, <2>2, <2>5, <3>1, <3>2 DEF SizesTried, Trying
    <3>3. CASE ladder # {}
      BY <1>1, <2>2, <2>5, <3>1, <3>3 DEF SizesTried, Trying
    <3>4. QED
      BY <3>2, <3>3
  <2>7. QED
    BY <1>2, <1>4, <1>5, <1>6, <2>2, <2>6 DEF SafeCostInv
<1>10. CASE Safe!Finish
  <2>1. UNCHANGED <<captured, requests, probe, current, ladder, task>>
    BY <1>10 DEF Safe!Finish, Safe!Leave, Safe!strategyVars
  <2>2. UNCHANGED <<Walked, SizesTried>>
    BY <2>1 DEF Walked, SizesTried, Trying
  <2>3. QED
    BY <1>7, <2>1, <2>2
<1>11. CASE Safe!ProbeResult
  <2>1. /\ probe = "inFlight" /\ probe' = "none" /\ ladder = {} /\ ladder' = {}
        /\ task' = Safe!NoTask /\ captured \subseteq captured' /\ Walked' = Walked
        /\ requests' = requests
    BY <1>11 DEF Safe!ProbeResult, Safe!Answered, Safe!Refused, SafeIInv, SafeProbeInv, Walked
  <2>2. SizesTried = 0 /\ SizesTried' = 0
    BY <2>1 DEF SizesTried, Trying
  <2>3. captured # {}
    BY <2>1 DEF SafeCostInv
  <2>4. QED
    BY <1>2, <1>6, <2>1, <2>2, <2>3 DEF SafeCostInv
<1>12. CASE Safe!OnSuccess
  <2>1. /\ task # Safe!NoTask /\ task' = Safe!NoTask /\ probe # "inFlight" /\ probe = "none"
        /\ task.start = current /\ task.count \in Int /\ 1 <= task.count
        /\ captured' = captured \cup Safe!Covered(task)
        /\ current' = task.start + task.count /\ ladder' = {} /\ requests' = requests
    BY <1>2, <1>12, Bounds DEF Safe!OnSuccess, Safe!Answered, Safe!StepOver, SafeIInv,
      SafeProbeInv, SafeReadInv
  <2>2. captured' # {}
    <3>1. task.start \in Safe!Covered(task)
      BY <1>2, <2>1, Bounds DEF Safe!Covered, Safe!LastOf
    <3>2. QED
      BY <2>1, <3>1
  <2>3. Walked < Walked'
    BY <1>2, <2>1, Bounds DEF Walked
  <2>4. SizesTried' = 0
    BY <2>1 DEF SizesTried, Trying
  <2>5. (Walked * (k + 1)) + (k + 1) <= Walked' * (k + 1)
    BY ONLY <1>1, <1>2, <1>3, <2>3, ProductGrows
  <2>6. requests <= (Walked * (k + 1)) + SizesTried
    BY <1>2, <1>6, <2>1 DEF SafeCostInv
  <2>7. requests' + (IF probe' = "pending" THEN 1 ELSE 0) <= requests + 1
    BY <1>2, <2>1
  <2>8. QED
    BY <1>1, <1>2, <1>6, <2>1, <2>2, <2>4, <2>5, <2>6, <2>7 DEF SafeCostInv
<1>13. CASE Safe!OnFailure
  <2>1. /\ task # Safe!NoTask /\ task' = Safe!NoTask /\ probe = "none" /\ probe' = "none"
        /\ current' = IF ladder = {} THEN current + 1 ELSE current
        /\ ladder' = ladder /\ captured' = captured /\ requests' = requests
    BY <1>2, <1>13 DEF Safe!OnFailure, Safe!Refused, Safe!AfterFailure, SafeIInv, SafeProbeInv
  <2>2. CASE ladder = {}
    <3>1. SizesTried' = 0
      BY <2>1, <2>2 DEF SizesTried, Trying
    <3>2. Walked' = Walked + 1
      BY <1>2, <2>1, <2>2, Bounds DEF Walked
    <3>3. (Walked * k) + k <= Walked' * k /\ (Walked * (k + 1)) + (k + 1) <= Walked' * (k + 1)
      <4>1. Walked < Walked' /\ k + 1 \in Nat
        BY <1>1, <1>2, <3>2
      <4>2. QED
        BY ONLY <1>1, <1>2, <1>3, <4>1, ProductGrows
    <3>4. requests \in Nat /\ requests <= (Walked * (k + 1)) + SizesTried
          /\ (captured = {} => requests <= (Walked * k) + SizesTried)
      BY <1>2, <1>6, <2>1 DEF SafeCostInv
    <3>5. requests' <= Walked' * (k + 1) /\ (captured' = {} => requests' <= Walked' * k)
      BY <1>1, <1>2, <1>6, <2>1, <3>3, <3>4
    <3>6. QED
      BY <1>6, <2>1, <3>1, <3>4, <3>5 DEF SafeCostInv
  <2>3. CASE ladder # {}
    <3>1. Trying /\ Trying'
      BY <2>1, <2>3 DEF Trying
    <3>2. UNCHANGED <<Walked, SizesTried>>
      BY <2>1, <2>3, <3>1 DEF Walked, SizesTried
    <3>3. QED
      BY <1>7, <2>1, <3>2
  <2>4. QED
    BY <2>2, <2>3
<1>14. CASE UNCHANGED Safe!vars
  <2>1. UNCHANGED <<captured, requests, probe, current, ladder, task>>
    BY <1>14 DEF Safe!vars, Safe!loopVars, Safe!strategyVars
  <2>2. UNCHANGED <<Walked, SizesTried>>
    BY <2>1 DEF Walked, SizesTried, Trying
  <2>3. QED
    BY <1>7, <2>1, <2>2
<1>15. QED
  BY <1>8, <1>9, <1>10, <1>11, <1>12, <1>13, <1>14 DEF Safe!Next

\* What the walk costs is what the worst case announces.
LEMMA SafeCostBounds == ASSUME SafeIInv, SafeCostInv PROVE Safe!ReadsBounded
<1> DEFINE k == Cardinality(SafeSizes)
<1> DEFINE n == Safe!RangeLen
<1>1. k \in Nat /\ k >= 1 /\ k + 1 \in Nat
  BY SizesCount
<1>2. n \in Nat /\ n = EndAddress - StartAddress + 1
  BY Bounds DEF Safe!RangeLen
<1>3. /\ Walked \in Nat /\ Walked <= n /\ requests \in Nat
      /\ Trying => Walked < n
      /\ SizesTried \in Nat /\ SizesTried <= k
      /\ ~Trying => SizesTried = 0
  BY <1>2, Bounds, WalkFacts DEF SizesTried
<1>4. /\ Walked * k \in Nat /\ Walked * (k + 1) \in Nat /\ n * k \in Nat /\ n * (k + 1) \in Nat
  BY <1>1, <1>2, <1>3
<1>5. /\ (Walked * k) + SizesTried <= n * k
      /\ (Walked * (k + 1)) + SizesTried <= n * (k + 1)
  <2>1. CASE Walked < n
    <3>1. (Walked * k) + k <= n * k /\ (Walked * (k + 1)) + (k + 1) <= n * (k + 1)
      BY ONLY <1>1, <1>2, <1>3, <2>1, ProductGrows
    <3>2. QED
      BY <1>1, <1>3, <1>4, <3>1
  <2>2. CASE Walked = n
    <3>1. SizesTried = 0
      BY <1>2, <1>3, <2>2
    <3>2. QED
      BY <1>1, <1>2, <1>4, <2>2, <3>1
  <2>3. QED
    BY <1>2, <1>3, <2>1, <2>2
<1>6. QED
  <2>1. Safe!Cardinality(SafeSizes) = k
    BY SameCardinality
  <2>2. QED
    BY <1>3, <1>4, <1>5, <2>1 DEF SafeCostInv, Safe!ReadsBounded
-----------------------------------------------------------------------------
(* What a smart scan costs.                                               *)

Registers(blocks) == UNION {Smart!Covered(b) : b \in blocks}

AllApart(blocks) == blocks \subseteq Smart!Interval /\ (\A b, c \in blocks : b = c \/ Apart(b, c))

\* A block of n registers that waits costs 2n - 1 reads at most, itself
\* included, and one that is being read 2n - 2 more.
StillToCome ==
  (2 * Cardinality(Registers(queue))) - Cardinality(queue)
    + (IF Busy THEN (2 * task.count) - 2 ELSE 0)

SmartCost == (2 * Smart!RangeLen) - Cardinality(Smart!InitialBlocks)
SmartCostInv == requests + StillToCome <= SmartCost

\* A block in numbers.
LEMMA BlockFacts ==
  ASSUME NEW b \in Smart!Interval
  PROVE  /\ b.start \in Int /\ 0 <= b.start /\ b.start <= AddrMax
         /\ b.count \in Int /\ 1 <= b.count /\ b.count <= MaxBlock
         /\ Smart!Covered(b) = b.start .. b.start + b.count - 1
         /\ IsFiniteSet(Smart!Covered(b)) /\ Cardinality(Smart!Covered(b)) = b.count
<1>1. /\ b.start \in Int /\ 0 <= b.start /\ b.start <= AddrMax
      /\ b.count \in Int /\ 1 <= b.count /\ b.count <= MaxBlock
  BY Bounds DEF Smart!Interval, Smart!Addr
<1>2. Smart!Covered(b) = b.start .. b.start + b.count - 1
  BY DEF Smart!Covered, Smart!LastOf
<1> DEFINE last == b.start + b.count - 1
<1>3. last \in Int /\ b.start <= last /\ last - b.start + 1 = b.count
  BY <1>1
<1>4. IsFiniteSet(b.start .. last) /\ Cardinality(b.start .. last) = last - b.start + 1
  <2>1. \A x, y \in Int : x <= y => IsFiniteSet(x .. y) /\ Cardinality(x .. y) = y - x + 1
    BY FS_Interval
  <2>2. QED
    BY <1>1, <1>3, <2>1
<1>5. QED
  BY <1>1, <1>2, <1>3, <1>4

\* There are finitely many blocks that are apart, and no more than registers.
LEMMA ApartAreFew ==
  ASSUME NEW blocks, AllApart(blocks)
  PROVE  /\ IsFiniteSet(blocks) /\ Cardinality(blocks) \in Nat
         /\ IsFiniteSet(Registers(blocks)) /\ Cardinality(Registers(blocks)) \in Nat
         /\ Cardinality(blocks) <= Cardinality(Registers(blocks))
<1>1. Registers(blocks) \subseteq 0 .. AddrMax + MaxBlock
  <2> SUFFICES ASSUME NEW b \in blocks PROVE Smart!Covered(b) \subseteq 0 .. AddrMax + MaxBlock
    BY DEF Registers
  <2>1. QED
    BY BlockFacts, Bounds DEF AllApart
<1>2. IsFiniteSet(Registers(blocks)) /\ Cardinality(Registers(blocks)) \in Nat
  <2>1. IsFiniteSet(0 .. AddrMax + MaxBlock)
    BY Bounds, FS_Interval
  <2>2. QED
    BY <1>1, <2>1, FS_Subset, FS_CardinalityType
<1> DEFINE first == [b \in blocks |-> b.start]
<1>3. first \in Injection(blocks, Registers(blocks))
  <2>1. \A b \in blocks : b.start \in Registers(blocks)
    <3> SUFFICES ASSUME NEW b \in blocks PROVE b.start \in Smart!Covered(b)
      BY DEF Registers
    <3>1. QED
      BY BlockFacts DEF AllApart
  <2>2. \A b, c \in blocks : b.start = c.start => b = c
    BY BlockFacts DEF AllApart, Apart
  <2>3. QED
    BY <2>1, <2>2 DEF Injection, IsInjective
<1>4. IsFiniteSet(blocks) /\ Cardinality(blocks) <= Cardinality(Registers(blocks))
  BY <1>2, <1>3, FS_Injection
<1>5. QED
  BY <1>2, <1>4, FS_CardinalityType

\* One more block that is apart counts for itself and its registers.
LEMMA OneMoreBlock ==
  ASSUME NEW blocks, NEW b \in Smart!Interval, AllApart(blocks), \A c \in blocks : Apart(c, b)
  PROVE  /\ AllApart(blocks \cup {b})
         /\ Cardinality(blocks \cup {b}) = Cardinality(blocks) + 1
         /\ Cardinality(Registers(blocks \cup {b})) = Cardinality(Registers(blocks)) + b.count
<1>1. /\ IsFiniteSet(blocks) /\ IsFiniteSet(Registers(blocks))
      /\ Cardinality(Registers(blocks)) \in Nat
  BY ApartAreFew
<1>2. AllApart(blocks \cup {b})
  BY ApartBlocks DEF AllApart
<1>3. b \notin blocks
  BY ApartBlocks
<1>4. Cardinality(blocks \cup {b}) = Cardinality(blocks) + 1
  BY <1>1, <1>3, FS_AddElement
<1>5. Registers(blocks \cup {b}) = Registers(blocks) \cup Smart!Covered(b)
  BY DEF Registers
<1>6. Registers(blocks) \cap Smart!Covered(b) = {}
  BY ApartBlocks DEF Registers, AllApart
<1>7. Cardinality(Registers(blocks) \cup Smart!Covered(b)) = Cardinality(Registers(blocks)) + b.count
  <2>1. IsFiniteSet(Smart!Covered(b)) /\ Cardinality(Smart!Covered(b)) = b.count /\ b.count \in Int
    BY BlockFacts
  <2>2. Cardinality(Registers(blocks) \cap Smart!Covered(b)) = 0
    BY <1>6, FS_EmptySet
  <2>3. Cardinality(Registers(blocks) \cup Smart!Covered(b))
          = Cardinality(Registers(blocks)) + Cardinality(Smart!Covered(b))
              - Cardinality(Registers(blocks) \cap Smart!Covered(b))
    BY <1>1, <2>1, FS_Union
  <2>4. QED
    BY <1>1, <2>1, <2>2, <2>3
<1>8. QED
  BY <1>2, <1>4, <1>5, <1>7

\* One block less likewise.
LEMMA OneBlockLess ==
  ASSUME NEW blocks, AllApart(blocks), NEW b \in blocks
  PROVE  /\ AllApart(blocks \ {b})
         /\ Cardinality(blocks) = Cardinality(blocks \ {b}) + 1
         /\ Cardinality(Registers(blocks)) = Cardinality(Registers(blocks \ {b})) + b.count
<1>1. b \in Smart!Interval /\ AllApart(blocks \ {b}) /\ \A c \in blocks \ {b} : Apart(c, b)
  BY DEF AllApart
<1>2. (blocks \ {b}) \cup {b} = blocks
  OBVIOUS
<1>3. QED
  BY <1>1, <1>2, OneMoreBlock

\* The first blocks are the registers of the range.
LEMMA InitialCost ==
  /\ AllApart(Smart!InitialBlocks)
  /\ Cardinality(Registers(Smart!InitialBlocks)) = Smart!RangeLen
  /\ Cardinality(Smart!InitialBlocks) \in Nat
  /\ Smart!RangeLen \in Nat
<1>1. AllApart(Smart!InitialBlocks)
  BY InitialBlocksPartition DEF AllApart
<1>2. Registers(Smart!InitialBlocks) = StartAddress .. EndAddress
  <2>1. \A b \in Smart!InitialBlocks : Smart!Covered(b) \subseteq StartAddress .. EndAddress
    BY InitialBlocksPartition, BlockFacts, Bounds DEF Within
  <2>2. QED
    BY <2>1, InitialBlocksPartition DEF Registers, Smart!ScanRange
<1>3. QED
  BY <1>1, <1>2, ApartAreFew, FS_Interval, Bounds DEF Smart!RangeLen

\* A smart scan starts with nothing read and every register still to come.
LEMMA SmartCostInit == Smart!Init => SmartCostInv
<1> SUFFICES ASSUME Smart!Init PROVE SmartCostInv
  OBVIOUS
<1>1. requests = 0 /\ ~Busy /\ queue = Smart!InitialBlocks
  BY DEF Smart!Init, Smart!LoopInit, Smart!SmartInit, Busy
<1>2. StillToCome = (2 * Smart!RangeLen) - Cardinality(Smart!InitialBlocks)
  BY <1>1, InitialCost DEF StillToCome
<1>3. QED
  BY <1>1, <1>2, InitialCost DEF SmartCostInv, SmartCost

\* What the invariant of smart says of the blocks, as the cost needs it.
LEMMA BlocksApart ==
  ASSUME SmartIInv
  PROVE  /\ AllApart(queue) /\ requests \in Nat
         /\ Cardinality(queue) \in Nat /\ Cardinality(Registers(queue)) \in Nat
         /\ Cardinality(queue) <= Cardinality(Registers(queue))
         /\ Busy => task \in Smart!Interval /\ (\A b \in queue : Apart(b, task))
<1>1. AllApart(queue)
  BY DEF SmartIInv, QueueInv, AllApart, Smart!TypeOK, Smart!SmartTypeOK
<1>2. requests \in Nat /\ (Busy => task \in Smart!Interval /\ (\A b \in queue : Apart(b, task)))
  BY Bounds DEF SmartIInv, TaskInv, Smart!TypeOK, Smart!LoopTypeOK, Busy, Smart!Interval
<1>3. QED
  BY <1>1, <1>2, ApartAreFew

\* Every step takes from what is still to come what it adds to the reads.
LEMMA SmartCostStep ==
  ASSUME SmartIInv, SmartCostInv, [Smart!Next]_(Smart!vars)
  PROVE  SmartCostInv'
<1> DEFINE registers == Cardinality(Registers(queue))
           blocks == Cardinality(queue)
<1>1. /\ AllApart(queue) /\ requests \in Nat /\ registers \in Nat /\ blocks \in Nat
      /\ Busy => task \in Smart!Interval /\ task.count \in Int /\ 1 <= task.count
                 /\ (\A b \in queue : Apart(b, task))
  BY BlocksApart, BlockFacts
<1>2. Smart!RangeLen \in Nat /\ Cardinality(Smart!InitialBlocks) \in Nat /\ requests \in Int
  BY <1>1, InitialCost
<1>3. ASSUME NEW reads \in Int, NEW rest \in Int, reads = requests', rest = StillToCome',
             StillToCome \in Int, reads + rest <= requests + StillToCome
      PROVE  SmartCostInv'
  <2>1. SmartCost' = SmartCost
    BY DEF SmartCost, Smart!RangeLen, Smart!InitialBlocks, Smart!ScanRange, Smart!Read
  <2>2. SmartCost \in Int
    BY <1>2 DEF SmartCost
  <2>3. requests + StillToCome <= SmartCost
    BY DEF SmartCostInv
  <2>4. \A n, m, cost \in Int : n <= m /\ m <= cost => n <= cost
    OBVIOUS
  <2>5. reads + rest \in Int /\ requests + StillToCome \in Int
    BY <1>2, <1>3
  <2>6. reads + rest <= SmartCost
    BY <1>3, <2>2, <2>3, <2>4, <2>5
  <2>7. QED
    BY <1>3, <2>1, <2>2, <2>6 DEF SmartCostInv
<1>4. StillToCome \in Int
  BY <1>1 DEF StillToCome
<1>5. CASE Smart!Pop
  <2>1. PICK iv \in queue : queue' = queue \ {iv} /\ Smart!Issue(iv)
    BY <1>5, PopIssues
  <2>2. /\ ~Busy /\ task' = iv /\ requests' = Smart!Count(requests)
        /\ iv \in Smart!Interval /\ iv.count \in Int
    BY <1>1, <2>1, BlockFacts DEF Smart!Issue, Smart!Idle, Busy, AllApart
  <2>3. Busy'
    BY <2>2, ApartBlocks DEF Busy
  <2>4. requests' \in Nat /\ requests' <= requests + 1
    BY <1>1, <2>2 DEF Smart!Count
  <2>5. /\ AllApart(queue') /\ blocks = Cardinality(queue') + 1
        /\ registers = Cardinality(Registers(queue')) + iv.count
    BY <1>1, <2>1, OneBlockLess
  <2>6. Cardinality(queue') \in Nat /\ Cardinality(Registers(queue')) \in Nat
    BY <2>5, ApartAreFew
  <2>7. StillToCome = (2 * registers) - blocks
    BY <1>1, <2>2 DEF StillToCome
  <2>8. StillToCome' = (2 * Cardinality(Registers(queue'))) - Cardinality(queue') + ((2 * iv.count) - 2)
    BY <2>2, <2>3 DEF StillToCome
  <2>9. StillToCome' \in Int /\ StillToCome' = StillToCome - 1
    BY <1>1, <2>2, <2>5, <2>6, <2>7, <2>8
  <2>10. PICK reads \in Int, rest \in Int : reads = requests' /\ rest = StillToCome'
    BY <2>4, <2>9
  <2>11. \A n, m \in Int : n <= requests + 1 /\ m = StillToCome - 1 => n + m <= requests + StillToCome
    BY <1>2, <1>4
  <2>12. reads + rest <= requests + StillToCome
    BY <2>4, <2>9, <2>10, <2>11
  <2>13. QED
    BY <1>3, <1>4, <2>10, <2>12
<1>6. ASSUME UNCHANGED <<requests, queue>>, Busy' => UNCHANGED task PROVE SmartCostInv'
  <2>1. StillToCome' <= StillToCome /\ StillToCome' \in Int
    <3>1. CASE Busy'
      BY <1>1, <1>6, <3>1 DEF StillToCome, Busy
    <3>2. CASE ~Busy'
      BY <1>1, <1>6, <3>2 DEF StillToCome
    <3>3. QED
      BY <3>1, <3>2
  <2>2. PICK rest \in Int : rest = StillToCome' /\ rest <= StillToCome
    BY <2>1
  <2>3. \A n \in Int : n <= StillToCome => requests + n <= requests + StillToCome
    BY <1>2, <1>4
  <2>4. requests \in Int /\ requests + rest <= requests + StillToCome /\ requests = requests'
    BY <1>2, <1>6, <2>2, <2>3
  <2>5. QED
    BY <1>3, <1>4, <2>2, <2>4
<1>7. CASE Smart!Split
  <2> DEFINE half == task.count \div 2
             left == Smart!Read(task.start, half)
             right == Smart!Read(task.start + half, task.count - half)
  <2>1. /\ Busy /\ ~Busy' /\ requests' = requests /\ Smart!MustSplit(task)
        /\ queue' = (queue \cup {left}) \cup {right}
    BY <1>7 DEF Smart!Split, Smart!Refused, Smart!Halves, Busy
  <2>2. /\ task \in Smart!Interval /\ Within(task) /\ task.count \in Int
        /\ \A b \in queue : Apart(b, task)
    BY <1>1, <2>1 DEF SmartIInv, TaskInv
  <2>3. /\ left \in Smart!Interval /\ right \in Smart!Interval
        /\ Inside(left, task) /\ Inside(right, task)
    <3>1. left \in Smart!Halves(task) /\ right \in Smart!Halves(task)
      BY DEF Smart!Halves
    <3>2. QED
      BY <2>1, <2>2, <3>1, HalvesPartition
  <2>4. /\ half \in Int /\ left.count = half /\ right.count = task.count - half
        /\ Apart(left, right)
    <3>1. half \in Int /\ left.count = half /\ right.count = task.count - half
      BY <2>2 DEF Smart!Read
    <3>2. left.start + left.count <= right.start
      BY <2>2, <3>1, BlockFacts DEF Smart!Read
    <3>3. QED
      BY <3>1, <3>2 DEF Apart
  <2> HIDE DEF left, right, half
  <2>5. /\ \A b \in queue : Apart(b, left) /\ Apart(b, right)
    BY <1>1, <2>2, <2>3, InsideShrinks DEF AllApart
  <2>6. /\ AllApart(queue \cup {left}) /\ Cardinality(queue \cup {left}) = blocks + 1
        /\ Cardinality(Registers(queue \cup {left})) = registers + half
    BY <1>1, <2>3, <2>4, <2>5, OneMoreBlock
  <2>7. /\ Cardinality(queue') = blocks + 1 + 1
        /\ Cardinality(Registers(queue')) = registers + half + (task.count - half)
    <3>1. \A c \in queue \cup {left} : Apart(c, right)
      BY <2>4, <2>5
    <3>2. QED
      BY <2>1, <2>3, <2>4, <2>6, <3>1, OneMoreBlock
  <2>8. /\ StillToCome = (2 * registers) - blocks + ((2 * task.count) - 2)
        /\ StillToCome' = (2 * Cardinality(Registers(queue'))) - Cardinality(queue')
    BY <1>1, <2>1, <2>2, <2>4, <2>7 DEF StillToCome
  <2>9. StillToCome' = StillToCome
    BY <1>1, <2>2, <2>4, <2>7, <2>8
  <2>10. requests \in Int /\ requests + StillToCome <= requests + StillToCome
    BY <1>1, <1>4
  <2>11. QED
    BY <1>3, <1>4, <2>1, <2>9, <2>10
<1>8. CASE Smart!OnSuccess \/ Smart!GiveUpSingle
  BY <1>6, <1>8
  DEF Smart!OnSuccess, Smart!GiveUpSingle, Smart!Answered, Smart!Refused, Smart!smartVars, Busy
<1>9. CASE Smart!Finish
  BY <1>6, <1>9 DEF Smart!Finish, Smart!Leave, Smart!smartVars
<1>10. CASE UNCHANGED Smart!vars
  BY <1>6, <1>10 DEF Smart!vars, Smart!loopVars, Smart!smartVars
<1>11. QED
  BY <1>5, <1>7, <1>8, <1>9, <1>10 DEF Smart!Next

\* What is still to come is never negative, so the reads stay below the cost.
LEMMA SmartCostBounds ==
  ASSUME SmartIInv, SmartCostInv
  PROVE  Smart!ReadsBounded
<1>1. /\ requests \in Nat /\ Cardinality(queue) \in Nat /\ Cardinality(Registers(queue)) \in Nat
      /\ Cardinality(queue) <= Cardinality(Registers(queue))
      /\ Busy => task.count \in Int /\ 1 <= task.count
  BY BlocksApart, BlockFacts
<1>2. StillToCome \in Int /\ StillToCome >= 0
  BY <1>1 DEF StillToCome
<1>3. QED
  BY <1>1, <1>2, InitialCost, SameCardinality DEF SmartCostInv, SmartCost, Smart!ReadsBounded
-----------------------------------------------------------------------------
(* What a deep scan costs, and what its refinement reads again.           *)

\* The number of reads queued before x.
Rank(reads, x) == Cardinality({y \in reads : Deep!Earlier(y, x)})

\* A refinement read in numbers.
LEMMA RefinementFields ==
  ASSUME NEW x \in Deep!Refinement
  PROVE  /\ x.edge \in Nat /\ x.edge \in Int
         /\ x.start \in StartAddress .. EndAddress /\ x.start \in Int
         /\ x.count \in 1 .. MaxBlock /\ x.count \in Int
         /\ x = [edge |-> x.edge, start |-> x.start, count |-> x.count]
<1>1. x \in [edge : Nat, start : StartAddress .. EndAddress, count : RefinementCounts]
  BY DEF Deep!Refinement, Deep!ScanRange
<1>2. x.edge \in Nat /\ x.start \in StartAddress .. EndAddress /\ x.count \in 1 .. MaxBlock
  BY <1>1, RefinementAssumption
<1>3. x = [edge |-> x.edge, start |-> x.start, count |-> x.count]
  BY <1>1
<1>4. QED
  BY <1>2, <1>3, Bounds

\* The order of the reads is total, and a later read has a higher rank.
LEMMA RanksOrder ==
  ASSUME NEW reads, reads \subseteq Deep!Refinement, IsFiniteSet(reads)
  PROVE  /\ \A x \in reads : Rank(reads, x) \in Nat
         /\ \A x, y \in reads : Deep!Earlier(x, y) => Rank(reads, x) < Rank(reads, y)
         /\ \A x, y \in reads : x = y \/ Deep!Earlier(x, y) \/ Deep!Earlier(y, x)
<1>1. \A x \in reads : /\ x.edge \in Int /\ x.start \in Int /\ x.count \in Int
                       /\ x = [edge |-> x.edge, start |-> x.start, count |-> x.count]
  BY RefinementFields
<1>2. \A x, y \in reads : x = y \/ Deep!Earlier(x, y) \/ Deep!Earlier(y, x)
  BY <1>1 DEF Deep!Earlier
<1>3. \A x, y, z \in reads : Deep!Earlier(x, y) /\ Deep!Earlier(y, z) => Deep!Earlier(x, z)
  BY <1>1 DEF Deep!Earlier
<1>4. \A x \in reads : ~Deep!Earlier(x, x)
  BY <1>1 DEF Deep!Earlier
<1> DEFINE Before(x) == {y \in reads : Deep!Earlier(y, x)}
<1>5. \A x \in reads : IsFiniteSet(Before(x)) /\ Cardinality(Before(x)) \in Nat
  BY FS_Subset, FS_CardinalityType
<1>6. \A x, y \in reads : Deep!Earlier(x, y) => Rank(reads, x) < Rank(reads, y)
  <2> SUFFICES ASSUME NEW x \in reads, NEW y \in reads, Deep!Earlier(x, y)
               PROVE  Cardinality(Before(x)) < Cardinality(Before(y))
    BY DEF Rank
  <2>1. Before(x) \subseteq Before(y) /\ x \in Before(y) /\ x \notin Before(x)
    BY <1>3, <1>4
  <2>2. Cardinality(Before(x)) <= Cardinality(Before(y))
        /\ Cardinality(Before(x)) # Cardinality(Before(y))
    <3> HIDE DEF Before
    <3>1. QED
      BY <1>5, <2>1, FS_Subset
  <2>3. QED
    BY <1>5, <2>2
<1>7. QED
  BY <1>2, <1>5, <1>6 DEF Rank

\* The queue of refinement reads never grows beyond its cap.
LEMMA CapCaps ==
  ASSUME NEW reads, reads \subseteq Deep!Refinement, IsFiniteSet(reads)
  PROVE  /\ IsFiniteSet(Deep!Capped(reads)) /\ Cardinality(Deep!Capped(reads)) \in Nat
         /\ Cardinality(Deep!Capped(reads)) <= RefinementCap
<1> DEFINE kept == Deep!Capped(reads)
           rank == [x \in kept |-> Rank(reads, x)]
<1>1. kept = {x \in reads : Rank(reads, x) < RefinementCap}
  BY SameCardinality DEF Deep!Capped, Rank
<1>2. IsFiniteSet(kept) /\ Cardinality(kept) \in Nat
  BY <1>1, FS_Subset, FS_CardinalityType
<1>3. RefinementCap \in Nat
  BY RefinementAssumption
<1> HIDE DEF kept
<1>4. rank \in Injection(kept, 0 .. RefinementCap - 1)
  <2>1. \A x \in kept : Rank(reads, x) \in 0 .. RefinementCap - 1
    BY <1>1, <1>3, RanksOrder
  <2>2. \A x, y \in kept : Rank(reads, x) = Rank(reads, y) => x = y
    <3> SUFFICES ASSUME NEW x \in kept, NEW y \in kept, Rank(reads, x) = Rank(reads, y), x # y
                 PROVE  FALSE
      OBVIOUS
    <3>1. Rank(reads, x) \in Int /\ (Rank(reads, x) < Rank(reads, y) \/ Rank(reads, y) < Rank(reads, x))
      BY <1>1, RanksOrder
    <3>2. QED
      BY <3>1
  <2>3. QED
    BY <2>1, <2>2 DEF Injection, IsInjective
<1>5. Cardinality(kept) <= Cardinality(0 .. RefinementCap - 1)
  <2>1. IsFiniteSet(0 .. RefinementCap - 1)
    BY <1>3, FS_Interval
  <2>2. QED
    BY <1>4, <2>1, FS_Injection
<1>6. Cardinality(0 .. RefinementCap - 1) = RefinementCap
  BY <1>3, FS_Interval
<1>7. QED
  BY <1>2, <1>5, <1>6 DEF kept

\* There are finitely many reads of finitely many edges.
LEMMA RefinementsFinite ==
  ASSUME NEW reads, reads \subseteq Deep!Refinement, NEW n \in Nat, \A x \in reads : x.edge <= n
  PROVE  IsFiniteSet(reads)
<1> DEFINE edges == 0 .. n
           starts == StartAddress .. EndAddress
           counts == 1 .. MaxBlock
           place == [x \in reads |-> << <<x.edge, x.start>>, x.count >>]
<1>1. IsFiniteSet(edges) /\ IsFiniteSet(starts) /\ IsFiniteSet(counts)
  BY Bounds, FS_Interval
<1>2. IsFiniteSet((edges \X starts) \X counts)
  <2> HIDE DEF edges, starts, counts
  <2>1. IsFiniteSet(edges \X starts)
    BY <1>1, FS_Product
  <2>2. QED
    BY <1>1, <2>1, FS_Product
<1>3. \A x \in reads : /\ x.edge \in edges /\ x.start \in starts /\ x.count \in counts
                       /\ x = [edge |-> x.edge, start |-> x.start, count |-> x.count]
  BY RefinementFields
<1> HIDE DEF edges, starts, counts
<1>4. place \in Injection(reads, (edges \X starts) \X counts)
  BY <1>3 DEF Injection, IsInjective
<1> HIDE DEF place
<1>5. QED
  BY <1>2, <1>4, FS_Injection

\* The registers refined at an edge, less those of the edges before it.
New(k) ==
  Deep!Near(Deep!EdgeAt(k))
    \ UNION {Deep!Near(Deep!EdgeAt(j)) : j \in {b \in Deep!Boundaries : b < k}}

\* The reads the edges call for, before the cap.
WantedReads ==
  {x \in UNION {[edge : {k}, start : New(k), count : RefinementCounts] : k \in Deep!Boundaries} :
     Deep!Fits(x)}

\* The queue is built of the reads the edges call for, up to the cap.
LEMMA QueueIsCapped ==
  ASSUME readableIntervals \in Seq(Smart!Interval)
  PROVE  /\ Deep!BuildRefinementQueue = Deep!Capped(WantedReads)
         /\ WantedReads \subseteq Deep!Refinement /\ IsFiniteSet(WantedReads)
<1> DEFINE near == [k \in Deep!Boundaries |-> Deep!Near(Deep!EdgeAt(k))]
           new(k) == near[k] \ UNION {near[j] : j \in {b \in Deep!Boundaries : b < k}}
<1>1. \A k \in Deep!Boundaries : new(k) = New(k)
  BY DEF New
<1>2. Deep!BuildRefinementQueue = Deep!Capped(WantedReads)
  <2>1. UNION {[edge : {k}, start : new(k), count : RefinementCounts] : k \in Deep!Boundaries}
          = UNION {[edge : {k}, start : New(k), count : RefinementCounts] : k \in Deep!Boundaries}
    <3> HIDE DEF new
    <3>1. QED
      BY <1>1
  <2>2. QED
    BY <2>1 DEF Deep!BuildRefinementQueue, WantedReads
<1>3. \A k \in Deep!Boundaries : k \in Nat /\ k <= 2 * Len(readableIntervals)
  BY DEF Deep!Boundaries
<1>4. \A k \in Deep!Boundaries : New(k) \subseteq Deep!ScanRange
  BY DEF New, Deep!Near
<1>5. \A x \in WantedReads : x.edge \in Deep!Boundaries /\ x \in Deep!Refinement
  <2> SUFFICES ASSUME NEW x \in WantedReads PROVE x.edge \in Deep!Boundaries /\ x \in Deep!Refinement
    OBVIOUS
  <2>1. PICK k \in Deep!Boundaries : x \in [edge : {k}, start : New(k), count : RefinementCounts]
    BY DEF WantedReads
  <2>2. QED
    BY <1>3, <1>4, <2>1 DEF Deep!Refinement
<1>6. IsFiniteSet(WantedReads)
  <2>1. 2 * Len(readableIntervals) \in Nat
    OBVIOUS
  <2>2. QED
    BY <1>3, <1>5, <2>1, RefinementsFinite
<1>7. QED
  BY <1>2, <1>5, <1>6

\* The reads of smart, and in phase 2 those that may still refine an edge.
DeepCostInv ==
  /\ phase = 1 => SmartCostInv
  /\ phase = 2 =>
       /\ IsFiniteSet(refinementQueue)
       /\ requests + Cardinality(refinementQueue) <= SmartCost + RefinementCap

\* The cost of smart is a number, the same in every state.
LEMMA SmartCostType == SmartCost \in Int /\ SmartCost' = SmartCost
<1>1. SmartCost \in Int
  BY InitialCost DEF SmartCost
<1>2. QED
  BY <1>1 DEF SmartCost, Smart!RangeLen, Smart!InitialBlocks, Smart!ScanRange, Smart!Read

\* A deep scan starts as a smart one.
LEMMA DeepCostInit == Deep!Init => DeepCostInv
<1>1. Deep!Init => Smart!Init /\ phase = 1
  BY PhaseOneIsSmart DEF Deep!Init, Smart!Init
<1>2. QED
  BY <1>1, SmartCostInit DEF DeepCostInv

\* A read handed out is one less to hand out.
LEMMA HandOutCosts ==
  ASSUME NEW reads, IsFiniteSet(reads), Deep!HandOut(reads), requests \in Nat
  PROVE  /\ IsFiniteSet(refinementQueue')
         /\ requests' \in Nat /\ requests' <= requests + 1
         /\ Cardinality(reads) \in Nat /\ Cardinality(refinementQueue') = Cardinality(reads) - 1
<1>1. PICK x \in reads : Deep!Issue(Deep!ReadOf(x)) /\ refinementQueue' = reads \ {x}
  BY DEF Deep!HandOut
<1>2. requests' \in Nat /\ requests' <= requests + 1
  BY <1>1 DEF Deep!Issue, Deep!Count
<1>3. Cardinality(reads) \in Nat
  BY FS_CardinalityType
<1>4. IsFiniteSet(reads \ {x}) /\ Cardinality(reads \ {x}) = Cardinality(reads) - 1
  BY FS_RemoveElement
<1>5. QED
  BY <1>1, <1>2, <1>3, <1>4

\* Every step of deep stays within its cost.
LEMMA DeepCostStep ==
  ASSUME DeepIInv, DeepCostInv, [Deep!Next]_(Deep!vars)
  PROVE  DeepCostInv'
<1>1. /\ requests \in Nat /\ phase \in {1, 2} /\ SmartCost \in Int /\ RefinementCap \in Nat
      /\ SmartCost' = SmartCost
  BY DeepFacts, SmartCostType, RefinementAssumption, Bounds
  DEF DeepIInv, Deep!TypeOK, Smart!LoopTypeOK
<1>2. CASE Deep!SmartNext \/ Deep!SmartSuccess \/ Deep!SmartFailure
  <2>1. Smart!Next /\ phase = 1 /\ phase' = 1
    BY <1>2, PhaseOneIsSmart
    DEF Deep!SmartNext, Deep!SmartSuccess, Deep!SmartFailure, Smart!Next, Deep!deepVars
  <2>2. SmartCostInv'
    BY <2>1, SmartCostStep DEF DeepIInv, DeepCostInv
  <2>3. QED
    BY <2>1, <2>2 DEF DeepCostInv
\* In phase 2 it is enough to know the reads and the queue before the step.
<1>3. ASSUME phase' = 2, IsFiniteSet(refinementQueue'),
             NEW n \in Int, NEW m \in Int, n = requests', m = Cardinality(refinementQueue'),
             n + m <= SmartCost + RefinementCap
      PROVE  DeepCostInv'
  BY <1>1, <1>3 DEF DeepCostInv
<1>4. ASSUME phase' = 2, UNCHANGED <<requests, refinementQueue>>, phase = 2
      PROVE  DeepCostInv'
  BY <1>1, <1>4 DEF DeepCostInv
<1>5. ASSUME NEW reads, IsFiniteSet(reads), Deep!HandOut(reads), phase' = 2,
             requests + Cardinality(reads) <= SmartCost + RefinementCap
      PROVE  DeepCostInv'
  <2>1. /\ IsFiniteSet(refinementQueue')
        /\ requests' \in Nat /\ requests' <= requests + 1
        /\ Cardinality(reads) \in Nat /\ Cardinality(refinementQueue') = Cardinality(reads) - 1
    BY <1>1, <1>5, HandOutCosts
  <2>2. \A n, m \in Int : n <= requests + 1 /\ m = Cardinality(reads) - 1
                            => n + m <= SmartCost + RefinementCap
    BY <1>1, <1>5, FS_CardinalityType
  <2>3. PICK n \in Int, m \in Int : n = requests' /\ m = Cardinality(refinementQueue')
    BY <2>1
  <2>4. n + m <= SmartCost + RefinementCap
    BY <2>1, <2>2, <2>3
  <2>5. QED
    BY <1>3, <1>5, <2>1, <2>3, <2>4
<1>6. CASE Deep!StartRefinement
  <2> DEFINE reads == Deep!BuildRefinementQueue
  <2>1. phase = 1 /\ phase' = 2
        /\ ((Deep!Leave /\ refinementQueue' = {}) \/ Deep!HandOut(reads))
    BY <1>6 DEF Deep!StartRefinement
  <2>2. requests <= SmartCost
    <3>1. Smart!ReadsBounded
      BY <2>1, SmartCostBounds DEF DeepIInv, DeepCostInv
    <3>2. QED
      BY <3>1, SameCardinality DEF Smart!ReadsBounded, SmartCost
  <2>3. IsFiniteSet(reads) /\ Cardinality(reads) \in Nat /\ Cardinality(reads) <= RefinementCap
    <3>1. readableIntervals \in Seq(Smart!Interval)
      BY PhaseOneIsSmart DEF DeepIInv, Deep!TypeOK
    <3>2. QED
      BY <3>1, QueueIsCapped, CapCaps
  <2> HIDE DEF reads
  <2>4. requests + Cardinality(reads) <= SmartCost + RefinementCap
    BY <1>1, <2>2, <2>3
  <2>5. CASE Deep!HandOut(reads)
    BY <1>5, <2>1, <2>3, <2>4, <2>5
  <2>6. CASE Deep!Leave /\ refinementQueue' = {}
    <3>1. requests' = requests /\ IsFiniteSet(refinementQueue') /\ Cardinality(refinementQueue') = 0
      BY <2>6, FS_EmptySet DEF Deep!Leave
    <3>2. requests \in Int /\ requests + 0 <= SmartCost + RefinementCap
      BY <1>1, <2>2
    <3>3. QED
      BY <1>3, <2>1, <3>1, <3>2
  <2>7. QED
    BY <2>1, <2>5, <2>6
<1>7. CASE Deep!Refine
  <2>1. phase = 2 /\ phase' = 2 /\ Deep!HandOut(refinementQueue)
    BY <1>7 DEF Deep!Refine
  <2>2. QED
    BY <1>5, <2>1 DEF DeepCostInv
<1>8. CASE Deep!Finish \/ Deep!RefinementResult
  BY <1>4, <1>8
  DEF Deep!Finish, Deep!Done, Deep!Leave, Deep!RefinementResult, Deep!Answered, Deep!Refused,
      Deep!deepVars
<1>9. CASE UNCHANGED Deep!vars
  <2>1. UNCHANGED <<device, task, captured, refused, requests, finished, queue, visited, phase,
                    refinementQueue>>
    BY <1>9 DEF Deep!vars, Deep!loopVars, Deep!deepVars
  <2>2. CASE phase = 1
    <3>1. SmartCostInv'
      BY <2>1, <2>2, SmartCostStep
      DEF DeepIInv, DeepCostInv, Smart!vars, Smart!loopVars, Smart!smartVars
    <3>2. QED
      BY <2>1, <2>2, <3>1 DEF DeepCostInv
  <2>3. CASE phase = 2
    BY <1>4, <2>1, <2>3
  <2>4. QED
    BY <1>1, <2>2, <2>3
<1>10. QED
  BY <1>2, <1>6, <1>7, <1>8, <1>9 DEF Deep!Next

\* What deep costs is what the worst case announces.
LEMMA DeepCostBounds == ASSUME DeepIInv, DeepCostInv PROVE Deep!ReadsBounded
<1>1. requests \in Nat /\ phase \in {1, 2} /\ SmartCost \in Int /\ RefinementCap \in Nat
  BY DeepFacts, SmartCostType, RefinementAssumption, Bounds
  DEF DeepIInv, Deep!TypeOK, Smart!LoopTypeOK
<1>2. requests <= SmartCost + RefinementCap
  <2>1. CASE phase = 1
    <3>1. Smart!ReadsBounded
      BY <2>1, SmartCostBounds DEF DeepIInv, DeepCostInv
    <3>2. QED
      BY <1>1, <3>1, SameCardinality DEF Smart!ReadsBounded, SmartCost
  <2>2. CASE phase = 2
    <3>1. /\ requests + Cardinality(refinementQueue) <= SmartCost + RefinementCap
          /\ Cardinality(refinementQueue) \in Nat
      BY <2>2, FS_CardinalityType DEF DeepCostInv
    <3>2. QED
      BY <1>1, <3>1
  <2>3. QED
    BY <1>1, <2>1, <2>2
<1>3. SmartCost = (2 * Deep!RangeLen) - Deep!Cardinality(Deep!Smart!InitialBlocks)
  <2>1. Deep!Smart!InitialBlocks = Smart!InitialBlocks
    BY DEF Deep!Smart!InitialBlocks, Smart!InitialBlocks, Deep!Smart!Read, Smart!Read,
           Deep!Smart!ScanRange, Smart!ScanRange
  <2>2. QED
    BY <2>1, SameCardinality DEF SmartCost, Smart!RangeLen, Deep!RangeLen
<1>4. QED
  BY <1>2, <1>3 DEF Deep!ReadsBounded
-----------------------------------------------------------------------------
(* What a scan costs, with whichever strategy was chosen.                 *)

CostInv ==
  /\ algo = "safe" => SafeCostInv
  /\ algo = "smart" => SmartCostInv
  /\ algo = "deep" => DeepCostInv

\* Every strategy starts within its cost.
LEMMA CostInit == Init => CostInv
<1>1. QED
  BY SafeCostInit, SmartCostInit, DeepCostInit DEF Init, CostInv

\* Every step of the chosen strategy stays within its cost.
LEMMA CostStep ==
  ASSUME IInv, CostInv, [Next]_vars
  PROVE  CostInv'
<1>1. IInv'
  BY StepInv
<1>2. CASE SafeStep
  <2>1. SafeIInv /\ SafeIInv' /\ algo = "safe" /\ algo' = "safe"
    BY <1>1, <1>2 DEF SafeStep, IInv
  <2>2. SafeCostInv'
    BY <1>2, <2>1, SafeCostStep DEF SafeStep, CostInv
  <2>3. QED
    BY <2>1, <2>2 DEF CostInv
<1>3. CASE SmartStep
  <2>1. SmartIInv /\ algo = "smart" /\ algo' = "smart"
    BY <1>3 DEF SmartStep, IInv
  <2>2. SmartCostInv'
    BY <1>3, <2>1, SmartCostStep DEF SmartStep, CostInv
  <2>3. QED
    BY <2>1, <2>2 DEF CostInv
<1>4. CASE DeepStep
  <2>1. DeepIInv /\ algo = "deep" /\ algo' = "deep"
    BY <1>4 DEF DeepStep, IInv
  <2>2. DeepCostInv'
    BY <1>4, <2>1, DeepCostStep DEF DeepStep, CostInv
  <2>3. QED
    BY <2>1, <2>2 DEF CostInv
<1>5. CASE UNCHANGED vars
  <2>1. UNCHANGED <<algo, device, task, captured, refused, requests, finished, current, ladder,
                    hadFailure, probe, probeAddr, queue, visited, phase, readableIntervals,
                    failedIntervals, refinementQueue>>
    BY <1>5 DEF vars, loopVars, safeVars, smartVars, deepVars
  <2>2. UNCHANGED Safe!vars /\ UNCHANGED Smart!vars /\ UNCHANGED Deep!vars
    BY <2>1 DEF Safe!vars, Safe!loopVars, Safe!strategyVars, Smart!vars, Smart!loopVars,
       Smart!smartVars, Deep!vars, Deep!loopVars, Deep!deepVars
  <2>3. algo' = algo
    BY <2>1
  <2>4. CASE algo = "safe"
    <3>1. SafeCostInv'
      BY <1>1, <2>2, <2>3, <2>4, SafeCostStep DEF IInv, CostInv
    <3>2. QED
      BY <2>3, <2>4, <3>1 DEF CostInv
  <2>5. CASE algo = "smart"
    <3>1. SmartCostInv'
      BY <2>2, <2>5, SmartCostStep DEF IInv, CostInv
    <3>2. QED
      BY <2>3, <2>5, <3>1 DEF CostInv
  <2>6. CASE algo = "deep"
    <3>1. DeepCostInv'
      BY <2>2, <2>6, DeepCostStep DEF IInv, CostInv
    <3>2. QED
      BY <2>3, <2>6, <3>1 DEF CostInv
  <2>7. QED
    BY <2>4, <2>5, <2>6 DEF IInv
<1>6. QED
  BY <1>2, <1>3, <1>4, <1>5 DEF Next

\* A scan never costs more reads than the worst case it announces, with the
\* probes of safe and the refinement of deep: for every range, block sizes,
\* refinement cap and device, lossy ones included.
THEOREM ScanReadsBounded == Spec => []ReadsBounded
<1>1. IInv /\ CostInv => ReadsBounded
  <2>1. /\ SafeIInv /\ SafeCostInv => Safe!ReadsBounded
        /\ SmartIInv /\ SmartCostInv => Smart!ReadsBounded
        /\ DeepIInv /\ DeepCostInv => Deep!ReadsBounded
    BY SafeCostBounds, SmartCostBounds, DeepCostBounds
  <2>2. QED
    BY <2>1 DEF IInv, CostInv, ReadsBounded
<1>2. IInv /\ CostInv /\ [Next]_vars => CostInv'
  BY CostStep
<1>3. QED
  BY <1>1, <1>2, CostInit, ExhaustiveInvariant, PTL DEF Spec
-----------------------------------------------------------------------------
(* What the refinement reads again.                                       *)

\* A set of natural numbers has a least element.
LEMMA LeastNumber ==
  ASSUME NEW S, S \subseteq Nat, S # {}
  PROVE  \E n \in S : \A m \in S : n <= m
<1>1. PICK n \in S : \A m \in S : <<m, n>> \notin OpToRel(<, Nat)
  BY NatLessThanWellFounded, WFMin
<1>2. \A m \in S : ~(m < n)
  BY <1>1 DEF OpToRel
<1>3. QED
  BY <1>2

\* A queue that stays below its cap holds every read that was wanted: the
\* first read left out would come after RefinementCap others that were not.
LEMMA BelowTheCap ==
  ASSUME NEW reads, reads \subseteq Deep!Refinement, IsFiniteSet(reads),
         Cardinality(Deep!Capped(reads)) < RefinementCap
  PROVE  reads \subseteq Deep!Capped(reads)
<1> DEFINE kept == Deep!Capped(reads)
           left == reads \ kept
           ranks == {Rank(reads, x) : x \in left}
<1>1. kept = {x \in reads : Rank(reads, x) < RefinementCap} /\ RefinementCap \in Nat
  BY SameCardinality, RefinementAssumption DEF Deep!Capped, Rank
<1>2. SUFFICES ASSUME left # {} PROVE FALSE
  OBVIOUS
<1>3. PICK x \in left : \A y \in left : Rank(reads, x) <= Rank(reads, y)
  <2>1. ranks \subseteq Nat /\ ranks # {}
    BY <1>2, RanksOrder
  <2> HIDE DEF ranks, left
  <2>2. PICK n \in ranks : \A m \in ranks : n <= m
    BY <2>1, LeastNumber
  <2>3. QED
    BY <2>2 DEF ranks
<1>4. x \in reads /\ Rank(reads, x) \in Nat /\ Rank(reads, x) >= RefinementCap
  BY <1>1, <1>3, RanksOrder
<1> DEFINE before == {y \in reads : Deep!Earlier(y, x)}
<1>5. before \subseteq kept
  <2> SUFFICES ASSUME NEW y \in reads, Deep!Earlier(y, x), y \notin kept PROVE FALSE
    OBVIOUS
  <2>1. Rank(reads, y) < Rank(reads, x) /\ Rank(reads, y) \in Nat
    BY <1>4, RanksOrder
  <2>2. Rank(reads, x) <= Rank(reads, y)
    BY <1>3
  <2>3. QED
    BY <1>4, <2>1, <2>2
<1>6. Rank(reads, x) <= Cardinality(kept) /\ Cardinality(kept) \in Nat
  <2>1. IsFiniteSet(kept) /\ Cardinality(kept) \in Nat
    BY CapCaps
  <2>2. Cardinality(before) <= Cardinality(kept)
    <3> HIDE DEF before, kept
    <3>1. QED
      BY <1>5, <2>1, FS_Subset
  <2>3. QED
    BY <2>1, <2>2 DEF Rank
<1>7. QED
  BY <1>1, <1>4, <1>6

\* No two of the wanted reads are the same read.
LEMMA WantedOnce ==
  ASSUME readableIntervals \in Seq(Smart!Interval), NEW x \in WantedReads, NEW y \in WantedReads,
         Deep!ReadOf(x) = Deep!ReadOf(y)
  PROVE  x = y
<1>1. /\ x.edge \in Deep!Boundaries /\ x.start \in New(x.edge)
      /\ y.edge \in Deep!Boundaries /\ y.start \in New(y.edge)
  BY DEF WantedReads
<1>2. x \in Deep!Refinement /\ y \in Deep!Refinement
  BY QueueIsCapped
<1>3. x.start = y.start /\ x.count = y.count
  BY DEF Deep!ReadOf, Deep!Read
<1>4. x.edge = y.edge
  <2>1. ~(x.edge < y.edge)
    BY <1>1, <1>3 DEF New
  <2>2. ~(y.edge < x.edge)
    BY <1>1, <1>3 DEF New
  <2>3. QED
    BY <1>2, <2>1, <2>2, RefinementFields
<1>5. QED
  BY <1>2, <1>3, <1>4, RefinementFields

\* A register of the window around an edge is read alone, for the first edge
\* whose window holds it.
LEMMA NearIsWanted ==
  ASSUME NEW k \in Deep!Boundaries, NEW a \in Deep!Near(Deep!EdgeAt(k))
  PROVE  \E x \in WantedReads : Deep!ReadOf(x) = Deep!Read(a, 1)
<1> DEFINE edges == {j \in Deep!Boundaries : a \in Deep!Near(Deep!EdgeAt(j))}
<1>1. edges \subseteq Nat /\ edges # {}
  BY DEF Deep!Boundaries
<1>2. PICK j \in edges : \A i \in edges : j <= i
  <2> HIDE DEF edges
  <2>1. QED
    BY <1>1, LeastNumber
<1>3. a \in New(j) /\ j \in Deep!Boundaries
  BY <1>1, <1>2 DEF New
<1> DEFINE x == [edge |-> j, start |-> a, count |-> 1]
<1>4. x \in [edge : {j}, start : New(j), count : RefinementCounts]
  BY <1>3, RefinementAssumption
<1>5. Deep!ReadOf(x) = Deep!Read(a, 1)
  BY DEF Deep!ReadOf
<1>6. Deep!Fits(x)
  <2>1. a \in StartAddress .. EndAddress
    BY DEF Deep!Near, Deep!ScanRange
  <2>2. Deep!LastOf(Deep!Read(a, 1)) = a
    BY <2>1, Bounds DEF Deep!LastOf, Deep!Read
  <2>3. QED
    BY <1>5, <2>1, <2>2, Bounds DEF Deep!Fits
<1> HIDE DEF x
<1>7. QED
  BY <1>3, <1>4, <1>5, <1>6 DEF WantedReads

\* What deep filed as failed is part of the range.
FailedInv == \A f \in failedIntervals : Within(f)

\* A register refused beside a block that was read lies in the window of its
\* edge on that side.
LEMMA RefusedIsNear ==
  ASSUME readableIntervals \in Seq(Smart!Interval), FailedInv,
         NEW i \in DOMAIN readableIntervals, NEW f \in failedIntervals,
         f \in Smart!Interval, f.count = 1,
         f.start \in {readableIntervals[i].start - 1, Deep!LastOf(readableIntervals[i]) + 1}
  PROVE  \E k \in Deep!Boundaries : f.start \in Deep!Near(Deep!EdgeAt(k))
<1> DEFINE iv == readableIntervals[i]
<1>1. iv \in Smart!Interval /\ i \in Nat /\ 1 <= i /\ i <= Len(readableIntervals)
  OBVIOUS
<1>2. /\ iv.start \in Int /\ iv.count \in Int /\ f.start \in Int
      /\ StartAddress <= f.start /\ f.start <= EndAddress
      /\ Deep!LastOf(iv) = iv.start + iv.count - 1
      /\ Deep!Covered(f) = f.start .. f.start
  <2>1. iv.start \in Int /\ iv.count \in Int /\ f.start \in Int
    BY <1>1, BlockFacts
  <2>2. Deep!LastOf(f) = f.start
    BY <2>1 DEF Deep!LastOf
  <2>3. QED
    BY <2>1, <2>2, Bounds DEF FailedInv, Within, Deep!LastOf, Deep!Covered
<1>3. RefinementWindow \in Int /\ RefinementWindow >= 1
  BY RefinementAssumption
<1> HIDE DEF iv
<1>4. CASE f.start = iv.start - 1
  <2> DEFINE k == (2 * i) - 1
  <2>1. k \in 1 .. 2 * Len(readableIntervals) /\ (k + 1) \div 2 = i /\ k % 2 = 1
    BY <1>1
  <2> HIDE DEF k
  <2>2. Deep!EdgeAt(k) = iv.start /\ Deep!IsLeft(k)
    <3>1. Deep!IsLeft(k)
      BY <2>1 DEF Deep!IsLeft
    <3>2. QED
      BY <2>1, <3>1 DEF Deep!EdgeAt, iv
  <2>3. Deep!HasFailureAdjacent(Deep!EdgeAt(k), Deep!IsLeft(k))
    BY <1>2, <1>4, <2>2 DEF Deep!HasFailureAdjacent
  <2>4. k \in Deep!Boundaries
    <3>1. Deep!EdgeAt(k) > StartAddress
      BY <1>2, <1>4, <2>2, Bounds
    <3>2. QED
      BY <2>1, <2>2, <2>3, <3>1, Zenon DEF Deep!Boundaries
  <2>5. f.start \in Deep!Near(Deep!EdgeAt(k))
    BY <1>2, <1>3, <1>4, <2>2, Bounds DEF Deep!Near, Deep!ScanRange
  <2>6. QED
    BY <2>4, <2>5
<1>5. CASE f.start = Deep!LastOf(iv) + 1
  <2> DEFINE k == 2 * i
  <2>1. k \in 1 .. 2 * Len(readableIntervals) /\ (k + 1) \div 2 = i /\ k % 2 = 0
    BY <1>1
  <2> HIDE DEF k
  <2>2. Deep!EdgeAt(k) = Deep!LastOf(iv) /\ ~Deep!IsLeft(k)
    <3>1. ~Deep!IsLeft(k)
      BY <2>1 DEF Deep!IsLeft
    <3>2. QED
      BY <2>1, <3>1 DEF Deep!EdgeAt, iv
  <2>3. Deep!HasFailureAdjacent(Deep!EdgeAt(k), Deep!IsLeft(k))
    BY <1>2, <1>5, <2>2 DEF Deep!HasFailureAdjacent
  <2>4. k \in Deep!Boundaries
    BY <1>2, <1>5, <2>1, <2>2, <2>3, Bounds DEF Deep!Boundaries
  <2>5. f.start \in Deep!Near(Deep!EdgeAt(k))
    BY <1>2, <1>3, <1>5, <2>2, Bounds DEF Deep!Near, Deep!ScanRange
  <2>6. QED
    BY <2>4, <2>5
<1>6. QED
  BY <1>4, <1>5 DEF iv

\* Handing out the first of the wanted reads leaves all of them to be seen:
\* the one in progress and those in the queue.
LEMMA FirstAndRest ==
  ASSUME NEW reads, Deep!HandOut(reads)
  PROVE  /\ {Deep!ReadOf(x) : x \in refinementQueue'} \cup {task'} = {Deep!ReadOf(x) : x \in reads}
         /\ reads # {}
<1>1. PICK x \in reads : Deep!Issue(Deep!ReadOf(x)) /\ refinementQueue' = reads \ {x}
  BY DEF Deep!HandOut
<1>2. task' = Deep!ReadOf(x)
  BY <1>1 DEF Deep!Issue
<1>3. QED
  BY <1>1, <1>2

\* There are as many reads to be seen as there are entries in the queue.
LEMMA AsManyReads ==
  ASSUME readableIntervals \in Seq(Smart!Interval),
         NEW kept, kept \subseteq WantedReads, IsFiniteSet(kept)
  PROVE  Cardinality(kept) <= Cardinality({Deep!ReadOf(x) : x \in kept})
<1> DEFINE seen == {Deep!ReadOf(x) : x \in kept}
           reading == [x \in kept |-> Deep!ReadOf(x)]
<1>1. reading \in Surjection(kept, seen)
  BY DEF Surjection
<1>2. IsFiniteSet(seen)
  <2> HIDE DEF reading, seen
  <2>1. QED
    BY <1>1, FS_Surjection
<1>3. reading \in Injection(kept, seen)
  <2>1. \A x, y \in kept : Deep!ReadOf(x) = Deep!ReadOf(y) => x = y
    BY WantedOnce
  <2>2. QED
    BY <2>1 DEF Injection, IsInjective
<1> HIDE DEF reading, seen
<1>4. Cardinality(kept) <= Cardinality(seen)
  BY <1>2, <1>3, FS_Injection
<1>5. QED
  BY <1>4 DEF seen

\* When the refinement begins, every register that was refused beside a block
\* that was read is about to be read again, unless the queue reached its cap.
LEMMA StartRetries ==
  ASSUME DeepIInv, FailedInv, Deep!StartRefinement,
         NEW reads, reads = {Deep!ReadOf(x) : x \in refinementQueue'} \cup {task'},
         Cardinality(reads) < RefinementCap,
         NEW i \in DOMAIN readableIntervals, NEW f \in failedIntervals, f.count = 1,
         f.start \in {readableIntervals[i].start - 1, Deep!LastOf(readableIntervals[i]) + 1}
  PROVE  f \in reads
<1> DEFINE kept == Deep!Capped(WantedReads)
<1>1. /\ readableIntervals \in Seq(Smart!Interval) /\ failedIntervals \subseteq Smart!Interval
      /\ RefinementCap \in Nat
  BY PhaseOneIsSmart, RefinementAssumption DEF DeepIInv, Deep!TypeOK
<1>2. /\ Deep!BuildRefinementQueue = kept
      /\ WantedReads \subseteq Deep!Refinement /\ IsFiniteSet(WantedReads)
  BY <1>1, QueueIsCapped
<1>3. /\ IsFiniteSet(kept) /\ Cardinality(kept) \in Nat /\ kept \subseteq WantedReads
  BY <1>2, CapCaps DEF Deep!Capped
<1>4. PICK x \in WantedReads : Deep!ReadOf(x) = f
  <2>1. \E k \in Deep!Boundaries : f.start \in Deep!Near(Deep!EdgeAt(k))
    BY <1>1, RefusedIsNear
  <2>2. \E x \in WantedReads : Deep!ReadOf(x) = Deep!Read(f.start, 1)
    BY <2>1, NearIsWanted
  <2>3. Deep!Read(f.start, 1) = f
    BY <1>1 DEF Deep!Read, Smart!Interval
  <2>4. QED
    BY <2>2, <2>3
<1>5. ASSUME Cardinality(kept) < RefinementCap PROVE x \in kept
  BY <1>2, <1>4, <1>5, BelowTheCap
<1>6. \/ kept = {} /\ Deep!Leave /\ refinementQueue' = {}
      \/ Deep!HandOut(kept)
  BY <1>2 DEF Deep!StartRefinement
<1> HIDE DEF kept
<1>7. CASE Deep!HandOut(kept)
  <2>1. reads = {Deep!ReadOf(y) : y \in kept}
    BY <1>7, FirstAndRest
  <2>2. Cardinality(kept) <= Cardinality(reads)
    BY <1>1, <1>3, <2>1, AsManyReads
  <2>3. IsFiniteSet(reads) /\ Cardinality(reads) \in Nat
    <3> DEFINE reading == [y \in kept |-> Deep!ReadOf(y)]
    <3>1. reading \in Surjection(kept, reads)
      BY <2>1 DEF Surjection
    <3> HIDE DEF reading
    <3>2. QED
      BY <1>3, <3>1, FS_Surjection, FS_CardinalityType
  <2>4. x \in kept
    BY <1>1, <1>3, <1>5, <2>2, <2>3
  <2>5. QED
    BY <1>4, <2>1, <2>4
<1>8. CASE kept = {} /\ Deep!Leave /\ refinementQueue' = {}
  <2>1. reads = {task'}
    BY <1>8
  <2>2. Cardinality(reads) = 1
    BY <2>1, FS_Singleton
  <2>3. Cardinality(kept) < RefinementCap
    BY <1>1, <1>8, <2>2, FS_EmptySet
  <2>4. QED
    BY <1>5, <1>8, <2>3
<1>9. QED
  BY <1>6, <1>7, <1>8

\* Every step files only blocks of the range as failed.
LEMMA FailedStep ==
  ASSUME IInv, FailedInv, [Next]_vars
  PROVE  FailedInv'
<1>1. ASSUME UNCHANGED failedIntervals PROVE FailedInv'
  BY <1>1 DEF FailedInv, Within
<1>2. CASE SafeStep \/ SmartStep \/ UNCHANGED vars
  BY <1>1, <1>2 DEF SafeStep, SmartStep, vars, deepVars
<1>3. CASE DeepStep
  <2>1. DeepIInv /\ Deep!Next
    BY <1>3 DEF DeepStep, IInv
  <2>2. CASE Deep!SmartFailure
    <3>1. Busy /\ SmartIInv
      BY <2>1, <2>2, PhaseOneIsSmart
      DEF DeepIInv, Deep!SmartFailure, Smart!Split, Smart!GiveUpSingle, Smart!Refused, Busy
    <3>2. Within(task) /\ failedIntervals' = failedIntervals \cup {task}
      BY <2>2, <3>1 DEF SmartIInv, TaskInv, Deep!SmartFailure
    <3>3. QED
      BY <3>2 DEF FailedInv, Within
  <2>3. CASE ~Deep!SmartFailure
    BY <1>1, <2>1, <2>3
    DEF Deep!Next, Deep!SmartNext, Deep!StartRefinement, Deep!Refine, Deep!Finish,
        Deep!SmartSuccess, Deep!RefinementResult, Deep!deepVars
  <2>4. QED
    BY <2>2, <2>3
<1>4. QED
  BY <1>2, <1>3 DEF Next

\* The step into phase 2 is the one that builds the queue.
LEMMA PhaseTwoStarts ==
  ASSUME IInv, [Next]_vars, phase = 1, phase' = 2
  PROVE  DeepIInv /\ Deep!StartRefinement
<1>1. DeepStep
  BY DEF Next, SafeStep, SmartStep, vars, deepVars
<1>2. DeepIInv /\ Deep!Next
  BY <1>1 DEF DeepStep, IInv
<1>3. QED
  BY <1>2
  DEF Deep!Next, Deep!SmartNext, Deep!Refine, Deep!Finish, Deep!SmartSuccess,
      Deep!SmartFailure, Deep!RefinementResult, Deep!deepVars

\* deep reads every register again that was refused beside a block it captured,
\* on its own, unless the cap cut the refinement short: for every range, window,
\* block sizes and device.
THEOREM EdgesRetried == Spec => EdgesAreRetried
<1>1. Init => FailedInv
  BY DEF Init, Deep!Init, NoDeep, FailedInv
<1>2. IInv /\ FailedInv /\ [Next]_vars => FailedInv'
  BY FailedStep
<1>3. IInv /\ FailedInv /\ [Next]_vars =>
        [phase = 1 /\ phase' = 2 =>
           LET reads == {Deep!ReadOf(x) : x \in refinementQueue'} \cup {task'}
           IN Deep!Cardinality(reads) < RefinementCap =>
                \A i \in DOMAIN readableIntervals, f \in failedIntervals :
                  f.count = 1
                    /\ f.start \in {readableIntervals[i].start - 1,
                                    Deep!LastOf(readableIntervals[i]) + 1}
                    => f \in reads]_(Deep!vars)
  <2> SUFFICES ASSUME IInv, FailedInv, [Next]_vars, phase = 1, phase' = 2,
                      NEW reads, reads = {Deep!ReadOf(x) : x \in refinementQueue'} \cup {task'},
                      Cardinality(reads) < RefinementCap,
                      NEW i \in DOMAIN readableIntervals, NEW f \in failedIntervals, f.count = 1,
                      f.start \in {readableIntervals[i].start - 1,
                                   Deep!LastOf(readableIntervals[i]) + 1}
               PROVE  f \in reads
    BY SameCardinality
  <2>1. QED
    BY PhaseTwoStarts, StartRetries
<1>4. QED
  BY <1>1, <1>2, <1>3, ExhaustiveInvariant, PTL DEF Spec, EdgesAreRetried, Deep!EdgesAreRetried
=============================================================================
