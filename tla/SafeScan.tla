------------------------------ MODULE SafeScan ------------------------------
(***************************************************************************)
(* The "safe" strategy: walk up the range; at each address try the block   *)
(* sizes from the largest to 1 and step over what was read, or over one    *)
(* address when even a single register is refused.  The first success      *)
(* after a failure also re-reads the register just below it (the           *)
(* left-boundary probe), whose result must not move the walk.              *)
(***************************************************************************)
EXTENDS ScanLoop, FiniteSets

VARIABLES
  current,     (* next address to settle; one past the range at the end    *)
  ladder,      (* candidate sizes not yet tried at current                 *)
  hadFailure,  (* a read has failed since the last success                 *)
  probe,       (* the left-boundary probe: "none", "pending", "inFlight"   *)
  probeAddr    (* the address it reads                                     *)

strategyVars == <<current, ladder, hadFailure, probe, probeAddr>>
vars == <<loopVars, strategyVars>>

TypeOK ==
  /\ LoopTypeOK
  /\ current \in StartAddress .. EndAddress + 1
  /\ ladder \in SUBSET SafeSizes
  /\ hadFailure \in BOOLEAN
  /\ probe \in {"none", "pending", "inFlight"}
  /\ probeAddr \in Addr

(* Faulty forms of the definitions below: the faults the properties catch. *)
DoneOneEarly == probe # "pending" /\ current >= EndAddress
StepPast(t) == t.start + t.count + 1
StayPut(open) == current
GiveUpAtOnce(open) == current + 1
-----------------------------------------------------------------------------
Init ==
  /\ LoopInit
  /\ current = StartAddress
  /\ ladder = {}
  /\ hadFailure = FALSE
  /\ probe = "none"
  /\ probeAddr = 0

\* The registers left, as the code computes them: in 16 bits.
Remaining(at) == Wrap(EndAddress - at + 1)

\* candidateCountsSafe: the sizes that still fit in the range.
Candidates(at) == {size \in SafeSizes : size <= Remaining(at)}

Done == probe # "pending" /\ current > EndAddress

\* Next() hands out the pending left-boundary probe.
IssueProbe ==
  /\ probe = "pending"
  /\ Issue(Read(probeAddr, 1))
  /\ probe' = "inFlight"
  /\ UNCHANGED <<current, ladder, hadFailure, probeAddr>>

\* Next() hands out the largest size not yet tried at current.
IssueCandidate ==
  /\ ~Done /\ probe = "none"
  /\ LET open == IF ladder = {} THEN Candidates(current) ELSE ladder
     IN \E size \in open :
          /\ \A other \in open : other <= size
          /\ Issue(Read(current, size))
          /\ ladder' = open \ {size}
  /\ UNCHANGED <<current, hadFailure, probe, probeAddr>>

\* Done(), or Next() has no task because no candidate size is left.
Finish ==
  /\ probe # "pending"
  /\ Done \/ (ladder = {} /\ Candidates(current) = {})
  /\ Leave
  /\ UNCHANGED strategyVars

\* OnResult of the probe: the result is only captured.
ProbeResult ==
  /\ probe = "inFlight"
  /\ Answered \/ Refused
  /\ probe' = "none"
  /\ UNCHANGED <<current, ladder, hadFailure, probeAddr>>

\* Probe the register below a block found after failures, inside the range.
WantsProbe(t) == hadFailure /\ t.start > StartAddress

StepOver(t) == t.start + t.count

OnSuccess ==
  /\ probe # "inFlight"
  /\ Answered
  /\ IF WantsProbe(task)
     THEN probe' = "pending" /\ probeAddr' = task.start - 1
     ELSE UNCHANGED <<probe, probeAddr>>
  /\ current' = StepOver(task)
  /\ ladder' = {}
  /\ hadFailure' = FALSE

\* On the last candidate the address is given up and the walk moves on.
AfterFailure(open) == IF open = {} THEN current + 1 ELSE current

OnFailure ==
  /\ probe # "inFlight"
  /\ Refused
  /\ hadFailure' = TRUE
  /\ current' = AfterFailure(ladder)
  /\ UNCHANGED <<ladder, probe, probeAddr>>

Next == \/ IssueProbe \/ IssueCandidate \/ Finish
        \/ ProbeResult \/ OnSuccess \/ OnFailure

Spec == Init /\ [][Next]_vars
FairSpec == Spec /\ WF_vars(Next)
-----------------------------------------------------------------------------
\* A pending or running left-boundary probe reads a register the walk has
\* already settled (scan_algo.go, Milestone D): the probe can recover a
\* register only from a device that failed transiently.
ProbeRevisits == probe # "none" => probeAddr \in captured \cup refused

\* printScanWorstCaseHint: with no hits at most |SafeSizes| reads per address.
\* With hits the left-boundary probe adds at most one per address.
ReadsBounded ==
  /\ captured = {} => requests <= RangeLen * Cardinality(SafeSizes)
  /\ requests <= RangeLen * (Cardinality(SafeSizes) + 1)
=============================================================================
