------------------------------ MODULE DeepScan ------------------------------
(***************************************************************************)
(* The "deep" strategy: a complete smart scan (phase 1), then small reads  *)
(* around every edge of a block it read that touches a failed block        *)
(* (phase 2, refinement).                                                  *)
(***************************************************************************)
EXTENDS ScanLoop, FiniteSets

VARIABLES
  queue, visited,     (* of the smart strategy that runs as phase 1        *)
  phase,              (* 1 = smart, 2 = refinement                         *)
  readableIntervals,  (* blocks read in phase 1, in order                  *)
  failedIntervals,    (* blocks that failed in phase 1                     *)
  refinementQueue     (* refinements whose read is still to be handed out  *)

deepVars == <<phase, readableIntervals, failedIntervals, refinementQueue>>
vars == <<loopVars, queue, visited, deepVars>>

Smart == INSTANCE SmartScan

\* A read that refines an edge.  The edges are numbered in the order the code
\* visits them: 2i - 1 is the left edge of the i-th block read, 2i its right one.
Refinement == [edge : Nat, start : ScanRange, count : RefinementCounts]
ReadOf(x) == Read(x.start, x.count)

TypeOK ==
  /\ LoopTypeOK
  /\ Smart!SmartTypeOK
  /\ phase \in {1, 2}
  /\ readableIntervals \in Seq(Smart!Interval)
  /\ failedIntervals \subseteq Smart!Interval
  /\ refinementQueue \subseteq Refinement

(* Faulty forms of the definitions below: the faults the properties catch. *)
Uncapped(reads) == reads
ContainsOnly(a, left) ==
  \E f \in failedIntervals : a \in Covered(f)
-----------------------------------------------------------------------------
Init ==
  /\ LoopInit
  /\ Smart!SmartInit
  /\ phase = 1
  /\ readableIntervals = <<>>
  /\ failedIntervals = {}
  /\ refinementQueue = {}

\* A failed block touches the edge at address a of a block that was read.
HasFailureAdjacent(a, left) ==
  \E f \in failedIntervals :
    a \in Covered(f) \/ (IF left THEN a - 1 ELSE a + 1) \in Covered(f)

\* buildRefinementQueue: the edges with evidence of a boundary beside them.
IsLeft(k) == k % 2 = 1
EdgeAt(k) ==
  LET iv == readableIntervals[(k + 1) \div 2] IN IF IsLeft(k) THEN iv.start ELSE LastOf(iv)

Boundaries ==
  {k \in 1 .. 2 * Len(readableIntervals) :
     /\ IF IsLeft(k) THEN EdgeAt(k) > StartAddress ELSE EdgeAt(k) < EndAddress
     /\ HasFailureAdjacent(EdgeAt(k), IsLeft(k))}

\* queueRefinements: the reads from the window around an edge that stay in
\* the range.
Near(at) == {a \in ScanRange : at - RefinementWindow <= a /\ a <= at + RefinementWindow}
Fits(x) == LastOf(ReadOf(x)) <= EndAddress

\* The order in which the reads are queued: by edge, start and count.
Earlier(x, y) ==
  \/ x.edge < y.edge
  \/ x.edge = y.edge /\ (x.start < y.start \/ (x.start = y.start /\ x.count < y.count))

\* The queue ends at the cap.
Capped(reads) == {x \in reads : Cardinality({y \in reads : Earlier(y, x)}) < RefinementCap}

\* Every read is queued once, at the first edge that calls for it
\* (refinementSeen).
BuildRefinementQueue ==
  LET boundaries == Boundaries
      near == [k \in boundaries |-> Near(EdgeAt(k))]
      new(k) == near[k] \ UNION {near[j] : j \in {b \in boundaries : b < k}}
      wanted == UNION {[edge : {k}, start : new(k), count : RefinementCounts] : k \in boundaries}
      reads == {x \in wanted : Fits(x)}
  IN Capped(reads)

\* The read of x, the head of the queue, is handed out.
HandOut(reads) ==
  \E x \in reads :
    /\ \A y \in reads : x = y \/ Earlier(x, y)
    /\ Issue(ReadOf(x))
    /\ refinementQueue' = reads \ {x}

\* Next() in phase 1 while smart has a block.
SmartNext == phase = 1 /\ Smart!Pop /\ UNCHANGED deepVars

\* Next() when smart has none: build the refinement reads, hand out the first.
StartRefinement ==
  /\ phase = 1 /\ queue = {} /\ Idle
  /\ phase' = 2
  /\ \E reads \in {BuildRefinementQueue} :
       \/ reads = {} /\ Leave /\ refinementQueue' = {}
       \/ HandOut(reads)
  /\ UNCHANGED <<queue, visited, readableIntervals, failedIntervals>>

\* Next() in phase 2.
Refine ==
  /\ phase = 2
  /\ HandOut(refinementQueue)
  /\ UNCHANGED <<queue, visited, phase, readableIntervals, failedIntervals>>

Done == phase = 2 /\ refinementQueue = {}

Finish == Done /\ Leave /\ UNCHANGED <<queue, visited, deepVars>>

\* OnResult in phase 1: smart's own, and the block is filed.
SmartSuccess ==
  /\ phase = 1 /\ Smart!OnSuccess
  /\ readableIntervals' = Append(readableIntervals, task)
  /\ UNCHANGED <<phase, failedIntervals, refinementQueue>>

SmartFailure ==
  /\ phase = 1
  /\ Smart!Split \/ Smart!GiveUpSingle
  /\ failedIntervals' = failedIntervals \cup {task}
  /\ UNCHANGED <<phase, readableIntervals, refinementQueue>>

\* OnResult in phase 2: nothing.
RefinementResult ==
  /\ phase = 2
  /\ Answered \/ Refused
  /\ UNCHANGED <<queue, visited, deepVars>>

Next == \/ SmartNext \/ StartRefinement \/ Refine \/ Finish
        \/ SmartSuccess \/ SmartFailure \/ RefinementResult

Spec == Init /\ [][Next]_vars
-----------------------------------------------------------------------------
\* printScanWorstCaseHint: smart's reads plus at most RefinementCap.
ReadsBounded ==
  requests <= 2 * RangeLen - Cardinality(Smart!InitialBlocks) + RefinementCap

\* "Find exact edges" (ALGOS.md 4): once the refinement reads are built, and
\* unless the cap cut them short, every refused register beside a block that
\* was read is about to be read again, alone.
EdgesAreRetried ==
  [][phase = 1 /\ phase' = 2 =>
       LET reads == {ReadOf(x) : x \in refinementQueue'} \cup {task'}
       IN Cardinality(reads) < RefinementCap =>
            \A i \in DOMAIN readableIntervals, f \in failedIntervals :
              f.count = 1 /\ f.start \in {readableIntervals[i].start - 1, LastOf(readableIntervals[i]) + 1}
                => f \in reads]_vars
=============================================================================
