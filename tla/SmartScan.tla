----------------------------- MODULE SmartScan ------------------------------
(***************************************************************************)
(* The "smart" strategy: cut the range into blocks of MaxBlock registers,  *)
(* read the smallest waiting block first and halve a block whose read      *)
(* failed, down to single registers.                                       *)
(***************************************************************************)
EXTENDS ScanLoop, FiniteSets

VARIABLES
  queue,    (* the heap: blocks waiting to be read                         *)
  visited   (* blocks handed out before                                    *)

smartVars == <<queue, visited>>
vars == <<loopVars, smartVars>>

Interval == [start : Addr, count : 1 .. MaxBlock]

SmartTypeOK ==
  /\ queue \subseteq Interval
  /\ visited \subseteq Interval

TypeOK == LoopTypeOK /\ SmartTypeOK

(* Faulty forms of the definitions below: the faults the properties catch. *)
InitialBlocksOverrun ==
  {Read(a, MaxBlock) : a \in {b \in ScanRange : (b - StartAddress) % MaxBlock = 0}}
HalvesWithGap(t) ==
  {Read(t.start, t.count \div 2), Read(t.start + t.count \div 2 + 1, t.count - t.count \div 2)}
-----------------------------------------------------------------------------
\* Init: the range in blocks of MaxBlock registers, the last one shorter.
InitialBlocks ==
  {Read(a, IF EndAddress - a + 1 < MaxBlock THEN EndAddress - a + 1 ELSE MaxBlock) :
     a \in {b \in ScanRange : (b - StartAddress) % MaxBlock = 0}}

SmartInit ==
  /\ queue = InitialBlocks
  /\ visited = {}

Init == LoopInit /\ SmartInit

\* smartQueue.Less: fewer registers first, then the lower address.
Before(x, y) == x.count < y.count \/ (x.count = y.count /\ x.start <= y.start)

\* The top of the heap.  No block is ever pushed twice (NothingVisitedWaits),
\* so the heap is a set and the visited check of Next() never drops one.
IsTop(iv) == iv \in queue /\ \A other \in queue : Before(iv, other)

\* Next(): hand out the top, skip it when it was handed out before.
Pop ==
  /\ \E iv \in queue :
       /\ IsTop(iv)
       /\ queue' = queue \ {iv}
       /\ visited' = visited \cup {iv}
       /\ IF iv \in visited THEN Idle /\ UNCHANGED loopVars ELSE Issue(iv)

\* Done(), or Next() found nothing to hand out.
Finish == queue = {} /\ Leave /\ UNCHANGED smartVars

\* OnResult of a failed block of several registers pushes its halves.
MustSplit(t) == t.count > 1
Halves(t) ==
  {Read(t.start, t.count \div 2), Read(t.start + t.count \div 2, t.count - t.count \div 2)}

OnSuccess == Answered /\ UNCHANGED smartVars

Split ==
  /\ MustSplit(task)
  /\ Refused
  /\ queue' = queue \cup Halves(task)
  /\ UNCHANGED visited

GiveUpSingle == ~MustSplit(task) /\ Refused /\ UNCHANGED smartVars

Next == Pop \/ Finish \/ OnSuccess \/ Split \/ GiveUpSingle

Spec == Init /\ [][Next]_vars
FairSpec == Spec /\ WF_vars(Next)
-----------------------------------------------------------------------------
\* A waiting block was never handed out before: halving makes new blocks, so
\* the visited check cannot silently drop registers from the scan.
NothingVisitedWaits == queue \cap visited = {}

\* No register is captured twice: the blocks read successfully are disjoint.
CapturedOnce ==
  [][captured' # captured => Covered(task) \cap captured = {}]_vars

\* printScanWorstCaseHint: at most 2 x range - initial blocks reads.
ReadsBounded == requests <= 2 * RangeLen - Cardinality(InitialBlocks)
=============================================================================
