------------------------ MODULE SearchingScan_proofs ------------------------
(***************************************************************************)
(* Proofs about the strategies that look for blocks, for every range, read *)
(* size, seed, step, SunSpec choice and device: what they take for a block *)
(* was captured, the edges they find are exact, their reads stay in scope  *)
(* and within the documented worst case, and stepped loses no position.    *)
(*                                                                         *)
(* Each strategy has an inductive invariant of its own.  Its core relates  *)
(* the window of a search to the device: the block up to its lower end was *)
(* read, and what lies beyond its upper end was refused together with the  *)
(* registers up to the block, so on a device that answers what it can one  *)
(* of them is missing.                                                     *)
(*                                                                         *)
(* Two more invariants rest on those.  The first has every read paid by    *)
(* something that is spent for good: blocks of the range, step positions,  *)
(* candidate bases and models.  The second, of stepped, says what is owed  *)
(* to the positions behind, and which probes and sizes at the current one  *)
(* had nothing to offer.                                                   *)
(***************************************************************************)
EXTENDS SearchingScan, SequenceTheorems, FiniteSetTheorems, TLAPS

\* The constants are integers in the order the assumptions give them.
LEMMA Bounds ==
  /\ AddrMax \in Int /\ MaxBlock \in Int /\ StartAddress \in Int /\ EndAddress \in Int
  /\ 0 <= StartAddress /\ StartAddress <= EndAddress /\ EndAddress <= AddrMax
  /\ 1 <= MaxBlock /\ 2 <= MaxBlock
  BY ScanAssumption

\* Nothing is captured that the device does not have.
FromDevice == captured \subseteq device.readable

\* The results of a read are those of the loop, whatever the strategy.
LEMMA SameLoop ==
  /\ Boundary!Answered \/ Linear!Answered \/ SunSpec!Answered => Answered
  /\ Boundary!Refused \/ Linear!Refused \/ SunSpec!Refused => Refused
  /\ Boundary!NoTask = NoTask /\ Linear!NoTask = NoTask /\ SunSpec!NoTask = NoTask
<1>1. Boundary!Answered => Answered
  BY DEF Boundary!Answered, Boundary!Covered, Boundary!LastOf, Boundary!readable, Boundary!NoTask,
         Boundary!Read, Answered, Covered, LastOf, readable, NoTask, Read
<1>2. Linear!Answered => Answered
  BY DEF Linear!Answered, Linear!Covered, Linear!LastOf, Linear!readable, Linear!NoTask,
         Linear!Read, Answered, Covered, LastOf, readable, NoTask, Read
<1>3. SunSpec!Answered => Answered
  BY DEF SunSpec!Answered, SunSpec!Covered, SunSpec!LastOf, SunSpec!readable, SunSpec!NoTask,
         SunSpec!Read, Answered, Covered, LastOf, readable, NoTask, Read
<1>4. Boundary!Refused => Refused
  BY DEF Boundary!Refused, Boundary!Covered, Boundary!LastOf, Boundary!readable, Boundary!NoTask,
         Boundary!Read, Refused, Covered, LastOf, readable, NoTask, Read
<1>5. Linear!Refused => Refused
  BY DEF Linear!Refused, Linear!Covered, Linear!LastOf, Linear!readable, Linear!NoTask,
         Linear!Read, Refused, Covered, LastOf, readable, NoTask, Read
<1>6. SunSpec!Refused => Refused
  BY DEF SunSpec!Refused, SunSpec!Covered, SunSpec!LastOf, SunSpec!readable, SunSpec!NoTask,
         SunSpec!Read, Refused, Covered, LastOf, readable, NoTask, Read
<1>7. Boundary!NoTask = NoTask /\ Linear!NoTask = NoTask /\ SunSpec!NoTask = NoTask
  BY DEF Boundary!NoTask, Boundary!Read, Linear!NoTask, Linear!Read, SunSpec!NoTask, SunSpec!Read,
         NoTask, Read
<1>8. QED
  BY <1>1, <1>2, <1>3, <1>4, <1>5, <1>6, <1>7

\* A read that is answered adds its registers, all of which the device has, to
\* the capture.
LEMMA AnsweredFacts ==
  ASSUME FromDevice, Boundary!Answered \/ Linear!Answered \/ SunSpec!Answered,
         task.start \in Int, task.count \in Int
  PROVE  /\ task # Boundary!NoTask /\ task # Linear!NoTask /\ task # SunSpec!NoTask
         /\ task' = Boundary!NoTask /\ task' = Linear!NoTask /\ task' = SunSpec!NoTask
         /\ device' = device /\ finished' = finished
         /\ FromDevice'
         /\ \A a : a \in captured => a \in captured'
         /\ \A a \in Int : task.start <= a /\ a < task.start + task.count =>
              a \in captured' /\ a \in device.readable
<1>0. Answered
  BY SameLoop
<1>1. task # NoTask /\ task' = NoTask /\ device' = device /\ finished' = finished
  BY <1>0 DEF Answered
<1>2. captured' = captured \cup Covered(task) /\ Covered(task) \subseteq device.readable
  BY <1>0 DEF Answered, readable
<1>3. \A a \in Int : task.start <= a /\ a < task.start + task.count => a \in Covered(task)
  BY DEF Covered, LastOf
<1>4. QED
  BY <1>1, <1>2, <1>3, SameLoop DEF FromDevice

\* A read that is refused by a device that is not lossy has a register that the
\* device has not.
LEMMA RefusedFacts ==
  ASSUME FromDevice, Boundary!Refused \/ Linear!Refused \/ SunSpec!Refused,
         task.start \in Int, task.count \in Int
  PROVE  /\ task # Boundary!NoTask /\ task # Linear!NoTask /\ task # SunSpec!NoTask
         /\ task' = Boundary!NoTask /\ task' = Linear!NoTask /\ task' = SunSpec!NoTask
         /\ device' = device /\ finished' = finished /\ captured' = captured
         /\ FromDevice'
         /\ ~device.lossy =>
              \E a \in Int : task.start <= a /\ a < task.start + task.count /\ a \notin device.readable
<1>0. Refused
  BY SameLoop
<1>1. /\ task # NoTask
      /\ task' = NoTask /\ device' = device /\ finished' = finished /\ captured' = captured
  BY <1>0 DEF Refused
<1>2. ASSUME ~device.lossy
      PROVE  \E a \in Int : task.start <= a /\ a < task.start + task.count /\ a \notin device.readable
  <2>1. PICK a \in Covered(task) : a \notin device.readable
    BY <1>0, <1>2 DEF Refused, readable
  <2>2. a \in Int /\ task.start <= a /\ a < task.start + task.count
    BY <2>1 DEF Covered, LastOf
  <2>3. QED
    BY <2>1, <2>2
<1>3. QED
  BY <1>1, <1>2, SameLoop DEF FromDevice
-----------------------------------------------------------------------------
(* The boundary strategy.                                                 *)

BoundaryTypes ==
  /\ phase \in Boundary!Phases /\ seedEmitted \in BOOLEAN
  /\ blockStart \in Int /\ blockEnd \in Int
  /\ leftExpandIdx \in 0 .. Len(BoundarySizes) /\ rightExpandIdx \in 0 .. Len(BoundarySizes)
  /\ left \in [low : Int, high : Int, floor : Int]
  /\ right \in [low : Int, high : Int, ceil : Int]

\* The block lies in the range.
BlockInv ==
  phase # "done" =>
    StartAddress <= blockStart /\ blockStart < blockEnd /\ blockEnd <= EndAddress + 1

\* A read of the seed is the seed, a read of an expansion or a search ends or
\* begins at the edge of the block it wants to move.
BoundaryTaskInv ==
  task # Boundary!NoTask =>
    /\ task.start \in Int /\ task.count \in 1 .. MaxBlock
    /\ phase = "seed" => seedEmitted /\ task.start = blockStart /\ task.start + task.count = blockEnd
    /\ phase \in {"leftExpand", "leftBinary"} =>
         StartAddress <= task.start /\ task.start + task.count = blockStart
    /\ phase = "leftBinary" => left.low <= task.start
    /\ phase \in {"rightExpand", "rightBinary"} =>
         task.start = blockEnd /\ task.start + task.count <= EndAddress + 1
    /\ phase = "rightBinary" => task.start + task.count - 1 <= right.high
    /\ phase # "done"

\* The seed is read first, and nothing before it.
SeedInv ==
  phase = "seed" =>
    /\ blockEnd - blockStart <= MaxBlock
    /\ ~seedEmitted \/ task # Boundary!NoTask => captured = {}
    /\ seedEmitted /\ task = Boundary!NoTask => \A a \in Int : blockStart <= a /\ a < blockEnd => a \in captured

BoundaryCaptured ==
  phase \notin {"seed", "done"} => \A a \in Int : blockStart <= a /\ a < blockEnd => a \in captured

\* The window of the left search: what is below low was refused together with
\* the registers up to the block, so one of them is missing.
LeftInv ==
  phase = "leftBinary" =>
    /\ left.high = blockStart
    /\ StartAddress <= left.floor /\ left.floor <= left.low /\ left.low <= left.high
    /\ blockStart - left.floor <= MaxBlock
    /\ ~device.lossy /\ left.low > left.floor =>
         \E a \in Int : left.low - 1 <= a /\ a < blockStart /\ a \notin device.readable

LeftMaximal ==
  ~device.lossy /\ blockStart > StartAddress => blockStart - 1 \notin device.readable

\* The same on the right, where high is the last candidate.
RightInv ==
  phase = "rightBinary" =>
    /\ right.low = blockEnd
    /\ right.low <= right.high + 1 /\ right.high <= right.ceil /\ right.ceil <= EndAddress
    /\ right.ceil - blockEnd + 1 <= MaxBlock
    /\ ~device.lossy /\ right.high < right.ceil =>
         \E a \in Int : blockEnd <= a /\ a <= right.high + 1 /\ a \notin device.readable

RightMaximal ==
  ~device.lossy /\ blockEnd <= EndAddress => blockEnd \notin device.readable

EdgeInv ==
  /\ phase \in {"rightExpand", "rightBinary"} => LeftMaximal
  /\ phase = "done" /\ captured # {} =>
       /\ LeftMaximal /\ RightMaximal
       /\ \A a \in Int : blockStart <= a /\ a < blockEnd => a \in captured

EndInv == finished => phase = "done"

BoundaryInv ==
  /\ FromDevice /\ BoundaryTypes /\ BlockInv /\ BoundaryTaskInv /\ SeedInv /\ BoundaryCaptured
  /\ LeftInv /\ RightInv /\ EdgeInv /\ EndInv

\* The invariant of boundary holds at the start.
LEMMA BoundaryInit == Boundary!Init => BoundaryInv
<1> SUFFICES ASSUME Boundary!Init PROVE BoundaryInv
  OBVIOUS
<1> USE DEF Boundary!Init, Boundary!LoopInit
<1>1. PICK seed \in Seeds :
        /\ phase = IF Boundary!IsUsable(seed) THEN "seed" ELSE "done"
        /\ blockStart = seed.start
        /\ blockEnd = seed.start + seed.count
  OBVIOUS
<1>2. seed.start \in Int /\ seed.count \in Int
  BY BoundaryAssumption, Bounds
<1>3. BoundaryTypes
  <2>1. phase \in Boundary!Phases /\ blockStart \in Int /\ blockEnd \in Int
    BY <1>1, <1>2 DEF Boundary!Phases
  <2>2. seedEmitted \in BOOLEAN
    BY Zenon
  <2>3. Len(BoundarySizes) \in Nat
    BY BoundaryAssumption
  <2>4. leftExpandIdx \in 0 .. Len(BoundarySizes) /\ rightExpandIdx \in 0 .. Len(BoundarySizes)
    BY <2>3
  <2>5. left \in [low : Int, high : Int, floor : Int]
        /\ right \in [low : Int, high : Int, ceil : Int]
    OBVIOUS
  <2>6. QED
    BY <2>1, <2>2, <2>4, <2>5 DEF BoundaryTypes
<1>4. BlockInv /\ SeedInv
  BY <1>1, <1>2, Bounds DEF BlockInv, SeedInv, Boundary!IsUsable, Boundary!LastOf
<1>5. FromDevice /\ BoundaryTaskInv /\ BoundaryCaptured /\ LeftInv /\ RightInv /\ EdgeInv /\ EndInv
  BY <1>1 DEF FromDevice, BoundaryTaskInv, BoundaryCaptured, LeftInv, RightInv, EdgeInv, EndInv
<1>6. QED
  BY <1>3, <1>4, <1>5 DEF BoundaryInv

\* The sizes of the expansion are sizes of reads.
LEMMA SizeFacts ==
  ASSUME NEW i \in 0 .. Len(BoundarySizes), i < Len(BoundarySizes)
  PROVE  /\ i + 1 \in 0 .. Len(BoundarySizes)
         /\ BoundarySizes[i + 1] \in Int
         /\ 1 <= BoundarySizes[i + 1] /\ BoundarySizes[i + 1] <= MaxBlock
<1>1. Len(BoundarySizes) \in Nat /\ BoundarySizes \in Seq(1 .. MaxBlock)
  BY BoundaryAssumption
<1>2. i + 1 \in 1 .. Len(BoundarySizes)
  BY <1>1
<1>3. BoundarySizes[i + 1] \in 1 .. MaxBlock
  <2> DEFINE Sizes == 1 .. MaxBlock
  <2>1. BoundarySizes \in Seq(Sizes)
    BY <1>1
  <2> HIDE DEF Sizes
  <2>2. BoundarySizes[i + 1] \in Sizes
    BY <1>2, <2>1
  <2>3. QED
    BY <2>2 DEF Sizes
<1>4. QED
  BY <1>1, <1>2, <1>3, Bounds

\* The seed.
LEMMA SeedStep ==
  ASSUME BoundaryInv, Boundary!EmitSeed \/ Boundary!SeedDone \/ Boundary!SeedResult
  PROVE  BoundaryInv'
<1> USE DEF BoundaryInv
<1>1. CASE Boundary!EmitSeed
  <2>1. /\ task' = [start |-> blockStart, count |-> blockEnd - blockStart]
           /\ task' # Boundary!NoTask
        /\ UNCHANGED <<device, captured, finished, phase, blockStart, blockEnd,
                       leftExpandIdx, rightExpandIdx, left, right>>
        /\ phase = "seed" /\ ~seedEmitted /\ task = Boundary!NoTask /\ ~finished
    BY <1>1 DEF Boundary!EmitSeed, Boundary!Issue, Boundary!Idle, Boundary!Between,
      Boundary!Read, Boundary!NoTask, BlockInv, BoundaryTypes
  <2>2. seedEmitted'
    BY <1>1, Zenon DEF Boundary!EmitSeed
  <2>3. seedEmitted' \in BOOLEAN
    BY <1>1, Zenon DEF Boundary!EmitSeed
  <2>4. BoundaryTypes'
    BY <2>1, <2>3 DEF BoundaryTypes
  <2>5. BlockInv' /\ BoundaryCaptured' /\ LeftInv' /\ RightInv' /\ EdgeInv' /\ EndInv'
        /\ FromDevice'
    BY <2>1 DEF BlockInv, BoundaryCaptured, LeftInv, RightInv, EdgeInv, EndInv, FromDevice
  <2>6. BoundaryTaskInv' /\ SeedInv'
    BY <2>1, <2>2, Bounds DEF BoundaryTaskInv, SeedInv, BlockInv, BoundaryTypes
  <2>7. QED
    BY <2>4, <2>5, <2>6
<1>2. CASE Boundary!SeedDone
  <2>1. /\ UNCHANGED <<device, task, captured, finished, seedEmitted, blockStart, blockEnd,
                       leftExpandIdx, rightExpandIdx, left, right>>
        /\ phase = "seed" /\ phase' = "leftExpand" /\ seedEmitted /\ task = Boundary!NoTask
           /\ ~finished
    BY <1>2 DEF Boundary!SeedDone, Boundary!Idle, Boundary!loopVars
  <2>2. BoundaryTypes'
    BY <2>1 DEF BoundaryTypes, Boundary!Phases
  <2>3. BlockInv' /\ FromDevice' /\ LeftInv' /\ RightInv' /\ EdgeInv' /\ EndInv'
        /\ BoundaryTaskInv' /\ SeedInv'
    BY <2>1 DEF BlockInv, LeftInv, RightInv, EdgeInv, EndInv, FromDevice, BoundaryTaskInv, SeedInv
  <2>4. BoundaryCaptured'
    BY <2>1 DEF SeedInv, BoundaryCaptured
  <2>5. QED
    BY <2>2, <2>3, <2>4
<1>3. CASE Boundary!SeedResult
  <2>1. /\ phase = "seed" /\ task # Boundary!NoTask
        /\ UNCHANGED <<seedEmitted, blockStart, blockEnd, leftExpandIdx, rightExpandIdx, left, right>>
        /\ ~finished
    BY <1>3 DEF Boundary!SeedResult, Boundary!Answered, Boundary!Refused, EndInv
  <2>2. task.start = blockStart /\ task.start + task.count = blockEnd /\ task.start \in Int
        /\ task.count \in Int
        /\ seedEmitted
    BY <2>1 DEF BoundaryTaskInv
  <2>3. CASE Boundary!Answered /\ UNCHANGED phase
    <3>1. /\ task' = Boundary!NoTask /\ finished' = finished /\ FromDevice'
          /\ \A a \in Int : task.start <= a /\ a < task.start + task.count => a \in captured'
      BY <2>2, <2>3, AnsweredFacts
    <3>2. BoundaryTypes'
      BY <2>1, <2>3 DEF BoundaryTypes
    <3>3. BlockInv' /\ BoundaryTaskInv' /\ BoundaryCaptured' /\ LeftInv' /\ RightInv'
          /\ EdgeInv' /\ EndInv'
      BY <2>1, <2>3, <3>1
      DEF BlockInv, BoundaryTaskInv, BoundaryCaptured, LeftInv, RightInv, EdgeInv, EndInv
    <3>4. SeedInv'
      BY <2>1, <2>2, <2>3, <3>1 DEF SeedInv
    <3>5. QED
      BY <3>1, <3>2, <3>3, <3>4
  <2>4. CASE Boundary!Refused /\ phase' = "done"
    <3>1. /\ task' = Boundary!NoTask /\ finished' = finished /\ FromDevice' /\ captured' = captured
      BY <2>2, <2>4, RefusedFacts
    <3>2. BoundaryTypes'
      BY <2>1, <2>4 DEF BoundaryTypes, Boundary!Phases
    <3>3. captured' = {}
      BY <2>1, <3>1 DEF SeedInv
    <3>4. BlockInv' /\ BoundaryTaskInv' /\ BoundaryCaptured' /\ LeftInv' /\ RightInv'
          /\ EdgeInv' /\ EndInv' /\ SeedInv'
      BY <2>1, <2>4, <3>1, <3>3
      DEF BlockInv, BoundaryTaskInv, BoundaryCaptured, LeftInv, RightInv, EdgeInv, EndInv, SeedInv
    <3>5. QED
      BY <3>1, <3>2, <3>4
  <2>5. QED
    BY <1>3, <2>3, <2>4 DEF Boundary!SeedResult
<1>4. QED
  BY <1>1, <1>2, <1>3

\* A new window of the left search: it ends at the block and holds at most the
\* registers of one read.
LEMMA OpenLeft ==
  ASSUME BoundaryInv, Boundary!OpenLeftWindow, task = Boundary!NoTask, ~finished,
         phase \in {"leftExpand", "leftBinary"}
  PROVE  BoundaryInv'
<1> USE DEF BoundaryInv
<1>1. /\ UNCHANGED <<device, task, captured, finished, seedEmitted, blockStart, blockEnd,
                     leftExpandIdx, rightExpandIdx, right>>
      /\ phase' = "leftBinary"
      /\ left' = [low |-> Boundary!LeftFloor, high |-> blockStart, floor |-> Boundary!LeftFloor]
  BY DEF Boundary!OpenLeftWindow, Boundary!loopVars
<1>2. blockStart \in Int /\ StartAddress <= blockStart
  BY DEF BoundaryTypes, BlockInv
<1>3. /\ Boundary!LeftFloor \in Int /\ StartAddress <= Boundary!LeftFloor
         /\ Boundary!LeftFloor <= blockStart
      /\ blockStart - Boundary!LeftFloor <= MaxBlock
  BY <1>2, Bounds DEF Boundary!LeftFloor
<1>4. BoundaryTypes'
  BY <1>1, <1>2, <1>3 DEF BoundaryTypes, Boundary!Phases
<1>5. LeftInv'
  BY <1>1, <1>2, <1>3 DEF LeftInv
<1>6. BlockInv' /\ BoundaryTaskInv' /\ BoundaryCaptured' /\ RightInv' /\ EdgeInv' /\ EndInv'
      /\ SeedInv' /\ FromDevice'
  BY <1>1 DEF BlockInv, BoundaryTaskInv, BoundaryCaptured, RightInv, EdgeInv, EndInv, SeedInv,
    FromDevice
<1>7. QED
  BY <1>4, <1>5, <1>6

\* A read that is answered below the block extends it.
LEMMA LeftGrows ==
  ASSUME BoundaryInv, Boundary!Answered, phase \in {"leftExpand", "leftBinary"},
         blockStart' = task.start,
         UNCHANGED <<phase, seedEmitted, blockEnd, leftExpandIdx, rightExpandIdx, right>>
  PROVE  /\ FromDevice' /\ BlockInv' /\ BoundaryTaskInv' /\ SeedInv' /\ BoundaryCaptured'
         /\ RightInv' /\ EdgeInv' /\ EndInv'
<1> USE DEF BoundaryInv
<1>1. task # Boundary!NoTask
  BY DEF Boundary!Answered
<1>2. /\ task.start \in Int /\ task.count \in Int /\ 1 <= task.count
      /\ StartAddress <= task.start /\ task.start + task.count = blockStart
  BY <1>1 DEF BoundaryTaskInv
<1>3. /\ task' = Boundary!NoTask /\ device' = device /\ finished' = finished /\ FromDevice'
      /\ \A a : a \in captured => a \in captured'
      /\ \A a \in Int : task.start <= a /\ a < task.start + task.count => a \in captured'
  BY <1>2, AnsweredFacts
<1>4. blockEnd \in Int /\ blockStart \in Int /\ blockStart < blockEnd /\ blockEnd <= EndAddress + 1
  BY DEF BlockInv, BoundaryTypes
<1>5. BlockInv'
  BY <1>2, <1>4, Bounds DEF BlockInv
<1>6. BoundaryCaptured'
  BY <1>2, <1>3, <1>4 DEF BoundaryCaptured
<1>7. BoundaryTaskInv' /\ SeedInv' /\ RightInv' /\ EdgeInv' /\ EndInv'
  BY <1>3 DEF BoundaryTaskInv, SeedInv, RightInv, EdgeInv, EndInv
<1>8. QED
  BY <1>3, <1>5, <1>6, <1>7

\* The expansion on the left.
LEMMA LeftExpandStep ==
  ASSUME BoundaryInv, Boundary!LeftExpandOver \/ Boundary!LeftExpand \/ Boundary!LeftExpandResult
  PROVE  BoundaryInv'
<1> USE DEF BoundaryInv
<1>1. CASE Boundary!LeftExpandOver
  BY <1>1, OpenLeft DEF Boundary!LeftExpandOver, Boundary!Idle
<1>2. CASE Boundary!LeftExpand
  <2> DEFINE size == BoundarySizes[leftExpandIdx']
  <2>1. /\ phase = "leftExpand" /\ leftExpandIdx < Len(BoundarySizes)
        /\ leftExpandIdx' = leftExpandIdx + 1 /\ blockStart > StartAddress
        /\ UNCHANGED <<phase, seedEmitted, blockStart, blockEnd, rightExpandIdx, left, right>>
    BY <1>2 DEF Boundary!LeftExpand
  <2>2. size \in Int /\ 1 <= size /\ size <= MaxBlock /\ leftExpandIdx' \in 0 .. Len(BoundarySizes)
    BY <2>1, SizeFacts DEF BoundaryTypes
  <2>3. /\ task' = [start |-> Boundary!ExpandFrom(size), count |-> blockStart - Boundary!ExpandFrom(size)]
        /\ UNCHANGED <<device, captured, finished>> /\ task = Boundary!NoTask /\ ~finished
    BY <1>2 DEF Boundary!LeftExpand, Boundary!Issue, Boundary!Idle, Boundary!Between, Boundary!Read
  <2> HIDE DEF size
  <2>4. blockStart \in Int /\ blockEnd \in Int
    BY DEF BoundaryTypes
  <2>5. /\ Boundary!ExpandFrom(size) \in Int /\ StartAddress <= Boundary!ExpandFrom(size)
        /\ Boundary!ExpandFrom(size) < blockStart
           /\ blockStart - Boundary!ExpandFrom(size) <= MaxBlock
    BY <2>1, <2>2, <2>4, Bounds DEF Boundary!ExpandFrom
  <2>6. BoundaryTaskInv'
    BY <2>1, <2>3, <2>4, <2>5, Bounds DEF BoundaryTaskInv
  <2>7. BoundaryTypes'
    BY <2>1, <2>2 DEF BoundaryTypes
  <2>8. /\ FromDevice' /\ BlockInv' /\ SeedInv' /\ BoundaryCaptured' /\ LeftInv' /\ RightInv'
        /\ EdgeInv' /\ EndInv'
    BY <2>1, <2>3
    DEF FromDevice, BlockInv, SeedInv, BoundaryCaptured, LeftInv, RightInv, EdgeInv, EndInv
  <2>9. QED
    BY <2>6, <2>7, <2>8
<1>3. CASE Boundary!LeftExpandResult
  <2>1. /\ phase = "leftExpand" /\ task # Boundary!NoTask
        /\ UNCHANGED <<seedEmitted, blockEnd, leftExpandIdx, rightExpandIdx, right>>
        /\ ~finished
    BY <1>3 DEF Boundary!LeftExpandResult, Boundary!Answered, Boundary!Refused, EndInv
  <2>2. /\ task.start \in Int /\ task.count \in Int /\ 1 <= task.count /\ task.count <= MaxBlock
        /\ StartAddress <= task.start /\ task.start + task.count = blockStart
    BY <2>1, Bounds DEF BoundaryTaskInv
  <2>3. blockStart \in Int
    BY DEF BoundaryTypes
  <2>4. CASE Boundary!Answered /\ blockStart' = task.start /\ UNCHANGED <<phase, left>>
    <3>1. /\ FromDevice' /\ BlockInv' /\ BoundaryTaskInv' /\ SeedInv' /\ BoundaryCaptured'
          /\ RightInv' /\ EdgeInv' /\ EndInv'
      BY <2>1, <2>4, LeftGrows
    <3>2. BoundaryTypes'
      BY <2>1, <2>2, <2>4 DEF BoundaryTypes
    <3>3. LeftInv'
      BY <2>1, <2>4 DEF LeftInv
    <3>4. QED
      BY <3>1, <3>2, <3>3
  <2>5. CASE /\ Boundary!Refused
             /\ phase' = "leftBinary"
             /\ left' = [low |-> Boundary!LeftAfterFailure(task.start), high |-> blockStart, floor |-> task.start]
             /\ UNCHANGED blockStart
    <3>1. /\ task' = Boundary!NoTask /\ device' = device /\ finished' = finished
             /\ captured' = captured
          /\ FromDevice'
          /\ ~device.lossy =>
               \E a \in Int : task.start <= a /\ a < task.start + task.count /\ a \notin device.readable
      BY <2>2, <2>5, RefusedFacts
    <3>2. left' = [low |-> task.start + 1, high |-> blockStart, floor |-> task.start]
      BY <2>5 DEF Boundary!LeftAfterFailure
    <3>3. BoundaryTypes'
      BY <2>1, <2>2, <2>3, <2>5, <3>2 DEF BoundaryTypes, Boundary!Phases
    <3>4. LeftInv'
      BY <2>2, <2>3, <2>5, <3>1, <3>2 DEF LeftInv
    <3>5. BlockInv' /\ BoundaryTaskInv' /\ SeedInv' /\ BoundaryCaptured' /\ RightInv'
          /\ EdgeInv' /\ EndInv'
      BY <2>1, <2>5, <3>1
      DEF BlockInv, BoundaryTaskInv, SeedInv, BoundaryCaptured, RightInv, EdgeInv, EndInv
    <3>6. QED
      BY <3>1, <3>3, <3>4, <3>5
  <2>6. QED
    BY <1>3, <2>4, <2>5 DEF Boundary!LeftExpandResult
<1>4. QED
  BY <1>1, <1>2, <1>3

\* The binary search on the left.
LEMMA LeftBinaryStep ==
  ASSUME BoundaryInv, Boundary!NextLeftWindow \/ Boundary!LeftEdgeFound \/ Boundary!LeftSearch \/ Boundary!LeftBinaryResult
  PROVE  BoundaryInv'
<1> USE DEF BoundaryInv
<1>1. CASE Boundary!NextLeftWindow
  BY <1>1, OpenLeft DEF Boundary!NextLeftWindow, Boundary!Idle
<1>2. CASE Boundary!LeftEdgeFound
  <2>1. /\ UNCHANGED <<device, task, captured, finished, seedEmitted, blockStart, blockEnd,
                       leftExpandIdx, rightExpandIdx, left, right>>
        /\ phase = "leftBinary" /\ phase' = "rightExpand" /\ task = Boundary!NoTask /\ ~finished
        /\ left.low >= left.high
        /\ ~(blockStart = left.floor /\ blockStart > StartAddress)
    BY <1>2 DEF Boundary!LeftEdgeFound, Boundary!Idle, Boundary!loopVars, Boundary!LeftWindowUsedUp
  <2>2. blockStart \in Int /\ left.low \in Int /\ left.high \in Int /\ left.floor \in Int
    BY DEF BoundaryTypes
  <2>3. LeftMaximal
    <3>1. SUFFICES ASSUME ~device.lossy, blockStart > StartAddress
                   PROVE  blockStart - 1 \notin device.readable
      BY DEF LeftMaximal
    <3>2. left.low = blockStart /\ left.low > left.floor
      BY <2>1, <2>2, <3>1 DEF LeftInv
    <3>3. PICK a \in Int : left.low - 1 <= a /\ a < blockStart /\ a \notin device.readable
      BY <2>1, <3>1, <3>2 DEF LeftInv
    <3>4. a = blockStart - 1
      BY <2>2, <3>2, <3>3
    <3>5. QED
      BY <3>3, <3>4
  <2>4. EdgeInv'
    BY <2>1, <2>3 DEF EdgeInv, LeftMaximal
  <2>5. BoundaryTypes'
    BY <2>1 DEF BoundaryTypes, Boundary!Phases
  <2>6. FromDevice' /\ BlockInv' /\ BoundaryTaskInv' /\ SeedInv' /\ BoundaryCaptured'
        /\ LeftInv' /\ RightInv' /\ EndInv'
    BY <2>1 DEF FromDevice, BlockInv, BoundaryTaskInv, SeedInv, BoundaryCaptured, LeftInv,
      RightInv, EndInv
  <2>7. QED
    BY <2>4, <2>5, <2>6
<1>3. CASE Boundary!LeftSearch
  <2> DEFINE mid == (left.low + left.high) \div 2
  <2>1. /\ phase = "leftBinary" /\ left.low < left.high
        /\ UNCHANGED <<phase, seedEmitted, blockStart, blockEnd, leftExpandIdx, rightExpandIdx, left, right>>
        /\ task' = [start |-> mid, count |-> blockStart - mid]
        /\ UNCHANGED <<device, captured, finished>> /\ task = Boundary!NoTask /\ ~finished
    BY <1>3 DEF Boundary!LeftSearch, Boundary!Issue, Boundary!Idle, Boundary!Between,
      Boundary!Read, Boundary!strategyVars
  <2>2. blockStart \in Int /\ blockEnd \in Int /\ left.low \in Int /\ left.high \in Int
        /\ left.floor \in Int
    BY DEF BoundaryTypes
  <2>3. left.high = blockStart /\ StartAddress <= left.floor /\ left.floor <= left.low
        /\ blockStart - left.floor <= MaxBlock
    BY <2>1 DEF LeftInv
  <2>4. mid \in Int /\ left.low <= mid /\ mid < left.high
    BY <2>1, <2>2
  <2> HIDE DEF mid
  <2>5. BoundaryTaskInv'
    BY <2>1, <2>2, <2>3, <2>4, Bounds DEF BoundaryTaskInv
  <2>6. BoundaryTypes'
    BY <2>1 DEF BoundaryTypes
  <2>7. /\ FromDevice' /\ BlockInv' /\ SeedInv' /\ BoundaryCaptured' /\ LeftInv' /\ RightInv'
        /\ EdgeInv' /\ EndInv'
    BY <2>1 DEF FromDevice, BlockInv, SeedInv, BoundaryCaptured, LeftInv, RightInv, EdgeInv, EndInv
  <2>8. QED
    BY <2>5, <2>6, <2>7
<1>4. CASE Boundary!LeftBinaryResult
  <2>1. /\ phase = "leftBinary" /\ task # Boundary!NoTask
        /\ UNCHANGED <<phase, seedEmitted, blockEnd, leftExpandIdx, rightExpandIdx, right>>
        /\ ~finished
    BY <1>4 DEF Boundary!LeftBinaryResult, Boundary!Answered, Boundary!Refused, EndInv
  <2>2. /\ task.start \in Int /\ task.count \in Int /\ 1 <= task.count /\ task.count <= MaxBlock
        /\ StartAddress <= task.start /\ task.start + task.count = blockStart
           /\ left.low <= task.start
    BY <2>1, Bounds DEF BoundaryTaskInv
  <2>3. blockStart \in Int /\ left \in [low : Int, high : Int, floor : Int]
    BY DEF BoundaryTypes
  <2>4. /\ left.high = blockStart
        /\ StartAddress <= left.floor /\ left.floor <= left.low /\ left.low <= left.high
        /\ blockStart - left.floor <= MaxBlock
        /\ ~device.lossy /\ left.low > left.floor =>
             \E a \in Int : left.low - 1 <= a /\ a < blockStart /\ a \notin device.readable
    BY <2>1 DEF LeftInv
  <2>5. CASE Boundary!Answered /\ blockStart' = task.start
             /\ left' = [left EXCEPT !.high = task.start]
    <3>1. /\ FromDevice' /\ BlockInv' /\ BoundaryTaskInv' /\ SeedInv' /\ BoundaryCaptured'
          /\ RightInv' /\ EdgeInv' /\ EndInv'
      BY <2>1, <2>5, LeftGrows
    <3>2. left' = [low |-> left.low, high |-> task.start, floor |-> left.floor]
      BY <2>3, <2>5
    <3>3. BoundaryTypes'
      BY <2>1, <2>2, <2>3, <2>5, <3>2 DEF BoundaryTypes
    <3>4. /\ device' = device
          /\ \A a \in Int : task.start <= a /\ a < task.start + task.count => a \in device.readable
      BY <2>2, <2>5, AnsweredFacts
    <3>5. LeftInv'
      <4>1. /\ left'.high = blockStart' /\ left'.low = left.low /\ left'.floor = left.floor
            /\ left.low \in Int /\ left.high \in Int /\ left.floor \in Int
        BY <2>3, <2>5, <3>2
      <4>2. ASSUME ~device.lossy, left.low > left.floor
            PROVE  \E a \in Int : left.low - 1 <= a /\ a < task.start /\ a \notin device.readable
        BY <2>2, <2>4, <3>4, <4>2
      <4>3. /\ left'.high = blockStart' /\ StartAddress <= left'.floor /\ left'.floor <= left'.low
            /\ left'.low <= left'.high /\ blockStart' - left'.floor <= MaxBlock
        BY <2>2, <2>4, <2>5, <3>2, <4>1, Bounds
      <4>4. ~device'.lossy /\ left'.low > left'.floor =>
              \E a \in Int : left'.low - 1 <= a /\ a < blockStart' /\ a \notin device'.readable
        BY <2>5, <3>4, <4>1, <4>2
      <4>5. QED
        BY <4>3, <4>4 DEF LeftInv
    <3>6. QED
      BY <3>1, <3>3, <3>5
  <2>6. CASE /\ Boundary!Refused
             /\ left' = [left EXCEPT !.low = Boundary!LeftAfterFailure(task.start)]
             /\ UNCHANGED blockStart
    <3>1. /\ task' = Boundary!NoTask /\ device' = device /\ finished' = finished
             /\ captured' = captured
          /\ FromDevice'
          /\ ~device.lossy =>
               \E a \in Int : task.start <= a /\ a < task.start + task.count /\ a \notin device.readable
      BY <2>2, <2>6, RefusedFacts
    <3>2. left' = [low |-> task.start + 1, high |-> left.high, floor |-> left.floor]
      BY <2>3, <2>6 DEF Boundary!LeftAfterFailure
    <3> left' \in [low : Int, high : Int, floor : Int]
      BY <2>2, <2>3, <3>2
    <3>3. BoundaryTypes'
      BY <2>1, <2>6 DEF BoundaryTypes
    <3>4. LeftInv'
      BY <2>1, <2>2, <2>3, <2>4, <2>6, <3>1, <3>2 DEF LeftInv
    <3>5. BlockInv' /\ BoundaryTaskInv' /\ SeedInv' /\ BoundaryCaptured' /\ RightInv'
          /\ EdgeInv' /\ EndInv'
      BY <2>1, <2>6, <3>1
      DEF BlockInv, BoundaryTaskInv, SeedInv, BoundaryCaptured, RightInv, EdgeInv, EndInv
    <3>6. QED
      BY <3>1, <3>3, <3>4, <3>5
  <2>7. QED
    BY <1>4, <2>5, <2>6 DEF Boundary!LeftBinaryResult
<1>5. QED
  BY <1>1, <1>2, <1>3, <1>4

\* A new window of the right search.
LEMMA OpenRight ==
  ASSUME BoundaryInv, Boundary!OpenRightWindow, task = Boundary!NoTask, ~finished, blockEnd <= EndAddress,
         phase \in {"rightExpand", "rightBinary"}
  PROVE  BoundaryInv'
<1> USE DEF BoundaryInv
<1> DEFINE ceil == IF blockEnd + MaxBlock - 1 < EndAddress
                   THEN blockEnd + MaxBlock - 1 ELSE EndAddress
<1>1. /\ UNCHANGED <<device, task, captured, finished, seedEmitted, blockStart, blockEnd,
                     leftExpandIdx, rightExpandIdx, left>>
      /\ phase' = "rightBinary"
      /\ right' = [low |-> blockEnd, high |-> ceil, ceil |-> ceil]
  BY DEF Boundary!OpenRightWindow, Boundary!loopVars
<1>2. blockEnd \in Int
  BY DEF BoundaryTypes
<1>3. ceil \in Int /\ ceil <= EndAddress /\ blockEnd <= ceil /\ ceil - blockEnd + 1 <= MaxBlock
  BY <1>2, Bounds
<1> HIDE DEF ceil
<1>4. BoundaryTypes'
  BY <1>1, <1>2, <1>3 DEF BoundaryTypes, Boundary!Phases
<1>5. RightInv'
  BY <1>1, <1>2, <1>3 DEF RightInv
<1>6. /\ BlockInv' /\ BoundaryTaskInv' /\ BoundaryCaptured' /\ LeftInv' /\ EdgeInv' /\ EndInv'
      /\ SeedInv' /\ FromDevice'
  BY <1>1
  DEF BlockInv, BoundaryTaskInv, BoundaryCaptured, LeftInv, EdgeInv, EndInv, SeedInv,
    FromDevice, LeftMaximal
<1>7. QED
  BY <1>4, <1>5, <1>6

\* The block is found.
LEMMA Concluded ==
  ASSUME BoundaryInv, Boundary!Conclude, RightMaximal, task = Boundary!NoTask, ~finished,
         phase \in {"rightExpand", "rightBinary"}
  PROVE  BoundaryInv'
<1> USE DEF BoundaryInv
<1>1. /\ UNCHANGED <<device, task, captured, finished, seedEmitted, blockStart, blockEnd,
                     leftExpandIdx, rightExpandIdx, left, right>>
      /\ phase' = "done"
  BY DEF Boundary!Conclude, Boundary!loopVars
<1>2. BoundaryTypes'
  BY <1>1 DEF BoundaryTypes, Boundary!Phases
<1>3. LeftMaximal' /\ RightMaximal'
  BY <1>1 DEF EdgeInv, LeftMaximal, RightMaximal
<1>4. EdgeInv'
  BY <1>1, <1>3 DEF EdgeInv, BoundaryCaptured
<1>5. /\ BlockInv' /\ BoundaryTaskInv' /\ BoundaryCaptured' /\ LeftInv' /\ RightInv' /\ EndInv'
      /\ SeedInv' /\ FromDevice'
  BY <1>1
  DEF BlockInv, BoundaryTaskInv, BoundaryCaptured, LeftInv, RightInv, EndInv, SeedInv, FromDevice
<1>6. QED
  BY <1>2, <1>4, <1>5

\* A read that is answered above the block extends it.
LEMMA RightGrows ==
  ASSUME BoundaryInv, Boundary!Answered, phase \in {"rightExpand", "rightBinary"},
         blockEnd' = task.start + task.count,
         UNCHANGED <<phase, seedEmitted, blockStart, leftExpandIdx, rightExpandIdx, left>>
  PROVE  /\ FromDevice' /\ BlockInv' /\ BoundaryTaskInv' /\ SeedInv' /\ BoundaryCaptured'
         /\ LeftInv' /\ EdgeInv' /\ EndInv'
<1> USE DEF BoundaryInv
<1>1. task # Boundary!NoTask
  BY DEF Boundary!Answered
<1>2. /\ task.start \in Int /\ task.count \in Int /\ 1 <= task.count
      /\ task.start = blockEnd /\ task.start + task.count <= EndAddress + 1
  BY <1>1 DEF BoundaryTaskInv
<1>3. /\ task' = Boundary!NoTask /\ device' = device /\ finished' = finished /\ FromDevice'
      /\ \A a : a \in captured => a \in captured'
      /\ \A a \in Int : task.start <= a /\ a < task.start + task.count => a \in captured'
  BY <1>2, AnsweredFacts
<1>4. blockEnd \in Int /\ blockStart \in Int /\ StartAddress <= blockStart /\ blockStart < blockEnd
  BY DEF BlockInv, BoundaryTypes
<1>5. BlockInv'
  BY <1>2, <1>4, Bounds DEF BlockInv
<1>6. BoundaryCaptured'
  BY <1>2, <1>3, <1>4 DEF BoundaryCaptured
<1>7. BoundaryTaskInv' /\ SeedInv' /\ LeftInv' /\ EdgeInv' /\ EndInv'
  BY <1>3 DEF BoundaryTaskInv, SeedInv, LeftInv, EdgeInv, EndInv, LeftMaximal
<1>8. QED
  BY <1>3, <1>5, <1>6, <1>7

\* The expansion on the right.
LEMMA RightExpandStep ==
  ASSUME BoundaryInv, Boundary!RightExpandOver \/ Boundary!RightExpand \/ Boundary!RightExpandResult
  PROVE  BoundaryInv'
<1> USE DEF BoundaryInv
<1> blockEnd \in Int /\ blockStart \in Int
  BY DEF BoundaryTypes
<1>1. CASE Boundary!RightExpandOver
  <2>1. phase = "rightExpand" /\ task = Boundary!NoTask /\ ~finished
    BY <1>1 DEF Boundary!RightExpandOver, Boundary!Idle
  <2>2. CASE blockEnd <= EndAddress
    BY <1>1, <2>1, <2>2, OpenRight DEF Boundary!RightExpandOver
  <2>3. CASE ~(blockEnd <= EndAddress)
    BY <1>1, <2>1, <2>3, Concluded DEF Boundary!RightExpandOver, RightMaximal
  <2>4. QED
    BY <2>2, <2>3
<1>2. CASE Boundary!RightExpand
  <2> DEFINE size == BoundarySizes[rightExpandIdx']
  <2>1. /\ phase = "rightExpand" /\ rightExpandIdx < Len(BoundarySizes)
        /\ rightExpandIdx' = rightExpandIdx + 1 /\ blockEnd <= EndAddress
        /\ UNCHANGED <<phase, seedEmitted, blockStart, blockEnd, leftExpandIdx, left, right>>
    BY <1>2 DEF Boundary!RightExpand
  <2>2. size \in Int /\ 1 <= size /\ size <= MaxBlock /\ rightExpandIdx' \in 0 .. Len(BoundarySizes)
    BY <2>1, SizeFacts DEF BoundaryTypes
  <2>3. /\ task' = [start |-> blockEnd, count |-> Boundary!ExpandTo(size) - blockEnd]
        /\ UNCHANGED <<device, captured, finished>> /\ task = Boundary!NoTask /\ ~finished
    BY <1>2 DEF Boundary!RightExpand, Boundary!Issue, Boundary!Idle, Boundary!Between, Boundary!Read
  <2> HIDE DEF size
  <2>5. /\ Boundary!ExpandTo(size) \in Int /\ Boundary!ExpandTo(size) <= EndAddress + 1
        /\ blockEnd < Boundary!ExpandTo(size) /\ Boundary!ExpandTo(size) - blockEnd <= MaxBlock
    BY <2>1, <2>2, Bounds DEF Boundary!ExpandTo
  <2>6. BoundaryTaskInv'
    BY <2>1, <2>3, <2>5, Bounds DEF BoundaryTaskInv
  <2>7. BoundaryTypes'
    BY <2>1, <2>2 DEF BoundaryTypes
  <2>8. /\ FromDevice' /\ BlockInv' /\ SeedInv' /\ BoundaryCaptured' /\ LeftInv' /\ RightInv'
        /\ EdgeInv' /\ EndInv'
    BY <2>1, <2>3
    DEF FromDevice, BlockInv, SeedInv, BoundaryCaptured, LeftInv, RightInv, EdgeInv, EndInv,
      LeftMaximal
  <2>9. QED
    BY <2>6, <2>7, <2>8
<1>3. CASE Boundary!RightExpandResult
  <2> DEFINE to == task.start + task.count
  <2>1. /\ phase = "rightExpand" /\ task # Boundary!NoTask
        /\ UNCHANGED <<seedEmitted, blockStart, leftExpandIdx, rightExpandIdx, left>>
        /\ ~finished
    BY <1>3 DEF Boundary!RightExpandResult, Boundary!Answered, Boundary!Refused, EndInv
  <2>2. /\ task.start \in Int /\ task.count \in Int /\ 1 <= task.count /\ task.count <= MaxBlock
        /\ task.start = blockEnd /\ to <= EndAddress + 1 /\ to \in Int /\ blockEnd < to
    BY <2>1, Bounds DEF BoundaryTaskInv
  <2>3. CASE Boundary!Answered /\ blockEnd' = to /\ UNCHANGED <<phase, right>>
    <3>1. /\ FromDevice' /\ BlockInv' /\ BoundaryTaskInv' /\ SeedInv' /\ BoundaryCaptured'
          /\ LeftInv' /\ EdgeInv' /\ EndInv'
      BY <2>1, <2>3, RightGrows
    <3>2. BoundaryTypes'
      BY <2>1, <2>2, <2>3 DEF BoundaryTypes
    <3>3. RightInv'
      BY <2>1, <2>3 DEF RightInv
    <3>4. QED
      BY <3>1, <3>2, <3>3
  <2>4. CASE /\ Boundary!Refused
             /\ phase' = "rightBinary"
             /\ right' = [low |-> blockEnd, high |-> Boundary!RightAfterFailure(to), ceil |-> to - 1]
             /\ UNCHANGED blockEnd
    <3>1. /\ task' = Boundary!NoTask /\ device' = device /\ finished' = finished
             /\ captured' = captured
          /\ FromDevice'
          /\ ~device.lossy =>
               \E a \in Int : task.start <= a /\ a < task.start + task.count /\ a \notin device.readable
      BY <2>2, <2>4, RefusedFacts
    <3>2. right' = [low |-> blockEnd, high |-> to - 2, ceil |-> to - 1]
      BY <2>4 DEF Boundary!RightAfterFailure
    <3> right' \in [low : Int, high : Int, ceil : Int]
      BY <2>2, <3>2
    <3>3. BoundaryTypes'
      BY <2>1, <2>4 DEF BoundaryTypes, Boundary!Phases
    <3>4. ~device'.lossy =>
             \E a \in Int : blockEnd' <= a /\ a <= right'.high + 1 /\ a \notin device'.readable
      BY <2>2, <2>4, <3>1, <3>2
    <3>5. /\ right'.low = blockEnd' /\ right'.low <= right'.high + 1 /\ right'.high <= right'.ceil
          /\ right'.ceil <= EndAddress /\ right'.ceil - blockEnd' + 1 <= MaxBlock
      BY <2>2, <2>4, <3>2, Bounds
    <3> RightInv'
      BY <3>4, <3>5 DEF RightInv
    <3>6. BlockInv' /\ BoundaryTaskInv' /\ SeedInv' /\ BoundaryCaptured' /\ LeftInv' /\ EdgeInv'
          /\ EndInv'
      BY <2>1, <2>4, <3>1
      DEF BlockInv, BoundaryTaskInv, SeedInv, BoundaryCaptured, LeftInv, EdgeInv, EndInv,
        LeftMaximal
    <3>7. QED
      BY <3>1, <3>3, <3>5, <3>6
  <2>5. QED
    BY <1>3, <2>3, <2>4 DEF Boundary!RightExpandResult
<1>4. QED
  BY <1>1, <1>2, <1>3

\* The binary search on the right.
LEMMA RightBinaryStep ==
  ASSUME BoundaryInv, Boundary!RightSearchOver \/ Boundary!RightSearch \/ Boundary!RightBinaryResult
  PROVE  BoundaryInv'
<1> USE DEF BoundaryInv
<1>0. blockEnd \in Int /\ blockStart \in Int /\ right \in [low : Int, high : Int, ceil : Int]
  BY DEF BoundaryTypes
<1>1. CASE Boundary!RightSearchOver
  <2>1. phase = "rightBinary" /\ task = Boundary!NoTask /\ ~finished /\ right.low > right.high
    BY <1>1 DEF Boundary!RightSearchOver, Boundary!Idle
  <2>2. CASE blockEnd = right.ceil + 1 /\ blockEnd <= EndAddress
    BY <1>1, <2>1, <2>2, OpenRight DEF Boundary!RightSearchOver
  <2>3. CASE ~(blockEnd = right.ceil + 1 /\ blockEnd <= EndAddress)
    <3>1. RightMaximal
      <4>1. SUFFICES ASSUME ~device.lossy, blockEnd <= EndAddress
                     PROVE  blockEnd \notin device.readable
        BY DEF RightMaximal
      <4>2. /\ right.low = blockEnd /\ right.low <= right.high + 1 /\ right.high <= right.ceil
            /\ right.high < right.ceil =>
                 \E a \in Int : blockEnd <= a /\ a <= right.high + 1 /\ a \notin device.readable
        BY <2>1, <4>1 DEF RightInv
      <4>3. right.high + 1 = blockEnd /\ right.high < right.ceil
        BY <1>0, <2>1, <2>3, <4>1, <4>2
      <4>4. QED
        BY <1>0, <4>2, <4>3
    <3>2. QED
      BY <1>1, <2>1, <2>3, <3>1, Concluded DEF Boundary!RightSearchOver
  <2>4. QED
    BY <2>2, <2>3
<1>2. CASE Boundary!RightSearch
  <2> DEFINE to == (right.low + right.high) \div 2 + 1
  <2>0. Boundary!Issue(Boundary!Between(blockEnd, to)) /\ UNCHANGED Boundary!strategyVars
    BY <1>2, Zenon DEF Boundary!RightSearch
  <2>1. phase = "rightBinary" /\ right.low <= right.high
    BY <1>2 DEF Boundary!RightSearch
  <2>2. right.low = blockEnd /\ right.high <= right.ceil /\ right.ceil <= EndAddress
        /\ right.ceil - blockEnd + 1 <= MaxBlock
    BY <2>1 DEF RightInv
  <2>3. to \in Int /\ right.low < to /\ to <= right.high + 1
    BY <1>0, <2>1
  <2> HIDE DEF to
  <2> task' = [start |-> blockEnd, count |-> to - blockEnd]
    BY <2>0 DEF Boundary!Issue, Boundary!Between, Boundary!Read
  <2> /\ UNCHANGED <<phase, seedEmitted, blockStart, blockEnd, leftExpandIdx, rightExpandIdx, left, right>>
      /\ UNCHANGED <<device, captured, finished>> /\ task = Boundary!NoTask /\ ~finished
    BY <2>0 DEF Boundary!Issue, Boundary!Idle, Boundary!strategyVars
  <2>4. BoundaryTaskInv'
    BY <1>0, <2>1, <2>2, <2>3, Bounds DEF BoundaryTaskInv
  <2>5. BoundaryTypes'
    BY <2>1 DEF BoundaryTypes
  <2>6. /\ FromDevice' /\ BlockInv' /\ SeedInv' /\ BoundaryCaptured' /\ LeftInv' /\ RightInv'
        /\ EdgeInv' /\ EndInv'
    BY <2>1
    DEF FromDevice, BlockInv, SeedInv, BoundaryCaptured, LeftInv, RightInv, EdgeInv, EndInv,
      LeftMaximal
  <2>7. QED
    BY <2>4, <2>5, <2>6
<1>3. CASE Boundary!RightBinaryResult
  <2> DEFINE to == task.start + task.count
  <2>1. /\ phase = "rightBinary" /\ task # Boundary!NoTask
        /\ UNCHANGED <<phase, seedEmitted, blockStart, leftExpandIdx, rightExpandIdx, left>>
        /\ ~finished
    BY <1>3 DEF Boundary!RightBinaryResult, Boundary!Answered, Boundary!Refused, EndInv
  <2>2. /\ task.start \in Int /\ task.count \in Int /\ 1 <= task.count /\ task.count <= MaxBlock
        /\ task.start = blockEnd /\ to <= EndAddress + 1 /\ to \in Int /\ blockEnd < to
        /\ to - 1 <= right.high
    BY <2>1, Bounds DEF BoundaryTaskInv
  <2>3. /\ right.low = blockEnd
        /\ right.low <= right.high + 1 /\ right.high <= right.ceil /\ right.ceil <= EndAddress
        /\ right.ceil - blockEnd + 1 <= MaxBlock
        /\ ~device.lossy /\ right.high < right.ceil =>
             \E a \in Int : blockEnd <= a /\ a <= right.high + 1 /\ a \notin device.readable
    BY <2>1 DEF RightInv
  <2>4. CASE Boundary!Answered /\ blockEnd' = to /\ right' = [right EXCEPT !.low = to]
    <3>1. /\ FromDevice' /\ BlockInv' /\ BoundaryTaskInv' /\ SeedInv' /\ BoundaryCaptured'
          /\ LeftInv' /\ EdgeInv' /\ EndInv'
      BY <2>1, <2>4, RightGrows
    <3>2. right' = [low |-> to, high |-> right.high, ceil |-> right.ceil]
      BY <1>0, <2>4
    <3> right' \in [low : Int, high : Int, ceil : Int]
      BY <1>0, <2>2, <3>2
    <3>3. BoundaryTypes'
      BY <2>1, <2>2, <2>4 DEF BoundaryTypes
    <3>4. /\ device' = device
          /\ \A a \in Int : task.start <= a /\ a < task.start + task.count => a \in device.readable
      BY <2>2, <2>4, AnsweredFacts
    <3>5. ~device'.lossy /\ right'.high < right'.ceil =>
             \E a \in Int : blockEnd' <= a /\ a <= right'.high + 1 /\ a \notin device'.readable
      <4>1. SUFFICES ASSUME ~device.lossy, right.high < right.ceil
                     PROVE  \E a \in Int : to <= a /\ a <= right.high + 1 /\ a \notin device.readable
        BY <2>4, <3>2, <3>4
      <4>2. PICK a \in Int : blockEnd <= a /\ a <= right.high + 1 /\ a \notin device.readable
        BY <2>3, <4>1
      <4>3. to <= a
        BY <2>2, <3>4, <4>2
      <4>4. QED
        BY <4>2, <4>3
    <3>6. /\ right'.low = blockEnd' /\ right'.low <= right'.high + 1 /\ right'.high <= right'.ceil
          /\ right'.ceil <= EndAddress /\ right'.ceil - blockEnd' + 1 <= MaxBlock
      BY <1>0, <2>2, <2>3, <2>4, <3>2, Bounds
    <3>7. RightInv'
      BY <3>5, <3>6 DEF RightInv
    <3>8. QED
      BY <3>1, <3>3, <3>7
  <2>5. CASE /\ Boundary!Refused
             /\ right' = [right EXCEPT !.high = Boundary!RightAfterFailure(to)]
             /\ UNCHANGED blockEnd
    <3>1. /\ task' = Boundary!NoTask /\ device' = device /\ finished' = finished
             /\ captured' = captured
          /\ FromDevice'
          /\ ~device.lossy =>
               \E a \in Int : task.start <= a /\ a < task.start + task.count /\ a \notin device.readable
      BY <2>2, <2>5, RefusedFacts
    <3>2. right' = [low |-> right.low, high |-> to - 2, ceil |-> right.ceil]
      BY <1>0, <2>5 DEF Boundary!RightAfterFailure
    <3> right' \in [low : Int, high : Int, ceil : Int]
      BY <1>0, <2>2, <3>2
    <3>3. BoundaryTypes'
      BY <2>1, <2>5 DEF BoundaryTypes
    <3>4. ~device'.lossy =>
             \E a \in Int : blockEnd' <= a /\ a <= right'.high + 1 /\ a \notin device'.readable
      BY <2>2, <2>5, <3>1, <3>2
    <3>5. /\ right'.low = blockEnd' /\ right'.low <= right'.high + 1 /\ right'.high <= right'.ceil
          /\ right'.ceil <= EndAddress /\ right'.ceil - blockEnd' + 1 <= MaxBlock
      BY <1>0, <2>2, <2>3, <2>5, <3>2, Bounds
    <3>6. RightInv'
      BY <3>4, <3>5 DEF RightInv
    <3>7. BlockInv' /\ BoundaryTaskInv' /\ SeedInv' /\ BoundaryCaptured' /\ LeftInv' /\ EdgeInv'
          /\ EndInv'
      BY <2>1, <2>5, <3>1
      DEF BlockInv, BoundaryTaskInv, SeedInv, BoundaryCaptured, LeftInv, EdgeInv, EndInv,
        LeftMaximal
    <3>8. QED
      BY <3>1, <3>3, <3>6, <3>7
  <2>6. QED
    BY <1>3, <2>4, <2>5 DEF Boundary!RightBinaryResult
<1>4. QED
  BY <1>1, <1>2, <1>3

\* The invariant is inductive.
LEMMA BoundaryStepInv == BoundaryInv /\ [Boundary!Next]_(Boundary!vars) => BoundaryInv'
<1> SUFFICES ASSUME BoundaryInv, [Boundary!Next]_(Boundary!vars) PROVE BoundaryInv'
  OBVIOUS
<1>1. CASE Boundary!Finish
  <2> USE DEF BoundaryInv
  <2>1. /\ phase = "done"
        /\ UNCHANGED <<device, task, captured, phase, seedEmitted, blockStart, blockEnd,
                       leftExpandIdx, rightExpandIdx, left, right>>
    BY <1>1 DEF Boundary!Finish, Boundary!Leave, Boundary!strategyVars
  <2>2. BoundaryTypes'
    BY <2>1 DEF BoundaryTypes
  <2>3. /\ FromDevice' /\ BlockInv' /\ BoundaryTaskInv' /\ SeedInv' /\ BoundaryCaptured'
        /\ LeftInv' /\ RightInv' /\ EdgeInv' /\ EndInv'
    BY <2>1 DEF FromDevice, BlockInv, BoundaryTaskInv, SeedInv, BoundaryCaptured, LeftInv, RightInv,
                EdgeInv, EndInv, LeftMaximal, RightMaximal
  <2>4. QED
    BY <2>2, <2>3
<1>2. CASE UNCHANGED Boundary!vars
  <2> USE DEF BoundaryInv
  <2>1. UNCHANGED <<device, task, captured, finished, phase, seedEmitted, blockStart, blockEnd,
                    leftExpandIdx, rightExpandIdx, left, right>>
    BY <1>2 DEF Boundary!vars, Boundary!strategyVars, Boundary!loopVars
  <2>2. BoundaryTypes'
    BY <2>1 DEF BoundaryTypes
  <2>3. /\ FromDevice' /\ BlockInv' /\ BoundaryTaskInv' /\ SeedInv' /\ BoundaryCaptured'
        /\ LeftInv' /\ RightInv' /\ EdgeInv' /\ EndInv'
    BY <2>1 DEF FromDevice, BlockInv, BoundaryTaskInv, SeedInv, BoundaryCaptured, LeftInv, RightInv,
                EdgeInv, EndInv, LeftMaximal, RightMaximal
  <2>4. QED
    BY <2>2, <2>3
<1>3. QED
  BY <1>1, <1>2, SeedStep, LeftExpandStep, LeftBinaryStep, RightExpandStep, RightBinaryStep
  DEF Boundary!Next

\* What the invariant says of the reads, the block and its edges.
LEMMA BoundaryMeans ==
  BoundaryInv => Boundary!ReadsStayInRange /\ Boundary!BlockIsCaptured /\ Boundary!BlockIsMaximal
<1> SUFFICES ASSUME BoundaryInv PROVE Boundary!ReadsStayInRange /\ Boundary!BlockIsCaptured /\ Boundary!BlockIsMaximal
  OBVIOUS
<1> USE DEF BoundaryInv
<1>0. blockStart \in Int /\ blockEnd \in Int /\ phase \in Boundary!Phases
  BY DEF BoundaryTypes
<1>1. Boundary!ReadsStayInRange
  <2>1. SUFFICES ASSUME task # Boundary!NoTask PROVE Boundary!Covered(task) \subseteq Boundary!ScanRange
    BY DEF Boundary!ReadsStayInRange
  <2>2. /\ task.start \in Int /\ task.count \in Int
        /\ StartAddress <= task.start /\ task.start + task.count - 1 <= EndAddress
    BY <1>0, <2>1, Bounds DEF BoundaryTaskInv, BlockInv, Boundary!Phases
  <2>3. QED
    BY <2>2, Bounds DEF Boundary!Covered, Boundary!LastOf, Boundary!ScanRange
<1>2. Boundary!BlockIsCaptured
  BY <1>0 DEF Boundary!BlockIsCaptured, BoundaryCaptured
<1>3. Boundary!BlockIsMaximal
  BY <1>0 DEF Boundary!BlockIsMaximal, EdgeInv, EndInv, LeftMaximal, RightMaximal, FromDevice,
    Boundary!readable
<1>4. QED
  BY <1>1, <1>2, <1>3
-----------------------------------------------------------------------------
(* The linear strategy.                                                   *)

LinearTypes ==
  /\ phase \in {"probe", "backward", "forward", "tail"}
  /\ probeStart \in Int /\ blockStart \in Int /\ blockEnd \in Int /\ origin \in Int
  /\ search \in [low : Int, high : Int, best : Int]
  /\ gapProbe \in {"none", "pending", "inFlight"}
  /\ gapProbeAddr \in Int

\* The walk never turns back below the range, and a block ends in it.
WalkInv ==
  /\ StartAddress <= probeStart
  /\ phase # "probe" => StartAddress <= blockEnd /\ blockEnd <= EndAddress + 1
  /\ phase = "tail" => blockEnd <= EndAddress
  /\ phase = "backward" => StartAddress <= origin /\ origin < blockEnd
  /\ phase # "probe" => gapProbe = "none"
  /\ gapProbe # "none" => StartAddress <= gapProbeAddr /\ gapProbeAddr <= EndAddress

\* A read of a probe is the next block, a read of a search lies at the edge of
\* the block and asks for a count that is still a candidate.
LinearTaskInv ==
  task # Linear!NoTask =>
    /\ task.start \in Int /\ task.count \in Int
    /\ 1 <= task.count /\ task.count <= MaxBlock
    /\ StartAddress <= task.start /\ task.start + task.count <= EndAddress + 1
    /\ gapProbe # "pending"
    /\ phase = "probe" /\ gapProbe = "none" => task.start = probeStart
    /\ phase \in {"forward", "tail"} => task.start = blockEnd
    /\ phase = "backward" => task.start + task.count = origin
    /\ phase \in {"backward", "tail"} => search.low <= task.count /\ task.count <= search.high

\* What is taken for the block was read.
FollowedInv ==
  /\ phase \in {"forward", "tail"} => \A a \in Int : blockStart <= a /\ a < blockEnd => a \in captured
  /\ phase = "backward" =>
       \A a \in Int : origin - search.best <= a /\ a < blockEnd => a \in captured
  /\ phase = "tail" =>
       \A a \in Int : blockEnd <= a /\ a < blockEnd + search.best => a \in captured

\* A search: all counts up to best are answered, and the next above high was
\* refused, unless high is still the window.
SearchShape(window) ==
  /\ search.best = search.low - 1 /\ 1 <= search.low /\ search.low <= search.high + 1
  /\ search.high <= window

BackwardInv ==
  phase = "backward" =>
    /\ SearchShape(Linear!BackwardWindow(origin))
    /\ ~device.lossy /\ search.high < Linear!BackwardWindow(origin) =>
         \E a \in Int : origin - (search.high + 1) <= a /\ a < origin /\ a \notin device.readable

TailInv ==
  phase = "tail" =>
    /\ SearchShape(Linear!BlockAt(blockEnd))
    /\ ~device.lossy /\ search.high < Linear!BlockAt(blockEnd) =>
         \E a \in Int : blockEnd <= a /\ a <= blockEnd + search.high /\ a \notin device.readable

LinearInv ==
  /\ FromDevice /\ LinearTypes /\ WalkInv /\ LinearTaskInv /\ FollowedInv /\ BackwardInv /\ TailInv

\* The windows of the searches and the blocks of the walk fit in a read.
LEMMA WindowFacts ==
  ASSUME NEW a \in Int
  PROVE  /\ Linear!BlockAt(a) \in Int /\ Linear!BlockAt(a) <= MaxBlock /\ Linear!BlockAt(a) <= EndAddress - a + 1
         /\ a <= EndAddress => 1 <= Linear!BlockAt(a)
         /\ Linear!BlockAt(a) = MaxBlock \/ Linear!BlockAt(a) = EndAddress - a + 1
         /\ Linear!BackwardWindow(a) \in Int /\ Linear!BackwardWindow(a) <= MaxBlock
         /\ Linear!BackwardWindow(a) <= a - StartAddress
         /\ StartAddress <= a => 0 <= Linear!BackwardWindow(a)
         /\ Linear!BackwardWindow(a) = MaxBlock \/ Linear!BackwardWindow(a) = a - StartAddress
  BY Bounds DEF Linear!BlockAt, Linear!BackwardWindow, Linear!Least

\* The invariant of linear holds at the start.
LEMMA LinearInit == Linear!Init => LinearInv
<1> SUFFICES ASSUME Linear!Init PROVE LinearInv
  OBVIOUS
<1> USE DEF Linear!Init, Linear!LoopInit
<1>1. LinearTypes /\ WalkInv
  BY Bounds DEF LinearTypes, WalkInv
<1>2. FromDevice /\ LinearTaskInv /\ FollowedInv /\ BackwardInv /\ TailInv
  BY DEF FromDevice, LinearTaskInv, FollowedInv, BackwardInv, TailInv
<1>3. QED
  BY <1>1, <1>2 DEF LinearInv

\* The probes.
LEMMA ProbeStep ==
  ASSUME LinearInv,
         Linear!IssueGapProbe \/ Linear!GapProbeResult \/ Linear!IssueProbe \/ Linear!ProbeSuccess \/ Linear!ProbeFailure \/ Linear!RunOff
  PROVE  LinearInv'
<1> USE DEF LinearInv
<1>0. /\ probeStart \in Int /\ blockStart \in Int /\ blockEnd \in Int /\ origin \in Int
         /\ gapProbeAddr \in Int
      /\ gapProbe \in {"none", "pending", "inFlight"}
  BY DEF LinearTypes
<1>1. CASE Linear!IssueGapProbe
  <2>1. /\ phase = "probe" /\ gapProbe = "pending" /\ gapProbe' = "inFlight"
        /\ task' = [start |-> gapProbeAddr, count |-> 1]
        /\ UNCHANGED <<device, captured, finished>>
        /\ UNCHANGED <<phase, probeStart, blockStart, blockEnd, origin, search, gapProbeAddr>>
    BY <1>1 DEF Linear!IssueGapProbe, Linear!Issue, Linear!Read
  <2>2. LinearTypes' /\ WalkInv'
    BY <2>1 DEF LinearTypes, WalkInv
  <2>3. LinearTaskInv'
    BY <1>0, <2>1, Bounds DEF LinearTaskInv, WalkInv
  <2>4. FromDevice' /\ FollowedInv' /\ BackwardInv' /\ TailInv'
    BY <2>1 DEF FromDevice, FollowedInv, BackwardInv, TailInv
  <2>5. QED
    BY <2>2, <2>3, <2>4
<1>2. CASE Linear!GapProbeResult
  <2>1. /\ phase = "probe" /\ gapProbe = "inFlight" /\ gapProbe' = "none"
        /\ UNCHANGED <<phase, probeStart, blockStart, blockEnd, origin, search, gapProbeAddr>>
        /\ task # Linear!NoTask
    BY <1>2 DEF Linear!GapProbeResult, Linear!Answered, Linear!Refused
  <2>2. task.start \in Int /\ task.count \in Int
    BY <2>1 DEF LinearTaskInv
  <2>3. task' = Linear!NoTask /\ FromDevice'
    BY <1>2, <2>2, AnsweredFacts, RefusedFacts DEF Linear!GapProbeResult
  <2>4. LinearTypes' /\ WalkInv'
    BY <2>1 DEF LinearTypes, WalkInv
  <2>5. LinearTaskInv' /\ FollowedInv' /\ BackwardInv' /\ TailInv'
    BY <2>1, <2>3 DEF LinearTaskInv, FollowedInv, BackwardInv, TailInv
  <2>6. QED
    BY <2>3, <2>4, <2>5
<1>3. CASE Linear!IssueProbe
  <2>1. /\ phase = "probe" /\ gapProbe = "none" /\ probeStart <= EndAddress
        /\ task' = [start |-> probeStart, count |-> Linear!BlockAt(probeStart)]
        /\ UNCHANGED <<device, captured, finished>>
        /\ UNCHANGED <<phase, probeStart, blockStart, blockEnd, origin, search, gapProbe, gapProbeAddr>>
    BY <1>3 DEF Linear!IssueProbe, Linear!Issue, Linear!Read, Linear!strategyVars
  <2>2. /\ Linear!BlockAt(probeStart) \in Int /\ 1 <= Linear!BlockAt(probeStart)
           /\ Linear!BlockAt(probeStart) <= MaxBlock
        /\ probeStart + Linear!BlockAt(probeStart) <= EndAddress + 1
    BY <1>0, <2>1, WindowFacts, Bounds
  <2>3. LinearTypes' /\ WalkInv'
    BY <2>1 DEF LinearTypes, WalkInv
  <2>4. LinearTaskInv'
    BY <1>0, <2>1, <2>2, Bounds DEF LinearTaskInv, WalkInv
  <2>5. FromDevice' /\ FollowedInv' /\ BackwardInv' /\ TailInv'
    BY <2>1 DEF FromDevice, FollowedInv, BackwardInv, TailInv
  <2>6. QED
    BY <2>3, <2>4, <2>5
<1>4. CASE Linear!ProbeSuccess
  <2>1. /\ phase = "probe" /\ gapProbe # "inFlight" /\ task # Linear!NoTask
        /\ blockEnd' = probeStart + task.count
        /\ UNCHANGED <<probeStart, gapProbe, gapProbeAddr>>
    BY <1>4 DEF Linear!ProbeSuccess, Linear!Answered
  <2>2. /\ task.start \in Int /\ task.count \in Int /\ 1 <= task.count
        /\ StartAddress <= task.start /\ task.start + task.count <= EndAddress + 1
        /\ gapProbe = "none" /\ task.start = probeStart
    BY <1>0, <2>1 DEF LinearTaskInv
  <2>3. /\ task' = Linear!NoTask /\ FromDevice'
        /\ \A a \in Int : task.start <= a /\ a < task.start + task.count => a \in captured'
    BY <1>4, <2>2, AnsweredFacts DEF Linear!ProbeSuccess
  <2>4. LinearTaskInv'
    BY <2>3 DEF LinearTaskInv
  <2>5. CASE hadProbeFailure
    <3>1. /\ phase' = "backward" /\ origin' = probeStart
          /\ search' = Linear!NewSearch(Linear!BackwardWindow(probeStart))
             /\ blockStart' = blockStart
      BY <1>4, <2>5 DEF Linear!ProbeSuccess
    <3>2. search' = [low |-> 1, high |-> Linear!BackwardWindow(probeStart), best |-> 0]
      BY <3>1 DEF Linear!NewSearch
    <3>3. Linear!BackwardWindow(probeStart) \in Int /\ 0 <= Linear!BackwardWindow(probeStart)
      BY <1>0, WindowFacts DEF WalkInv
    <3>4. search' \in [low : Int, high : Int, best : Int]
      BY <3>2, <3>3
    <3>5. LinearTypes'
      BY <1>0, <2>1, <2>2, <3>1, <3>4 DEF LinearTypes
    <3>6. WalkInv'
      BY <1>0, <2>1, <2>2, <3>1, Bounds DEF WalkInv
    <3>7. FollowedInv'
      BY <1>0, <2>1, <2>2, <2>3, <3>1, <3>2 DEF FollowedInv
    <3>8. search'.best = 0 /\ search'.low = 1 /\ search'.high = Linear!BackwardWindow(probeStart)
      BY <3>2
    <3>9. Linear!BackwardWindow(probeStart)' = Linear!BackwardWindow(probeStart)
      BY <2>1 DEF Linear!BackwardWindow, Linear!Least
    <3>10. BackwardInv' /\ TailInv'
      BY <3>1, <3>3, <3>8, <3>9 DEF BackwardInv, TailInv, SearchShape, Linear!BackwardWindow,
        Linear!Least
    <3>11. QED
      BY <2>3, <2>4, <3>5, <3>6, <3>7, <3>10
  <2>6. CASE ~hadProbeFailure
    <3>1. phase' = "forward" /\ blockStart' = probeStart /\ UNCHANGED <<origin, search>>
      BY <1>4, <2>6 DEF Linear!ProbeSuccess
    <3>2. LinearTypes'
      BY <1>0, <2>1, <2>2, <3>1 DEF LinearTypes
    <3>3. WalkInv'
      BY <1>0, <2>1, <2>2, <3>1, Bounds DEF WalkInv
    <3>4. FollowedInv'
      BY <1>0, <2>1, <2>2, <2>3, <3>1 DEF FollowedInv
    <3>5. BackwardInv' /\ TailInv'
      BY <3>1 DEF BackwardInv, TailInv
    <3>6. QED
      BY <2>3, <2>4, <3>2, <3>3, <3>4, <3>5
  <2>7. QED
    BY <2>5, <2>6
<1>5. CASE Linear!ProbeFailure
  <2>1. /\ phase = "probe" /\ task # Linear!NoTask /\ probeStart' = probeStart + MaxBlock
        /\ UNCHANGED <<phase, blockStart, blockEnd, origin, search, gapProbe, gapProbeAddr>>
    BY <1>5 DEF Linear!ProbeFailure, Linear!Refused
  <2>2. task.start \in Int /\ task.count \in Int
    BY <2>1 DEF LinearTaskInv
  <2>3. task' = Linear!NoTask /\ FromDevice'
    BY <1>5, <2>2, RefusedFacts DEF Linear!ProbeFailure
  <2>4. LinearTypes' /\ WalkInv'
    BY <1>0, <2>1, Bounds DEF LinearTypes, WalkInv
  <2>5. LinearTaskInv' /\ FollowedInv' /\ BackwardInv' /\ TailInv'
    BY <2>1, <2>3 DEF LinearTaskInv, FollowedInv, BackwardInv, TailInv
  <2>6. QED
    BY <2>3, <2>4, <2>5
<1>6. CASE Linear!RunOff
  <2>1. /\ phase = "probe"
        /\ UNCHANGED <<device, task, captured>>
        /\ UNCHANGED <<phase, probeStart, blockStart, blockEnd, origin, search, gapProbe, gapProbeAddr>>
    BY <1>6 DEF Linear!RunOff, Linear!Leave
  <2>2. LinearTypes' /\ WalkInv' /\ LinearTaskInv'
    BY <2>1 DEF LinearTypes, WalkInv, LinearTaskInv
  <2>3. FromDevice' /\ FollowedInv' /\ BackwardInv' /\ TailInv'
    BY <2>1 DEF FromDevice, FollowedInv, BackwardInv, TailInv
  <2>4. QED
    BY <2>2, <2>3
<1>7. QED
  BY <1>1, <1>2, <1>3, <1>4, <1>5, <1>6

\* Reading the block forward.
LEMMA ForwardStep ==
  ASSUME LinearInv, Linear!Forward \/ Linear!ForwardOver \/ Linear!ForwardSuccess \/ Linear!ForwardFailure
  PROVE  LinearInv'
<1> USE DEF LinearInv
<1>0. /\ probeStart \in Int /\ blockStart \in Int /\ blockEnd \in Int /\ origin \in Int
         /\ gapProbeAddr \in Int
  BY DEF LinearTypes
<1>1. CASE Linear!Forward
  <2>1. /\ phase = "forward" /\ blockEnd <= EndAddress
        /\ task' = [start |-> blockEnd, count |-> Linear!BlockAt(blockEnd)]
        /\ UNCHANGED <<device, captured, finished>>
        /\ UNCHANGED <<phase, probeStart, blockStart, blockEnd, origin, search, gapProbe, gapProbeAddr>>
    BY <1>1 DEF Linear!Forward, Linear!Issue, Linear!Read, Linear!strategyVars
  <2>2. /\ Linear!BlockAt(blockEnd) \in Int /\ 1 <= Linear!BlockAt(blockEnd)
           /\ Linear!BlockAt(blockEnd) <= MaxBlock
        /\ blockEnd + Linear!BlockAt(blockEnd) <= EndAddress + 1
    BY <1>0, <2>1, WindowFacts, Bounds
  <2>3. LinearTypes' /\ WalkInv'
    BY <2>1 DEF LinearTypes, WalkInv
  <2>4. LinearTaskInv'
    BY <1>0, <2>1, <2>2, Bounds DEF LinearTaskInv, WalkInv
  <2>5. FromDevice' /\ FollowedInv' /\ BackwardInv' /\ TailInv'
    BY <2>1 DEF FromDevice, FollowedInv, BackwardInv, TailInv
  <2>6. QED
    BY <2>3, <2>4, <2>5
<1>2. CASE Linear!ForwardOver
  <2>1. /\ phase = "forward" /\ phase' = "probe" /\ probeStart' = blockEnd
        /\ UNCHANGED <<device, task, captured, blockStart, blockEnd, origin, search, gapProbe, gapProbeAddr>>
        /\ task = Linear!NoTask
    BY <1>2 DEF Linear!ForwardOver, Linear!Idle, Linear!loopVars
  <2>2. LinearTypes' /\ WalkInv'
    BY <1>0, <2>1 DEF LinearTypes, WalkInv
  <2>3. FromDevice' /\ LinearTaskInv' /\ FollowedInv' /\ BackwardInv' /\ TailInv'
    BY <2>1 DEF FromDevice, LinearTaskInv, FollowedInv, BackwardInv, TailInv
  <2>4. QED
    BY <2>2, <2>3
<1>3. CASE Linear!ForwardSuccess
  <2>1. /\ phase = "forward" /\ task # Linear!NoTask /\ blockEnd' = blockEnd + task.count
        /\ UNCHANGED <<phase, probeStart, blockStart, origin, search, gapProbe, gapProbeAddr>>
    BY <1>3 DEF Linear!ForwardSuccess, Linear!Answered
  <2>2. /\ task.start \in Int /\ task.count \in Int /\ 1 <= task.count /\ task.start = blockEnd
        /\ task.start + task.count <= EndAddress + 1
    BY <2>1 DEF LinearTaskInv
  <2>3. /\ task' = Linear!NoTask /\ FromDevice'
        /\ \A a : a \in captured => a \in captured'
        /\ \A a \in Int : task.start <= a /\ a < task.start + task.count => a \in captured'
    BY <1>3, <2>2, AnsweredFacts DEF Linear!ForwardSuccess
  <2>4. LinearTypes' /\ WalkInv'
    BY <1>0, <2>1, <2>2, Bounds DEF LinearTypes, WalkInv
  <2>5. FollowedInv'
    BY <1>0, <2>1, <2>2, <2>3 DEF FollowedInv
  <2>6. LinearTaskInv' /\ BackwardInv' /\ TailInv'
    BY <2>1, <2>3 DEF LinearTaskInv, BackwardInv, TailInv
  <2>7. QED
    BY <2>3, <2>4, <2>5, <2>6
<1>4. CASE Linear!ForwardFailure
  <2>1. /\ phase = "forward" /\ phase' = "tail" /\ task # Linear!NoTask
        /\ search' = Linear!NewSearch(Linear!BlockAt(blockEnd))
        /\ UNCHANGED <<probeStart, blockStart, blockEnd, origin, gapProbe, gapProbeAddr>>
    BY <1>4 DEF Linear!ForwardFailure, Linear!Refused
  <2>2. /\ task.start \in Int /\ task.count \in Int /\ 1 <= task.count /\ task.start = blockEnd
        /\ task.start + task.count <= EndAddress + 1
    BY <2>1 DEF LinearTaskInv
  <2>3. task' = Linear!NoTask /\ FromDevice' /\ device' = device /\ captured' = captured
    BY <1>4, <2>2, RefusedFacts DEF Linear!ForwardFailure
  <2>4. search' = [low |-> 1, high |-> Linear!BlockAt(blockEnd), best |-> 0]
    BY <2>1 DEF Linear!NewSearch
  <2>5. blockEnd <= EndAddress
    BY <1>0, <2>2, Bounds
  <2>6. Linear!BlockAt(blockEnd) \in Int /\ 1 <= Linear!BlockAt(blockEnd)
    BY <1>0, <2>5, WindowFacts
  <2>7. search' \in [low : Int, high : Int, best : Int]
    BY <2>4, <2>6
  <2>8. LinearTypes' /\ WalkInv'
    BY <2>1, <2>5, <2>7 DEF LinearTypes, WalkInv
  <2>9. search'.best = 0 /\ search'.low = 1 /\ search'.high = Linear!BlockAt(blockEnd)
    BY <2>4
  <2>10. FollowedInv'
    BY <1>0, <2>1, <2>3, <2>9 DEF FollowedInv
  <2>11. Linear!BlockAt(blockEnd)' = Linear!BlockAt(blockEnd)
    BY <2>1 DEF Linear!BlockAt, Linear!Least
  <2>12. LinearTaskInv' /\ BackwardInv' /\ TailInv'
    BY <2>1, <2>3, <2>6, <2>9, <2>11
    DEF LinearTaskInv, BackwardInv, TailInv, SearchShape, Linear!BlockAt, Linear!Least
  <2>13. QED
    BY <2>3, <2>8, <2>10, <2>12
<1>5. QED
  BY <1>1, <1>2, <1>3, <1>4

\* The middle of a search that is not over is a candidate of the window.
LEMMA MidFacts ==
  ASSUME LinearInv, ~Linear!SearchIsOver, phase \in {"backward", "tail"}
  PROVE  /\ Linear!Mid \in Int /\ 1 <= Linear!Mid /\ Linear!Mid <= MaxBlock
         /\ search.low <= Linear!Mid /\ Linear!Mid <= search.high
         /\ phase = "backward" => StartAddress <= origin - Linear!Mid
         /\ phase = "tail" => blockEnd + Linear!Mid <= EndAddress + 1
<1> USE DEF LinearInv
<1>1. search.low \in Int /\ search.high \in Int /\ origin \in Int /\ blockEnd \in Int
  BY DEF LinearTypes
<1>2. Linear!Mid \in Int /\ search.low <= Linear!Mid /\ Linear!Mid <= search.high
  BY <1>1 DEF Linear!Mid, Linear!SearchIsOver
<1>3. 1 <= search.low
  BY DEF BackwardInv, TailInv, SearchShape
<1>4. phase = "backward" => search.high <= Linear!BackwardWindow(origin)
  BY DEF BackwardInv, SearchShape
<1>5. phase = "tail" => search.high <= Linear!BlockAt(blockEnd)
  BY DEF TailInv, SearchShape
<1>6. Linear!BackwardWindow(origin) \in Int /\ Linear!BackwardWindow(origin) <= MaxBlock
      /\ Linear!BackwardWindow(origin) <= origin - StartAddress
  BY <1>1, WindowFacts
<1>7. Linear!BlockAt(blockEnd) \in Int /\ Linear!BlockAt(blockEnd) <= MaxBlock
      /\ Linear!BlockAt(blockEnd) <= EndAddress - blockEnd + 1
  BY <1>1, WindowFacts
<1>8. QED
  BY <1>1, <1>2, <1>3, <1>4, <1>5, <1>6, <1>7, Bounds

\* The searches.
LEMMA SearchIssueStep ==
  ASSUME LinearInv, Linear!BackwardSearch \/ Linear!BackwardOver \/ Linear!TailSearch \/ Linear!TailOver
  PROVE  LinearInv'
<1> USE DEF LinearInv
<1>0. /\ probeStart \in Int /\ blockStart \in Int /\ blockEnd \in Int /\ origin \in Int
         /\ gapProbeAddr \in Int
      /\ search.low \in Int /\ search.high \in Int /\ search.best \in Int
  BY DEF LinearTypes
<1>1. CASE Linear!BackwardSearch
  <2>1. /\ phase = "backward" /\ ~Linear!SearchIsOver
        /\ UNCHANGED <<phase, probeStart, blockStart, blockEnd, origin, gapProbe, gapProbeAddr>>
    BY <1>1 DEF Linear!BackwardSearch
  <2>2. /\ Linear!Mid \in Int /\ 1 <= Linear!Mid /\ Linear!Mid <= MaxBlock
        /\ search.low <= Linear!Mid /\ Linear!Mid <= search.high
        /\ StartAddress <= origin - Linear!Mid
    BY <2>1, MidFacts
  <2>3. Linear!Issue(Linear!Read(origin - Linear!Mid, Linear!Mid)) /\ UNCHANGED search
    BY <1>0, <1>1, <2>2, Bounds DEF Linear!BackwardSearch
  <2>4. /\ task' = [start |-> origin - Linear!Mid, count |-> Linear!Mid]
           /\ UNCHANGED <<device, captured, finished>>
    BY <2>3 DEF Linear!Issue, Linear!Read
  <2>5. LinearTypes' /\ WalkInv'
    BY <2>1, <2>3 DEF LinearTypes, WalkInv
  <2>6. task'.start = origin - Linear!Mid /\ task'.count = Linear!Mid
    BY <2>4
  <2>7. origin < blockEnd /\ blockEnd <= EndAddress + 1 /\ gapProbe = "none"
    BY <2>1 DEF WalkInv
  <2>8. LinearTaskInv'
    BY <1>0, <2>1, <2>2, <2>3, <2>6, <2>7, Bounds DEF LinearTaskInv
  <2>9. FromDevice' /\ FollowedInv' /\ BackwardInv' /\ TailInv'
    BY <2>1, <2>3, <2>4
    DEF FromDevice, FollowedInv, BackwardInv, TailInv, SearchShape, Linear!BackwardWindow,
      Linear!Least
  <2>10. QED
    BY <2>5, <2>8, <2>9
<1>2. CASE Linear!BackwardOver
  <2>1. /\ phase = "backward" /\ phase' = "forward" /\ blockStart' = origin - search.best
        /\ UNCHANGED <<device, task, captured, probeStart, blockEnd, origin, search, gapProbe, gapProbeAddr>>
        /\ task = Linear!NoTask
    BY <1>2 DEF Linear!BackwardOver, Linear!Idle, Linear!loopVars
  <2>2. LinearTypes' /\ WalkInv'
    BY <1>0, <2>1 DEF LinearTypes, WalkInv
  <2>3. FromDevice' /\ LinearTaskInv' /\ FollowedInv' /\ BackwardInv' /\ TailInv'
    BY <2>1 DEF FromDevice, LinearTaskInv, FollowedInv, BackwardInv, TailInv
  <2>4. QED
    BY <2>2, <2>3
<1>3. CASE Linear!TailSearch
  <2>1. /\ phase = "tail" /\ ~Linear!SearchIsOver
        /\ UNCHANGED <<phase, probeStart, blockStart, blockEnd, origin, gapProbe, gapProbeAddr>>
    BY <1>3 DEF Linear!TailSearch
  <2>2. /\ Linear!Mid \in Int /\ 1 <= Linear!Mid /\ Linear!Mid <= MaxBlock
        /\ search.low <= Linear!Mid /\ Linear!Mid <= search.high
        /\ blockEnd + Linear!Mid <= EndAddress + 1
    BY <2>1, MidFacts
  <2>3. Linear!Issue(Linear!Read(blockEnd, Linear!Mid)) /\ UNCHANGED search
    BY <1>0, <1>3, <2>2, Bounds DEF Linear!TailSearch
  <2>4. /\ task' = [start |-> blockEnd, count |-> Linear!Mid]
           /\ UNCHANGED <<device, captured, finished>>
    BY <2>3 DEF Linear!Issue, Linear!Read
  <2>5. LinearTypes' /\ WalkInv'
    BY <2>1, <2>3 DEF LinearTypes, WalkInv
  <2>6. task'.start = blockEnd /\ task'.count = Linear!Mid
    BY <2>4
  <2>7. StartAddress <= blockEnd /\ gapProbe = "none"
    BY <2>1 DEF WalkInv
  <2>8. LinearTaskInv'
    BY <1>0, <2>1, <2>2, <2>3, <2>6, <2>7, Bounds DEF LinearTaskInv
  <2>9. FromDevice' /\ FollowedInv' /\ BackwardInv' /\ TailInv'
    BY <2>1, <2>3, <2>4 DEF FromDevice, FollowedInv, BackwardInv, TailInv, SearchShape,
      Linear!BlockAt, Linear!Least
  <2>10. QED
    BY <2>5, <2>8, <2>9
<1>4. CASE Linear!TailOver
  <2>1. /\ phase = "tail" /\ phase' = "probe" /\ probeStart' = Linear!AfterTail
        /\ UNCHANGED <<device, task, captured, blockStart, blockEnd, origin, search>>
        /\ task = Linear!NoTask
        /\ \/ gapProbe' = "pending" /\ gapProbeAddr' = blockEnd
           \/ UNCHANGED <<gapProbe, gapProbeAddr>>
    BY <1>4 DEF Linear!TailOver, Linear!Idle, Linear!loopVars, Linear!GapAddr
  <2>2. Linear!AfterTail \in Int /\ blockEnd <= Linear!AfterTail
    BY <1>0, Bounds DEF Linear!AfterTail
  <2>3. StartAddress <= blockEnd /\ blockEnd <= EndAddress
    BY <2>1 DEF WalkInv
  <2>4. LinearTypes'
    BY <1>0, <2>1, <2>2 DEF LinearTypes
  <2>5. WalkInv'
    BY <1>0, <2>1, <2>2, <2>3, Bounds DEF WalkInv
  <2>6. FromDevice' /\ LinearTaskInv' /\ FollowedInv' /\ BackwardInv' /\ TailInv'
    BY <2>1 DEF FromDevice, LinearTaskInv, FollowedInv, BackwardInv, TailInv
  <2>7. QED
    BY <2>4, <2>5, <2>6
<1>5. QED
  BY <1>1, <1>2, <1>3, <1>4

\* A result moves one end of the window of a search past the count that was read.
LEMMA SearchResultStep == ASSUME LinearInv, Linear!SearchResult PROVE LinearInv'
<1> USE DEF LinearInv
<1>0. /\ blockStart \in Int /\ blockEnd \in Int /\ origin \in Int
      /\ search \in [low : Int, high : Int, best : Int]
  BY DEF LinearTypes
<1>1. /\ phase \in {"backward", "tail"} /\ task # Linear!NoTask
      /\ UNCHANGED <<phase, probeStart, blockStart, blockEnd, origin, gapProbe, gapProbeAddr>>
  BY DEF Linear!SearchResult, Linear!Answered, Linear!Refused
<1>2. /\ task.start \in Int /\ task.count \in Int /\ 1 <= task.count
      /\ search.low <= task.count /\ task.count <= search.high
      /\ phase = "tail" => task.start = blockEnd
      /\ phase = "backward" => task.start + task.count = origin
  BY <1>1 DEF LinearTaskInv
<1> DEFINE window == IF phase = "backward" THEN Linear!BackwardWindow(origin) ELSE Linear!BlockAt(blockEnd)
<1>3. /\ window \in Int
      /\ search.best = search.low - 1 /\ 1 <= search.low /\ search.low <= search.high + 1
      /\ search.high <= window
  BY <1>0, <1>1, WindowFacts DEF BackwardInv, TailInv, SearchShape
<1>4. window' = window
  BY <1>1 DEF Linear!BackwardWindow, Linear!BlockAt, Linear!Least
<1> phase = "backward" => Linear!BackwardWindow(origin)' = window
  BY <1>1 DEF Linear!BackwardWindow, Linear!Least
<1> phase = "tail" => Linear!BlockAt(blockEnd)' = window
  BY <1>1 DEF Linear!BlockAt, Linear!Least
<1>5. /\ phase = "backward" /\ ~device.lossy /\ search.high < window =>
           \E a \in Int : origin - (search.high + 1) <= a /\ a < origin /\ a \notin device.readable
      /\ phase = "tail" /\ ~device.lossy /\ search.high < window =>
           \E a \in Int : blockEnd <= a /\ a <= blockEnd + search.high /\ a \notin device.readable
  BY <1>1 DEF BackwardInv, TailInv
<1> HIDE DEF window
<1>6. CASE Linear!Answered /\ search' = [search EXCEPT !.best = task.count, !.low = task.count + 1]
  <2>1. /\ task' = Linear!NoTask /\ device' = device /\ FromDevice'
        /\ \A a : a \in captured => a \in captured'
        /\ \A a \in Int : task.start <= a /\ a < task.start + task.count => a \in captured'
    BY <1>2, <1>6, AnsweredFacts
  <2>2. search' = [low |-> task.count + 1, high |-> search.high, best |-> task.count]
    BY <1>0, <1>6
  <2>3. search'.low = task.count + 1 /\ search'.high = search.high /\ search'.best = task.count
    BY <2>2
  <2>4. search' \in [low : Int, high : Int, best : Int]
    BY <1>0, <1>2, <2>2
  <2>5. LinearTypes'
    BY <1>1, <2>4 DEF LinearTypes
  <2>6. WalkInv'
    BY <1>1 DEF WalkInv
  <2>7. LinearTaskInv'
    BY <2>1 DEF LinearTaskInv
  <2>8. FollowedInv'
    <3>1. CASE phase = "backward"
      BY <1>0, <1>1, <1>2, <1>3, <2>1, <2>3, <3>1 DEF FollowedInv
    <3>2. CASE phase = "tail"
      BY <1>0, <1>1, <1>2, <2>1, <2>3, <3>2 DEF FollowedInv
    <3>3. QED
      BY <1>1, <3>1, <3>2
  <2>9. search'.best = search'.low - 1 /\ 1 <= search'.low /\ search'.low <= search'.high + 1
        /\ search'.high <= window
    BY <1>0, <1>2, <1>3, <2>3
  <2>10. BackwardInv' /\ TailInv'
    BY <1>1, <1>5, <2>1, <2>3, <2>9 DEF BackwardInv, TailInv, SearchShape
  <2>11. QED
    BY <2>1, <2>5, <2>6, <2>7, <2>8, <2>10
<1>7. CASE Linear!Refused /\ search' = [search EXCEPT !.high = Linear!HighAfter(task.count)]
  <2>1. /\ task' = Linear!NoTask /\ device' = device /\ captured' = captured /\ FromDevice'
        /\ ~device.lossy =>
             \E a \in Int : task.start <= a /\ a < task.start + task.count /\ a \notin device.readable
    BY <1>2, <1>7, RefusedFacts
  <2>2. Linear!HighAfter(task.count) = task.count - 1
    BY <1>2 DEF Linear!HighAfter
  <2>3. search' = [low |-> search.low, high |-> task.count - 1, best |-> search.best]
    BY <1>0, <1>7, <2>2
  <2>4. search'.low = search.low /\ search'.high = task.count - 1 /\ search'.best = search.best
    BY <2>3
  <2>5. search' \in [low : Int, high : Int, best : Int]
    BY <1>0, <1>2, <2>3
  <2>6. LinearTypes'
    BY <1>1, <2>5 DEF LinearTypes
  <2>7. WalkInv' /\ LinearTaskInv'
    BY <1>1, <2>1 DEF WalkInv, LinearTaskInv
  <2>8. FollowedInv'
    BY <1>1, <2>1, <2>4 DEF FollowedInv
  <2>9. search'.best = search'.low - 1 /\ 1 <= search'.low /\ search'.low <= search'.high + 1
        /\ search'.high <= window
    BY <1>0, <1>2, <1>3, <2>4
  <2>10. phase = "backward" /\ ~device.lossy =>
           \E a \in Int : origin - (search'.high + 1) <= a /\ a < origin /\ a \notin device.readable
    BY <1>0, <1>2, <2>1, <2>4
  <2>11. phase = "tail" /\ ~device.lossy =>
           \E a \in Int : blockEnd <= a /\ a <= blockEnd + search'.high /\ a \notin device.readable
    BY <1>0, <1>2, <2>1, <2>4
  <2>12. BackwardInv' /\ TailInv'
    BY <1>1, <2>1, <2>9, <2>10, <2>11 DEF BackwardInv, TailInv, SearchShape
  <2>13. QED
    BY <2>1, <2>6, <2>7, <2>8, <2>12
<1>8. QED
  BY <1>6, <1>7 DEF Linear!SearchResult

\* The invariant is inductive.
LEMMA LinearStepInv == LinearInv /\ [Linear!Next]_(Linear!vars) => LinearInv'
<1> SUFFICES ASSUME LinearInv, [Linear!Next]_(Linear!vars) PROVE LinearInv'
  OBVIOUS
<1>1. CASE UNCHANGED Linear!vars
  BY <1>1 DEF Linear!vars, Linear!strategyVars, Linear!loopVars, LinearInv, FromDevice,
    LinearTypes, WalkInv, LinearTaskInv,
              FollowedInv, BackwardInv, TailInv, SearchShape, Linear!BackwardWindow,
              Linear!BlockAt, Linear!Least
<1>2. QED
  BY <1>1, ProbeStep, ForwardStep, SearchIssueStep, SearchResultStep DEF Linear!Next

\* What the invariant says of the reads, the block and its edges.
LEMMA LinearMeans ==
  LinearInv => Linear!ReadsStayInRange /\ Linear!BlockIsCaptured /\ Linear!TailIsMaximal /\ Linear!BackwardIsMaximal
<1> SUFFICES ASSUME LinearInv
             PROVE  Linear!ReadsStayInRange /\ Linear!BlockIsCaptured /\ Linear!TailIsMaximal /\ Linear!BackwardIsMaximal
  OBVIOUS
<1> USE DEF LinearInv
<1>0. /\ blockStart \in Int /\ blockEnd \in Int /\ origin \in Int
      /\ search.low \in Int /\ search.high \in Int /\ search.best \in Int
  BY DEF LinearTypes
<1>1. Linear!ReadsStayInRange
  <2>1. SUFFICES ASSUME task # Linear!NoTask PROVE Linear!Covered(task) \subseteq Linear!ScanRange
    BY DEF Linear!ReadsStayInRange
  <2>2. QED
    BY <2>1, Bounds DEF Linear!Covered, Linear!LastOf, Linear!ScanRange, LinearTaskInv
<1>2. Linear!BlockIsCaptured
  BY <1>0 DEF Linear!BlockIsCaptured, FollowedInv
<1>3. Linear!TailIsMaximal
  <2> DEFINE last == blockEnd + search.best - 1
  <2>1. SUFFICES ASSUME phase = "tail", Linear!SearchIsOver, ~device.lossy
                 PROVE  /\ blockEnd .. last \subseteq Linear!readable
                        /\ last + 1 \in (Linear!readable \cap Linear!ScanRange) => search.best = MaxBlock
    BY DEF Linear!TailIsMaximal
  <2>2. \A a \in Int : blockEnd <= a /\ a < blockEnd + search.best => a \in device.readable
    BY <2>1 DEF FollowedInv, FromDevice
  <2>3. search.best = search.high /\ search.high <= Linear!BlockAt(blockEnd)
    BY <1>0, <2>1 DEF TailInv, SearchShape, Linear!SearchIsOver
  <2>4. search.high < Linear!BlockAt(blockEnd) =>
          \E a \in Int : blockEnd <= a /\ a <= blockEnd + search.high /\ a \notin device.readable
    BY <2>1 DEF TailInv
  <2>5. Linear!BlockAt(blockEnd) \in Int /\ (Linear!BlockAt(blockEnd) = MaxBlock \/ Linear!BlockAt(blockEnd) = EndAddress - blockEnd + 1)
    BY <1>0, WindowFacts
  <2>6. ASSUME last + 1 \in device.readable, last + 1 \in Linear!ScanRange PROVE search.best = MaxBlock
    <3>1. ~(search.high < Linear!BlockAt(blockEnd))
      BY <1>0, <2>2, <2>3, <2>4, <2>6
    <3>2. search.best = Linear!BlockAt(blockEnd)
      BY <1>0, <2>3, <2>5, <3>1
    <3>3. last + 1 <= EndAddress
      BY <2>6, Bounds DEF Linear!ScanRange
    <3>4. QED
      BY <1>0, <2>5, <3>2, <3>3, Bounds
  <2>7. blockEnd .. last \subseteq Linear!readable
    BY <1>0, <2>2 DEF Linear!readable
  <2>8. QED
    BY <2>6, <2>7 DEF Linear!readable
<1>4. Linear!BackwardIsMaximal
  <2> DEFINE first == origin - search.best
  <2>1. SUFFICES ASSUME phase = "backward", Linear!SearchIsOver, ~device.lossy
                 PROVE  /\ first .. origin - 1 \subseteq Linear!readable
                        /\ first - 1 \in (Linear!readable \cap Linear!ScanRange) => search.best = MaxBlock
    BY DEF Linear!BackwardIsMaximal
  <2>2. \A a \in Int : origin - search.best <= a /\ a < origin => a \in device.readable
    BY <1>0, <2>1 DEF FollowedInv, FromDevice, WalkInv
  <2>3. search.best = search.high /\ search.high <= Linear!BackwardWindow(origin)
    BY <1>0, <2>1 DEF BackwardInv, SearchShape, Linear!SearchIsOver
  <2>4. search.high < Linear!BackwardWindow(origin) =>
          \E a \in Int : origin - (search.high + 1) <= a /\ a < origin /\ a \notin device.readable
    BY <2>1 DEF BackwardInv
  <2>5. /\ Linear!BackwardWindow(origin) \in Int
        /\ Linear!BackwardWindow(origin) = MaxBlock \/ Linear!BackwardWindow(origin) = origin - StartAddress
    BY <1>0, WindowFacts
  <2>6. ASSUME first - 1 \in device.readable, first - 1 \in Linear!ScanRange PROVE search.best = MaxBlock
    <3>1. ~(search.high < Linear!BackwardWindow(origin))
      BY <1>0, <2>2, <2>3, <2>4, <2>6
    <3>2. search.best = Linear!BackwardWindow(origin)
      BY <1>0, <2>3, <2>5, <3>1
    <3>3. StartAddress <= first - 1
      BY <2>6, Bounds DEF Linear!ScanRange
    <3>4. QED
      BY <1>0, <2>5, <3>2, <3>3, Bounds
  <2>7. first .. origin - 1 \subseteq Linear!readable
    BY <1>0, <2>2 DEF Linear!readable
  <2>8. QED
    BY <2>6, <2>7 DEF Linear!readable
<1>5. QED
  BY <1>1, <1>2, <1>3, <1>4
-----------------------------------------------------------------------------
(* What linear costs.                                                     *)

\* A whole number of blocks fits into a range that is long enough for it.
LEMMA FullBlocks ==
  ASSUME NEW n \in Nat, NEW m \in Nat \ {0}, NEW x \in Int, n * m <= x
  PROVE  n <= x \div m
<1> DEFINE q == x \div m
           r == x % m
<1>1. q \in Int /\ r \in Int /\ 0 <= r /\ r < m /\ x = m * q + r
  OBVIOUS
<1> HIDE DEF q, r
<1>2. SUFFICES ASSUME q < n PROVE FALSE
  BY <1>1 DEF q
<1>3. q + 1 <= n
  BY <1>1, <1>2
<1>4. (q + 1) * m <= n * m
  BY ONLY <1>1, <1>3, n \in Nat, m \in Nat \ {0}
<1>5. (q + 1) * m = m * q + m
  BY ONLY <1>1, m \in Nat \ {0}
<1>6. n * m \in Int /\ m * q \in Int /\ (q + 1) * m \in Int
  BY ONLY <1>1, n \in Nat, m \in Nat \ {0}
<1>7. QED
  BY <1>1, <1>4, <1>5, <1>6

\* One block more.
LEMMA OneMoreBlock ==
  ASSUME NEW n \in Int, NEW m \in Int PROVE (n + 1) * m = n * m + m /\ n * m \in Int
  OBVIOUS

\* Until something is captured, linear probes: each block it probed took it
\* MaxBlock registers up the range, and it has not run past the range by more.
LinearCostInv ==
  /\ requests \in Nat
  /\ captured = {} =>
       /\ phase = "probe" /\ gapProbe = "none" /\ probeStart <= EndAddress + MaxBlock
       /\ task = Linear!NoTask => requests * MaxBlock <= probeStart - StartAddress
       /\ task # Linear!NoTask => requests * MaxBlock <= probeStart - StartAddress + MaxBlock

\* The bound holds at the start.
LEMMA LinearCostInit == Linear!Init => LinearCostInv
<1> SUFFICES ASSUME Linear!Init PROVE LinearCostInv
  OBVIOUS
<1> USE DEF Linear!Init, Linear!LoopInit
<1>1. requests = 0 /\ probeStart = StartAddress /\ task = Linear!NoTask
  OBVIOUS
<1>2. requests * MaxBlock = 0
  BY <1>1, Bounds
<1>3. QED
  BY <1>1, <1>2, Bounds DEF LinearCostInv

\* A step that sends nothing keeps the number of reads.
LEMMA RequestsGrow ==
  ASSUME requests \in Nat, Linear!Next
  PROVE  requests' \in Nat /\ (requests' = requests \/ requests' = requests + 1)
<1>1. Linear!Count(requests) \in Nat
      /\ (Linear!Count(requests) = requests \/ Linear!Count(requests) = requests + 1)
  BY DEF Linear!Count
<1>2. QED
  BY <1>1 DEF Linear!Next, Linear!IssueGapProbe, Linear!GapProbeResult, Linear!IssueProbe,
    Linear!ProbeSuccess, Linear!ProbeFailure, Linear!RunOff, Linear!BackwardSearch,
    Linear!BackwardOver, Linear!SearchResult, Linear!Forward, Linear!ForwardOver,
    Linear!ForwardSuccess, Linear!ForwardFailure, Linear!TailSearch, Linear!TailOver,
    Linear!Issue, Linear!Leave, Linear!Answered, Linear!Refused, Linear!Narrow, Linear!loopVars

\* Nothing is ever dropped from the capture, and an answer adds to it.
LEMMA CaptureGrows ==
  ASSUME LinearInv, Linear!Next, captured' = {}
  PROVE  captured = {} /\ ~Linear!Answered
<1>1. ~Linear!Answered
  <2>1. SUFFICES ASSUME Linear!Answered PROVE FALSE
    OBVIOUS
  <2>2. task # Linear!NoTask /\ captured' = captured \cup Linear!Covered(task)
    BY <2>1 DEF Linear!Answered
  <2>3. task.start \in Int /\ task.count \in Int /\ 1 <= task.count
    BY <2>2 DEF LinearInv, LinearTaskInv
  <2>4. task.start \in Linear!Covered(task)
    BY <2>3 DEF Linear!Covered, Linear!LastOf
  <2>5. QED
    BY <2>2, <2>4
<1>2. captured' = captured \/ captured' = captured \cup Linear!Covered(task)
  BY DEF Linear!Next, Linear!IssueGapProbe, Linear!GapProbeResult, Linear!IssueProbe,
    Linear!ProbeSuccess, Linear!ProbeFailure, Linear!RunOff, Linear!BackwardSearch,
    Linear!BackwardOver, Linear!SearchResult, Linear!Forward, Linear!ForwardOver,
    Linear!ForwardSuccess, Linear!ForwardFailure, Linear!TailSearch, Linear!TailOver,
    Linear!Issue, Linear!Leave, Linear!Answered, Linear!Refused, Linear!Narrow, Linear!loopVars
<1>3. QED
  BY <1>1, <1>2

\* Every step of linear keeps to the bound.
LEMMA LinearCostStep == LinearInv /\ LinearCostInv /\ [Linear!Next]_(Linear!vars) => LinearCostInv'
<1> SUFFICES ASSUME LinearInv, LinearCostInv, [Linear!Next]_(Linear!vars) PROVE LinearCostInv'
  OBVIOUS
<1>1. CASE UNCHANGED Linear!vars
  <2>1. UNCHANGED <<requests, captured, phase, gapProbe, probeStart, task>>
    BY <1>1 DEF Linear!vars, Linear!loopVars, Linear!strategyVars
  <2>2. Linear!NoTask' = Linear!NoTask
    BY DEF Linear!NoTask, Linear!Read
  <2>3. QED
    BY <2>1, <2>2 DEF LinearCostInv
<1>2. CASE Linear!Next
  <2>1. requests \in Nat /\ requests' \in Nat /\ (requests' = requests \/ requests' = requests + 1)
    BY <1>2, RequestsGrow DEF LinearCostInv
  <2>2. CASE captured' # {}
    BY <2>1, <2>2 DEF LinearCostInv
  <2>3. CASE captured' = {}
    <3>1. captured = {} /\ ~Linear!Answered
      BY <1>2, <2>3, CaptureGrows
    <3>2. /\ phase = "probe" /\ gapProbe = "none" /\ probeStart <= EndAddress + MaxBlock
          /\ task = Linear!NoTask => requests * MaxBlock <= probeStart - StartAddress
          /\ task # Linear!NoTask => requests * MaxBlock <= probeStart - StartAddress + MaxBlock
      BY <3>1 DEF LinearCostInv
    <3>3. probeStart \in Int
      BY DEF LinearInv, LinearTypes
    <3>4. Linear!IssueProbe \/ Linear!ProbeFailure \/ Linear!RunOff
      BY <1>2, <3>1, <3>2 DEF Linear!Next, Linear!IssueGapProbe, Linear!GapProbeResult,
        Linear!ProbeSuccess, Linear!BackwardSearch,
        Linear!BackwardOver, Linear!SearchResult, Linear!Forward, Linear!ForwardOver,
        Linear!ForwardSuccess, Linear!ForwardFailure, Linear!TailSearch, Linear!TailOver
    <3>5. Linear!NoTask' = Linear!NoTask
      BY DEF Linear!NoTask, Linear!Read
    <3>6. CASE Linear!IssueProbe
      <4>1. /\ UNCHANGED <<phase, gapProbe, probeStart>> /\ task = Linear!NoTask
            /\ task' = [start |-> probeStart, count |-> Linear!BlockAt(probeStart)]
            /\ probeStart <= EndAddress
        BY <3>6 DEF Linear!IssueProbe, Linear!strategyVars, Linear!Issue, Linear!Idle, Linear!Read
      <4>2. 1 <= Linear!BlockAt(probeStart) /\ Linear!BlockAt(probeStart) \in Int
        BY <3>3, <4>1, WindowFacts
      <4>3. task' # Linear!NoTask
        BY <4>1, <4>2 DEF Linear!NoTask, Linear!Read
      <4>4. requests' * MaxBlock <= requests * MaxBlock + MaxBlock
        <5>1. /\ (requests + 1) * MaxBlock = requests * MaxBlock + MaxBlock
              /\ requests * MaxBlock \in Int
          BY <2>1, Bounds, OneMoreBlock
        <5>2. requests' * MaxBlock = requests * MaxBlock \/ requests' * MaxBlock = (requests + 1) * MaxBlock
          BY <2>1
        <5>3. QED
          BY ONLY <5>1, <5>2, Bounds
      <4>5. requests' * MaxBlock \in Int /\ requests * MaxBlock \in Int
        BY <2>1, Bounds, OneMoreBlock
      <4>6. requests' * MaxBlock <= probeStart - StartAddress + MaxBlock
        BY <3>2, <3>3, <4>1, <4>4, <4>5, Bounds
      <4>7. QED
        BY <2>1, <3>2, <3>5, <4>1, <4>3, <4>6 DEF LinearCostInv
    <3>7. CASE Linear!ProbeFailure
      <4>1. /\ UNCHANGED <<phase, gapProbe, requests>> /\ task # Linear!NoTask
               /\ task' = Linear!NoTask
            /\ probeStart' = probeStart + MaxBlock
        BY <3>7 DEF Linear!ProbeFailure, Linear!Refused
      <4>2. probeStart <= EndAddress
        BY <3>2, <3>3, <4>1, Bounds DEF LinearInv, LinearTaskInv
      <4>3. requests * MaxBlock \in Int
        BY <2>1, Bounds, OneMoreBlock
      <4>4. \A n \in Int : n = probeStart + MaxBlock =>
              n <= EndAddress + MaxBlock /\ requests * MaxBlock <= n - StartAddress
        BY <3>2, <3>3, <4>1, <4>2, <4>3, Bounds
      <4>5. probeStart' \in Int
        BY <3>3, <4>1, Bounds
      <4>6. QED
        BY <2>1, <3>2, <3>5, <4>1, <4>4, <4>5 DEF LinearCostInv
    <3>8. CASE Linear!RunOff
      <4>1. UNCHANGED <<phase, gapProbe, requests, task, probeStart>>
        BY <3>8 DEF Linear!RunOff, Linear!Leave
      <4>2. QED
        BY <2>1, <3>2, <3>5, <4>1 DEF LinearCostInv
    <3>9. QED
      BY <3>4, <3>6, <3>7, <3>8
  <2>4. QED
    BY <2>2, <2>3
<1>3. QED
  BY <1>1, <1>2

\* What that says of the number of reads.
LEMMA LinearCostBounds == LinearInv /\ LinearCostInv => Linear!ReadsBounded
<1> SUFFICES ASSUME LinearInv, LinearCostInv, captured = {}
             PROVE  requests <= (Linear!RangeLen + MaxBlock - 1) \div MaxBlock
  BY DEF Linear!ReadsBounded
<1>1. requests \in Nat /\ requests * MaxBlock \in Int
  BY Bounds, OneMoreBlock DEF LinearCostInv
<1>2. probeStart \in Int
  BY DEF LinearInv, LinearTypes
<1>3. requests * MaxBlock <= EndAddress - StartAddress + MaxBlock
  <2>1. CASE task = Linear!NoTask
    BY <1>1, <1>2, <2>1, Bounds DEF LinearCostInv
  <2>2. CASE task # Linear!NoTask
    <3>1. probeStart <= EndAddress
      BY <1>2, <2>2, Bounds DEF LinearInv, LinearTaskInv, LinearCostInv
    <3>2. QED
      BY <1>1, <1>2, <2>2, <3>1, Bounds DEF LinearCostInv
  <2>3. QED
    BY <2>1, <2>2
<1>4. PICK x \in Int : x = EndAddress - StartAddress + MaxBlock
  BY Bounds
<1>5. Linear!RangeLen + MaxBlock - 1 = x
  BY <1>4, Bounds DEF Linear!RangeLen
<1>6. requests <= x \div MaxBlock
  BY <1>1, <1>3, <1>4, Bounds, FullBlocks
<1>7. QED
  BY <1>5, <1>6
-----------------------------------------------------------------------------
(* The sunspec strategy.                                                  *)

SunSpecTypes ==
  /\ phase \in {"detect", "walk", "done"}
  /\ choice \in SunSpecChoices
  /\ baseIndex \in 1 .. Len(choice.bases) + 1
  /\ baseAddr \in Int /\ 0 <= baseAddr /\ baseAddr <= AddrMax
  /\ currentAddr \in Int /\ 0 <= currentAddr /\ currentAddr <= AddrMax
  /\ body \in [addr : Int, left : Int] /\ 0 <= body.left

\* The candidates are probed before there is a body.
DetectInv == phase = "detect" => ~SunSpec!ReadingBody /\ baseIndex <= Len(choice.bases)

\* A read of a body is its next block, another read is two registers long.
SunSpecTaskInv ==
  task # SunSpec!NoTask =>
    /\ task.start \in Int /\ task.count \in Int
    /\ phase # "done"
    /\ phase = "walk" /\ SunSpec!ReadingBody =>
         /\ task.start = body.addr
         /\ 1 <= task.count /\ task.count <= body.left /\ task.count <= MaxBlock
    /\ ~(phase = "walk" /\ SunSpec!ReadingBody) =>
         task.count = 2 /\ 0 <= task.start /\ task.start <= AddrMax
         /\ task = SunSpec!Read(task.start, 2)
    /\ phase = "walk" /\ ~SunSpec!ReadingBody => task.start = currentAddr

\* Everything between the first header and the next read was captured.
ChainInv ==
  phase = "walk" =>
    /\ \A a \in Int :
         SunSpec!Wrap(baseAddr + 2) <= a /\ a < (IF SunSpec!ReadingBody THEN body.addr ELSE currentAddr) => a \in captured
    /\ SunSpec!ReadingBody => body.addr + body.left = currentAddr

SunSpecInv == FromDevice /\ SunSpecTypes /\ DetectInv /\ SunSpecTaskInv /\ ChainInv

\* What a candidate base is, and the address of the first header behind it.
LEMMA ChoiceFacts ==
  ASSUME NEW c \in SunSpecChoices
  PROVE  /\ c.base \in Int /\ 0 <= c.base /\ c.base <= AddrMax - 2 /\ 2 <= AddrMax
         /\ Len(c.bases) \in Nat /\ 1 <= Len(c.bases)
         /\ \A i \in Int : 1 <= i /\ i <= Len(c.bases) =>
              c.bases[i] \in Int /\ 0 <= c.bases[i] /\ c.bases[i] <= AddrMax
<1>1. c.base \in 0 .. AddrMax - 2 /\ c.bases \in Seq(SunSpec!Addr) /\ c.bases # <<>>
  BY SunSpecAssumption DEF Addr, SunSpec!Addr
<1>2. Len(c.bases) \in Nat /\ 1 <= Len(c.bases)
  BY <1>1
<1>3. ASSUME NEW i \in Int, 1 <= i, i <= Len(c.bases)
      PROVE  c.bases[i] \in Int /\ 0 <= c.bases[i] /\ c.bases[i] <= AddrMax
  <2>1. c.bases[i] \in SunSpec!Addr
    BY <1>1, <1>2, <1>3
  <2>2. QED
    BY <2>1, Bounds DEF SunSpec!Addr
<1>4. QED
  BY <1>1, <1>2, <1>3, Bounds

\* The register after a marker is an address, wrapped at the end of the space.
LEMMA WrapFacts ==
  ASSUME NEW a \in Int, 0 <= a, a <= AddrMax, 2 <= AddrMax
  PROVE  SunSpec!Wrap(a + 2) \in Int /\ 0 <= SunSpec!Wrap(a + 2) /\ SunSpec!Wrap(a + 2) <= AddrMax
  BY Bounds DEF SunSpec!Wrap

\* The invariant of sunspec holds at the start.
LEMMA SunSpecInit == SunSpec!Init => SunSpecInv
<1> SUFFICES ASSUME SunSpec!Init PROVE SunSpecInv
  OBVIOUS
<1> USE DEF SunSpec!Init, SunSpec!LoopInit
<1>1. choice \in SunSpecChoices
  OBVIOUS
<1>2. /\ choice.base \in Int /\ 0 <= choice.base /\ choice.base <= AddrMax - 2 /\ 2 <= AddrMax
      /\ Len(choice.bases) \in Nat /\ 1 <= Len(choice.bases)
  BY <1>1, ChoiceFacts
<1>3. body = [addr |-> 0, left |-> 0] /\ ~SunSpec!ReadingBody
  BY DEF SunSpec!NoBody, SunSpec!ReadingBody
<1>4. SunSpecTypes
  <2>1. baseIndex \in 1 .. Len(choice.bases) + 1
    BY <1>2
  <2>2. phase \in {"detect", "walk", "done"}
    OBVIOUS
  <2>3. /\ baseAddr \in Int /\ 0 <= baseAddr /\ baseAddr <= AddrMax
        /\ currentAddr \in Int /\ 0 <= currentAddr /\ currentAddr <= AddrMax
    BY <1>2, Bounds
  <2>4. QED
    BY <1>1, <1>3, <2>1, <2>2, <2>3 DEF SunSpecTypes
<1>5. DetectInv
  BY <1>2, <1>3 DEF DetectInv
<1>6. ChainInv
  <2>1. SUFFICES ASSUME phase = "walk" PROVE SunSpec!Wrap(baseAddr + 2) = currentAddr
    BY <1>2, <1>3 DEF ChainInv
  <2>2. QED
    BY <1>2, <2>1, Bounds DEF SunSpec!Wrap
<1>7. FromDevice /\ SunSpecTaskInv
  BY DEF FromDevice, SunSpecTaskInv
<1>8. QED
  BY <1>4, <1>5, <1>6, <1>7 DEF SunSpecInv

\* A read of sunspec is of a candidate, of the next block of a body or of a header.
LEMMA IssueReadStep == ASSUME SunSpecInv, SunSpec!IssueRead PROVE SunSpecInv'
<1> USE DEF SunSpecInv
<1>1. UNCHANGED <<phase, choice, baseIndex, baseAddr, currentAddr, modelCount, body>>
  BY DEF SunSpec!IssueRead, SunSpec!strategyVars
<1>2. UNCHANGED <<device, captured, finished>>
  BY DEF SunSpec!IssueRead, SunSpec!Issue
<1>3. /\ currentAddr \in Int /\ 0 <= currentAddr /\ currentAddr <= AddrMax
      /\ body.addr \in Int /\ body.left \in Int /\ 0 <= body.left
  BY DEF SunSpecTypes
<1>4. FromDevice' /\ SunSpecTypes' /\ DetectInv' /\ ChainInv'
  BY <1>1, <1>2 DEF FromDevice, SunSpecTypes, DetectInv, ChainInv, SunSpec!ReadingBody, SunSpec!Wrap
<1>5. SunSpecTaskInv'
  <2>1. CASE phase = "detect" /\ SunSpec!Issue(SunSpec!Read(choice.bases[baseIndex], 2))
    <3> DEFINE base == choice.bases[baseIndex]
    <3>1. base \in Int /\ 0 <= base /\ base <= AddrMax
      BY <2>1, ChoiceFacts DEF SunSpecTypes, DetectInv
    <3>2. task' = [start |-> base, count |-> 2]
      BY <2>1 DEF SunSpec!Issue, SunSpec!Read
    <3> HIDE DEF base
    <3>3. task'.start = base /\ task'.count = 2
      BY <3>2
    <3>4. QED
      BY <1>1, <2>1, <3>1, <3>2, <3>3 DEF SunSpecTaskInv, SunSpec!ReadingBody, SunSpec!Read
  <2>2. CASE phase = "walk" /\ SunSpec!ReadingBody
             /\ SunSpec!Issue(SunSpec!Read(body.addr, SunSpec!Chunk))
    <3>1. SunSpec!Chunk \in Int /\ 1 <= SunSpec!Chunk /\ SunSpec!Chunk <= body.left
          /\ SunSpec!Chunk <= MaxBlock
      BY <1>3, <2>2, Bounds DEF SunSpec!Chunk, SunSpec!ReadingBody
    <3>2. task' = [start |-> body.addr, count |-> SunSpec!Chunk]
      BY <2>2 DEF SunSpec!Issue, SunSpec!Read
    <3>3. task'.start = body.addr /\ task'.count = SunSpec!Chunk
      BY <3>2
    <3>4. QED
      BY <1>1, <1>3, <2>2, <3>1, <3>3 DEF SunSpecTaskInv, SunSpec!ReadingBody
  <2>3. CASE phase = "walk" /\ ~SunSpec!ReadingBody /\ SunSpec!Issue(SunSpec!Read(currentAddr, 2))
    <3>1. task' = [start |-> currentAddr, count |-> 2]
      BY <2>3 DEF SunSpec!Issue, SunSpec!Read
    <3>2. task'.start = currentAddr /\ task'.count = 2
      BY <3>1
    <3>3. QED
      BY <1>1, <1>3, <2>3, <3>1, <3>2 DEF SunSpecTaskInv, SunSpec!ReadingBody, SunSpec!Read
  <2>4. QED
    BY <2>1, <2>2, <2>3 DEF SunSpec!IssueRead
<1>6. QED
  BY <1>4, <1>5

\* Probing for the marker.
LEMMA MarkerStep == ASSUME SunSpecInv, SunSpec!MarkerFound \/ SunSpec!MarkerMissing PROVE SunSpecInv'
<1> USE DEF SunSpecInv
<1>1. /\ phase = "detect" /\ task # SunSpec!NoTask /\ ~SunSpec!ReadingBody
      /\ UNCHANGED <<choice, modelCount, body>>
  BY DEF SunSpec!MarkerFound, SunSpec!MarkerMissing, SunSpec!Answered, SunSpec!Refused, DetectInv
<1>2. task.start \in Int /\ task.count \in Int /\ 0 <= task.start /\ task.start <= AddrMax
  BY <1>1 DEF SunSpecTaskInv
<1>3. choice \in SunSpecChoices
  BY DEF SunSpecTypes
<1>4. 2 <= AddrMax /\ Len(choice.bases) \in Nat
  BY <1>3, ChoiceFacts
<1>5. CASE SunSpec!MarkerFound
  <2>1. /\ phase' = "walk" /\ baseAddr' = task.start /\ currentAddr' = SunSpec!Wrap(task.start + 2)
        /\ baseIndex' = baseIndex
    BY <1>5 DEF SunSpec!MarkerFound
  <2>2. task' = SunSpec!NoTask /\ FromDevice'
    BY <1>2, <1>5, AnsweredFacts DEF SunSpec!MarkerFound
  <2>3. SunSpec!Wrap(task.start + 2) \in Int /\ 0 <= SunSpec!Wrap(task.start + 2)
        /\ SunSpec!Wrap(task.start + 2) <= AddrMax
    BY <1>2, <1>4, WrapFacts
  <2>4. SunSpecTypes'
    BY <1>1, <1>2, <2>1, <2>3 DEF SunSpecTypes
  <2>5. SunSpec!Wrap(baseAddr + 2)' = currentAddr' /\ ~SunSpec!ReadingBody'
    BY <1>1, <2>1 DEF SunSpec!Wrap, SunSpec!ReadingBody
  <2>6. ChainInv'
    BY <2>3, <2>1, <2>5 DEF ChainInv
  <2>7. DetectInv' /\ SunSpecTaskInv'
    BY <2>1, <2>2 DEF DetectInv, SunSpecTaskInv
  <2>8. QED
    BY <2>2, <2>4, <2>6, <2>7
<1>6. CASE SunSpec!MarkerMissing
  <2>1. /\ baseIndex' = baseIndex + 1
        /\ phase' = IF baseIndex + 1 > Len(choice.bases) THEN "done" ELSE "detect"
        /\ UNCHANGED <<baseAddr, currentAddr>>
    BY <1>6 DEF SunSpec!MarkerMissing
  <2>2. task' = SunSpec!NoTask /\ FromDevice'
    <3>1. CASE SunSpec!Answered
      BY <1>2, <3>1, AnsweredFacts
    <3>2. CASE SunSpec!Refused
      BY <3>2 DEF SunSpec!Refused, FromDevice
    <3>3. QED
      BY <1>6, <3>1, <3>2 DEF SunSpec!MarkerMissing
  <2>3. baseIndex \in Int /\ 1 <= baseIndex /\ baseIndex <= Len(choice.bases)
    BY <1>1, <1>4 DEF SunSpecTypes, DetectInv
  <2>4. baseIndex' \in 1 .. Len(choice'.bases) + 1
    BY <1>1, <1>4, <2>1, <2>3
  <2>5. SunSpecTypes'
    BY <1>1, <2>1, <2>4 DEF SunSpecTypes
  <2>6. DetectInv'
    BY <1>1, <1>4, <2>1, <2>3 DEF DetectInv, SunSpec!ReadingBody
  <2>7. ChainInv' /\ SunSpecTaskInv'
    BY <2>1, <2>2 DEF ChainInv, SunSpecTaskInv
  <2>8. QED
    BY <2>2, <2>5, <2>6, <2>7
<1>7. QED
  BY <1>5, <1>6

\* A header and its end of the chain.
LEMMA HeaderStep ==
  ASSUME SunSpecInv, (\E n \in 1 .. AddrMax : SunSpec!HeaderAt(n)) \/ SunSpec!ChainEnds
  PROVE  SunSpecInv'
<1> USE DEF SunSpecInv
<1>1. phase = "walk" /\ task # SunSpec!NoTask /\ ~SunSpec!ReadingBody
      /\ UNCHANGED <<choice, baseIndex, baseAddr>>
  BY DEF SunSpec!HeaderAt, SunSpec!ChainEnds, SunSpec!Answered, SunSpec!Refused
<1>2. /\ task.start \in Int /\ task.count = 2 /\ task.start = currentAddr
      /\ currentAddr \in Int /\ 0 <= currentAddr /\ baseAddr \in Int
  BY <1>1 DEF SunSpecTaskInv, SunSpecTypes
<1>3. ASSUME NEW n \in 1 .. AddrMax, SunSpec!HeaderAt(n) PROVE SunSpecInv'
  <2>1. /\ phase' = phase /\ currentAddr' = currentAddr + 2 + n /\ currentAddr + 2 + n <= AddrMax
        /\ body' = [addr |-> currentAddr + 2, left |-> n]
    BY <1>3 DEF SunSpec!HeaderAt
  <2>2. /\ task' = SunSpec!NoTask /\ FromDevice'
        /\ \A a : a \in captured => a \in captured'
        /\ \A a \in Int : task.start <= a /\ a < task.start + task.count => a \in captured'
    BY <1>2, <1>3, AnsweredFacts DEF SunSpec!HeaderAt
  <2>3. n \in Int /\ 1 <= n
    BY Bounds
  <2>4. body' \in [addr : Int, left : Int] /\ body'.left = n /\ body'.addr = currentAddr + 2
    BY <1>2, <2>1, <2>3
  <2>5. SunSpecTypes'
    BY <1>1, <1>2, <2>1, <2>3, <2>4 DEF SunSpecTypes
  <2>6. SunSpec!ReadingBody'
    BY <2>3, <2>4 DEF SunSpec!ReadingBody
  <2>7. SunSpec!Wrap(baseAddr + 2)' = SunSpec!Wrap(baseAddr + 2)
    BY <1>1 DEF SunSpec!Wrap
  <2>8. ASSUME NEW a \in Int, SunSpec!Wrap(baseAddr + 2) <= a, a < currentAddr + 2 PROVE a \in captured'
    <3>1. a < currentAddr => a \in captured
      BY <1>1, <2>8 DEF ChainInv
    <3>2. QED
      BY <1>2, <2>2, <2>8, <3>1
  <2>9. ChainInv'
    BY <1>2, <2>1, <2>3, <2>4, <2>6, <2>7, <2>8 DEF ChainInv
  <2>10. DetectInv' /\ SunSpecTaskInv'
    BY <1>1, <2>1, <2>2 DEF DetectInv, SunSpecTaskInv
  <2>11. QED
    BY <2>2, <2>5, <2>9, <2>10
<1>4. CASE SunSpec!ChainEnds
  <2>1. phase' = "done" /\ UNCHANGED <<currentAddr, body>>
    BY <1>4 DEF SunSpec!ChainEnds
  <2>2. task' = SunSpec!NoTask /\ FromDevice'
    <3>1. CASE SunSpec!Answered
      BY <1>2, <3>1, AnsweredFacts
    <3>2. CASE SunSpec!Refused
      BY <3>2 DEF SunSpec!Refused, FromDevice
    <3>3. QED
      BY <1>4, <3>1, <3>2 DEF SunSpec!ChainEnds
  <2>3. SunSpecTypes'
    BY <1>1, <2>1 DEF SunSpecTypes
  <2>4. ChainInv' /\ SunSpecTaskInv' /\ DetectInv'
    BY <2>1, <2>2 DEF ChainInv, SunSpecTaskInv, DetectInv
  <2>5. QED
    BY <2>2, <2>3, <2>4
<1>5. QED
  BY <1>3, <1>4

\* A block of a body, and the end of the walk.
LEMMA BodyStep == ASSUME SunSpecInv, SunSpec!BodyResult PROVE SunSpecInv'
<1> USE DEF SunSpecInv
<1>1. phase = "walk" /\ task # SunSpec!NoTask /\ SunSpec!ReadingBody
      /\ UNCHANGED <<choice, baseIndex, baseAddr, currentAddr, modelCount>>
  BY DEF SunSpec!BodyResult, SunSpec!Answered, SunSpec!Refused
<1>2. /\ task.start \in Int /\ task.count \in Int /\ task.start = body.addr
      /\ 1 <= task.count /\ task.count <= body.left
      /\ body.addr \in Int /\ body.left \in Int /\ currentAddr \in Int /\ baseAddr \in Int
      /\ body.addr + body.left = currentAddr
  BY <1>1 DEF SunSpecTaskInv, SunSpecTypes, ChainInv
<1>3. CASE /\ SunSpec!Answered
           /\ body' = [addr |-> body.addr + task.count, left |-> body.left - task.count]
           /\ UNCHANGED phase
  <2>1. /\ task' = SunSpec!NoTask /\ FromDevice'
        /\ \A a : a \in captured => a \in captured'
        /\ \A a \in Int : task.start <= a /\ a < task.start + task.count => a \in captured'
    BY <1>2, <1>3, AnsweredFacts
  <2>2. /\ body' \in [addr : Int, left : Int]
        /\ body'.left = body.left - task.count /\ body'.addr = body.addr + task.count
    BY <1>2, <1>3
  <2>3. SunSpecTypes'
    BY <1>1, <1>2, <1>3, <2>2 DEF SunSpecTypes
  <2>4. SunSpec!Wrap(baseAddr + 2)' = SunSpec!Wrap(baseAddr + 2)
    BY <1>1 DEF SunSpec!Wrap
  <2>5. ASSUME NEW a \in Int, SunSpec!Wrap(baseAddr + 2) <= a, a < body.addr + task.count PROVE a \in captured'
    <3>1. a < body.addr => a \in captured
      BY <1>1, <2>5 DEF ChainInv
    <3>2. QED
      BY <1>2, <2>1, <2>5, <3>1
  <2>6. /\ SunSpec!ReadingBody' => body'.addr + body'.left = currentAddr'
        /\ ~SunSpec!ReadingBody' => currentAddr' = body.addr + task.count
    BY <1>1, <1>2, <2>2 DEF SunSpec!ReadingBody
  <2>7. ChainInv'
    BY <2>2, <2>4, <2>5, <2>6 DEF ChainInv
  <2>8. DetectInv' /\ SunSpecTaskInv'
    BY <1>1, <1>3, <2>1 DEF DetectInv, SunSpecTaskInv
  <2>9. QED
    BY <2>1, <2>3, <2>7, <2>8
<1>4. CASE SunSpec!Refused /\ phase' = "done" /\ UNCHANGED body
  <2>1. task' = SunSpec!NoTask /\ FromDevice'
    BY <1>4 DEF SunSpec!Refused, FromDevice
  <2>2. SunSpecTypes'
    BY <1>1, <1>4 DEF SunSpecTypes
  <2>3. ChainInv' /\ SunSpecTaskInv' /\ DetectInv'
    BY <1>4, <2>1 DEF ChainInv, SunSpecTaskInv, DetectInv
  <2>4. QED
    BY <2>1, <2>2, <2>3
<1>5. QED
  BY <1>3, <1>4 DEF SunSpec!BodyResult

\* The invariant is inductive.
LEMMA SunSpecStepInv == SunSpecInv /\ [SunSpec!Next]_(SunSpec!vars) => SunSpecInv'
<1> SUFFICES ASSUME SunSpecInv, [SunSpec!Next]_(SunSpec!vars) PROVE SunSpecInv'
  OBVIOUS
<1>1. CASE SunSpec!Stop
  <2> USE DEF SunSpecInv
  <2>1. /\ phase' = "done"
        /\ UNCHANGED <<device, task, captured>>
        /\ UNCHANGED <<choice, baseIndex, baseAddr, currentAddr, modelCount, body>>
        /\ task = SunSpec!NoTask
    BY <1>1 DEF SunSpec!Stop, SunSpec!Leave, SunSpec!Idle
  <2>2. SunSpecTypes'
    BY <2>1 DEF SunSpecTypes
  <2>3. FromDevice' /\ ChainInv' /\ SunSpecTaskInv' /\ DetectInv'
    BY <2>1 DEF FromDevice, ChainInv, SunSpecTaskInv, DetectInv
  <2>4. QED
    BY <2>2, <2>3
<1>2. CASE UNCHANGED SunSpec!vars
  BY <1>2 DEF SunSpec!vars, SunSpec!strategyVars, SunSpec!loopVars, SunSpecInv, FromDevice,
    SunSpecTypes, DetectInv,
              SunSpecTaskInv, ChainInv, SunSpec!ReadingBody, SunSpec!Wrap
<1>3. QED
  BY <1>1, <1>2, IssueReadStep, MarkerStep, HeaderStep, BodyStep DEF SunSpec!Next

\* What the invariant says of the chain and of the reads.
LEMMA SunSpecMeans == SunSpecInv => SunSpec!ChainIsCaptured /\ SunSpec!ReadsStayInSpace
<1> SUFFICES ASSUME SunSpecInv PROVE SunSpec!ChainIsCaptured /\ SunSpec!ReadsStayInSpace
  OBVIOUS
<1> USE DEF SunSpecInv
<1>0. /\ currentAddr \in Int /\ baseAddr \in Int /\ 0 <= baseAddr /\ baseAddr <= AddrMax
      /\ body.addr \in Int /\ body.left \in Int /\ phase \in {"detect", "walk", "done"}
      /\ choice \in SunSpecChoices
  BY DEF SunSpecTypes
<1>1. 2 <= AddrMax
  BY <1>0, ChoiceFacts
<1>2. SunSpec!Wrap(baseAddr + 2) \in Int
  BY <1>0, <1>1, WrapFacts
<1>3. SunSpec!ChainIsCaptured
  BY <1>0, <1>2 DEF SunSpec!ChainIsCaptured, ChainInv
<1>4. SunSpec!ReadsStayInSpace
  <2>1. SUFFICES ASSUME task # SunSpec!NoTask
                 PROVE  IF SunSpec!ReadingBody THEN SunSpec!LastOf(task) < currentAddr /\ task.count <= MaxBlock
                        ELSE SunSpec!LastOf(task) <= AddrMax \/ task = SunSpec!Read(AddrMax, 2)
    BY DEF SunSpec!ReadsStayInSpace
  <2>2. CASE SunSpec!ReadingBody
    <3>1. phase = "walk"
      BY <1>0, <2>1, <2>2 DEF SunSpecTaskInv, DetectInv
    <3>2. QED
      BY <1>0, <2>1, <2>2, <3>1, Bounds DEF SunSpecTaskInv, ChainInv, SunSpec!LastOf
  <2>3. CASE ~SunSpec!ReadingBody
    <3>1. /\ task.count = 2 /\ task.start \in Int /\ task.start <= AddrMax
          /\ task = SunSpec!Read(task.start, 2)
      BY <2>1, <2>3 DEF SunSpecTaskInv
    <3>2. QED
      BY <2>3, <3>1, Bounds DEF SunSpec!LastOf
  <2>4. QED
    BY <2>2, <2>3
<1>5. QED
  BY <1>3, <1>4
-----------------------------------------------------------------------------
(* What sunspec costs.                                                    *)

\* A body of n registers takes one read less than one of a block more.
LEMMA BlocksFacts ==
  /\ SunSpec!Blocks(0) = 0
  /\ \A n \in Nat : SunSpec!Blocks(n) \in Nat
  /\ \A n \in Nat : 1 <= n /\ n <= MaxBlock => SunSpec!Blocks(n) = 1
  /\ \A n \in Nat : MaxBlock <= n => SunSpec!Blocks(n) = SunSpec!Blocks(n - MaxBlock) + 1
  /\ \A n, m \in Nat : n <= m => SunSpec!Blocks(n) <= SunSpec!Blocks(m)
<1>0. MaxBlock \in Nat /\ 1 <= MaxBlock
  BY Bounds
<1>1. \A x \in Int : 0 <= x /\ x < MaxBlock => x \div MaxBlock = 0
  BY <1>0
<1>2. \A x \in Int : MaxBlock <= x /\ x < 2 * MaxBlock => x \div MaxBlock = 1
  BY <1>0
<1>3. \A x \in Int : (x + MaxBlock) \div MaxBlock = (x \div MaxBlock) + 1
  BY <1>0
<1>4. \A x, y \in Int : x <= y => x \div MaxBlock <= y \div MaxBlock
  BY <1>0
<1>5. \A x \in Int : 0 <= x => x \div MaxBlock \in Nat
  BY <1>0
<1>6. SunSpec!Blocks(0) = 0
  BY <1>0, <1>1 DEF SunSpec!Blocks
<1>7. \A n \in Nat : SunSpec!Blocks(n) \in Nat
  BY <1>0, <1>5 DEF SunSpec!Blocks
<1>8. \A n \in Nat : 1 <= n /\ n <= MaxBlock => SunSpec!Blocks(n) = 1
  BY <1>0, <1>2 DEF SunSpec!Blocks
<1>9. \A n \in Nat : MaxBlock <= n => SunSpec!Blocks(n) = SunSpec!Blocks(n - MaxBlock) + 1
  <2>1. SUFFICES ASSUME NEW n \in Nat, MaxBlock <= n
                 PROVE  (n + MaxBlock - 1) \div MaxBlock = ((n - MaxBlock + MaxBlock - 1) \div MaxBlock) + 1
    BY DEF SunSpec!Blocks
  <2>2. PICK x \in Int : x = n - 1
    OBVIOUS
  <2>3. n + MaxBlock - 1 = x + MaxBlock /\ n - MaxBlock + MaxBlock - 1 = x
    BY <1>0, <2>2
  <2>4. QED
    BY <1>3, <2>3
<1>10. \A n, m \in Nat : n <= m => SunSpec!Blocks(n) <= SunSpec!Blocks(m)
  BY <1>0, <1>4 DEF SunSpec!Blocks
<1>11. QED
  BY <1>6, <1>7, <1>8, <1>9, <1>10

\* What a model may cost: its header and the blocks of the largest body.
ModelCost == 1 + SunSpec!Blocks(AddrMax - 2)
MostReads == Len(choice.bases) + choice.maxModels * ModelCost

\* The reads of sunspec are paid by the candidates it probed and the models it
\* found: a model pays for all of its body when its header is read.
SunSpecCostInv ==
  /\ requests \in Nat /\ modelCount \in Nat /\ modelCount <= choice.maxModels
  /\ phase = "detect" => requests <= baseIndex - (IF task = SunSpec!NoTask THEN 1 ELSE 0)
  /\ phase = "walk" =>
       requests + SunSpec!Blocks(body.left)
         <= Len(choice.bases) + modelCount * ModelCost + (IF task = SunSpec!NoTask THEN 0 ELSE 1)
  /\ phase = "walk" /\ task # SunSpec!NoTask =>
       IF SunSpec!ReadingBody THEN task.count = SunSpec!Chunk ELSE modelCount < choice.maxModels
  /\ phase = "done" => requests <= MostReads

\* The constants of the bound are numbers, and one more model costs that much.
LEMMA ModelFacts ==
  ASSUME NEW c \in SunSpecChoices
  PROVE  /\ ModelCost \in Nat /\ 1 <= ModelCost
         /\ c.maxModels \in Nat /\ 1 <= c.maxModels
         /\ \A n \in Nat : n * ModelCost \in Nat /\ (n + 1) * ModelCost = n * ModelCost + ModelCost
         /\ \A n, m \in Nat : n <= m => n * ModelCost <= m * ModelCost
<1>1. AddrMax - 2 \in Nat
  BY ChoiceFacts, Bounds
<1>2. SunSpec!Blocks(AddrMax - 2) \in Nat
  BY <1>1, BlocksFacts
<1>3. ModelCost \in Nat /\ 1 <= ModelCost
  BY <1>2 DEF ModelCost
<1>4. c.maxModels \in Nat /\ 1 <= c.maxModels
  BY SunSpecAssumption
<1>5. \A k \in Nat : \A n \in Nat : n * k \in Nat /\ (n + 1) * k = n * k + k
  OBVIOUS
<1>6. \A k \in Nat : \A n, m \in Nat : n <= m => n * k <= m * k
  OBVIOUS
<1>7. QED
  BY <1>3, <1>4, <1>5, <1>6

\* During the probes and during the walk the bound is kept too.
LEMMA SunSpecCostBounds == SunSpecInv /\ SunSpecCostInv => SunSpec!ReadsBounded
<1> SUFFICES ASSUME SunSpecInv, SunSpecCostInv PROVE SunSpec!ReadsBounded
  OBVIOUS
<1>1. /\ choice \in SunSpecChoices /\ phase \in {"detect", "walk", "done"}
      /\ baseIndex \in 1 .. Len(choice.bases) + 1
      /\ body.left \in Nat
  BY DEF SunSpecInv, SunSpecTypes
<1>2. requests \in Nat /\ modelCount \in Nat /\ modelCount <= choice.maxModels
  BY DEF SunSpecCostInv
<1>3. ModelCost \in Nat /\ 1 <= ModelCost /\ choice.maxModels \in Nat
  BY <1>1, ModelFacts
<1>4. PICK len \in Nat : len = Len(choice.bases)
  BY <1>1, ChoiceFacts
<1>5. PICK most \in Nat : most = choice.maxModels * ModelCost
  BY <1>1, <1>3, ModelFacts
<1>6. PICK paid \in Nat : paid = modelCount * ModelCost
  BY <1>1, <1>2, ModelFacts
<1>7. PICK blocks \in Nat : blocks = SunSpec!Blocks(body.left)
  BY <1>1, BlocksFacts
<1>8. requests <= len + most
  <2>1. CASE phase = "detect"
    <3>1. requests <= baseIndex /\ baseIndex <= len
      BY <1>1, <1>2, <1>4, <2>1 DEF SunSpecCostInv, SunSpecInv, DetectInv
    <3>2. QED
      BY <1>1, <1>2, <1>4, <3>1
  <2>2. CASE phase = "walk"
    <3>1. paid <= most
      BY <1>1, <1>2, <1>3, <1>5, <1>6, ModelFacts
    <3>2. CASE task = SunSpec!NoTask
      <4>1. requests + blocks <= len + paid
        BY <1>4, <1>6, <1>7, <2>2, <3>2 DEF SunSpecCostInv
      <4>2. QED
        BY <1>2, <3>1, <4>1
    <3>3. CASE task # SunSpec!NoTask
      <4>1. requests + blocks <= len + paid + 1
        BY <1>4, <1>6, <1>7, <2>2, <3>3 DEF SunSpecCostInv
      <4>2. CASE SunSpec!ReadingBody
        <5>1. 1 <= blocks
          BY <1>1, <1>7, <4>2, BlocksFacts, Bounds DEF SunSpec!ReadingBody
        <5>2. QED
          BY <1>2, <3>1, <4>1, <5>1
      <4>3. CASE ~SunSpec!ReadingBody
        <5>1. modelCount < choice.maxModels
          BY <2>2, <3>3, <4>3 DEF SunSpecCostInv
        <5>2. paid + ModelCost = (modelCount + 1) * ModelCost
          BY <1>1, <1>2, <1>6, ModelFacts
        <5>3. (modelCount + 1) * ModelCost <= most
          <6>1. modelCount + 1 \in Nat /\ modelCount + 1 <= choice.maxModels
            BY <1>2, <1>3, <5>1
          <6>2. QED
            BY <1>1, <1>3, <1>5, <6>1, ModelFacts
        <5>4. paid + ModelCost <= most
          BY <5>2, <5>3
        <5>5. QED
          BY <1>2, <1>3, <4>1, <5>4
      <4>4. QED
        BY <4>2, <4>3
    <3>4. QED
      BY <3>2, <3>3
  <2>3. CASE phase = "done"
    BY <1>4, <1>5, <2>3 DEF SunSpecCostInv, MostReads
  <2>4. QED
    BY <1>1, <2>1, <2>2, <2>3
<1>9. QED
  BY <1>4, <1>5, <1>8 DEF SunSpec!ReadsBounded, ModelCost

\* The bound holds at the start.
LEMMA SunSpecCostInit == SunSpec!Init => SunSpecCostInv
<1> SUFFICES ASSUME SunSpec!Init PROVE SunSpecCostInv
  OBVIOUS
<1>1. /\ choice \in SunSpecChoices /\ requests = 0 /\ modelCount = 0 /\ baseIndex = 1
      /\ task = SunSpec!NoTask /\ body.left = 0 /\ phase # "done"
  BY DEF SunSpec!NoBody, SunSpec!Init, SunSpec!LoopInit
<1>2. choice.maxModels \in Nat /\ Len(choice.bases) \in Nat
  BY <1>1, ModelFacts, ChoiceFacts
<1>3. PICK paid \in Nat : paid = modelCount * ModelCost
  BY <1>1, ModelFacts
<1>4. SunSpec!Blocks(body.left) = 0
  BY <1>1, BlocksFacts
<1>5. QED
  BY <1>1, <1>2, <1>3, <1>4 DEF SunSpecCostInv

\* A walk that starts, goes on or stops stays within the bound: the facts of
\* a step, and what the invariant says after it.
LEMMA SunSpecCostNext ==
  ASSUME SunSpecInv, SunSpecCostInv, SunSpec!Next
  PROVE  SunSpecCostInv'
<1>1. /\ choice \in SunSpecChoices /\ phase \in {"detect", "walk", "done"}
      /\ baseIndex \in Int /\ body.left \in Nat /\ currentAddr \in Nat
      /\ requests \in Nat /\ modelCount \in Nat /\ modelCount <= choice.maxModels
  BY DEF SunSpecInv, SunSpecTypes, SunSpecCostInv
<1>2. SunSpec!NoTask' = SunSpec!NoTask /\ choice' = choice /\ MostReads' = MostReads
  BY DEF SunSpec!NoTask, SunSpec!Read, SunSpec!Next, SunSpec!IssueRead, SunSpec!Stop,
    SunSpec!MarkerFound, SunSpec!MarkerMissing, SunSpec!HeaderAt, SunSpec!ChainEnds,
    SunSpec!BodyResult, SunSpec!strategyVars, MostReads, ModelCost, SunSpec!Blocks
<1>3. requests <= MostReads
  BY SunSpecCostBounds DEF SunSpec!ReadsBounded, MostReads, ModelCost
<1>4. SunSpec!Answered \/ SunSpec!Refused => task # SunSpec!NoTask /\ task' = SunSpec!NoTask /\ requests' = requests
  BY DEF SunSpec!Answered, SunSpec!Refused
<1>5. ASSUME NEW t, SunSpec!Issue(t)
      PROVE  /\ task = SunSpec!NoTask /\ task' = t /\ requests' \in Nat
             /\ requests' = requests \/ requests' = requests + 1
  BY <1>1, <1>5 DEF SunSpec!Issue, SunSpec!Idle, SunSpec!Count
<1>6. PICK len \in Nat : len = Len(choice.bases)
  BY <1>1, ChoiceFacts
<1>7. ModelCost \in Nat /\ 1 <= ModelCost /\ choice.maxModels \in Nat
  BY <1>1, ModelFacts
<1>8. PICK paid \in Nat : paid = modelCount * ModelCost
  BY <1>1, ModelFacts
<1>9. PICK blocks \in Nat : blocks = SunSpec!Blocks(body.left)
  BY <1>1, BlocksFacts
<1>10. CASE SunSpec!IssueRead
  <2>1. UNCHANGED <<phase, choice, baseIndex, baseAddr, currentAddr, modelCount, body>>
    BY <1>10 DEF SunSpec!IssueRead, SunSpec!strategyVars
  <2>2. PICK t : /\ SunSpec!Issue(t) /\ t.count # 0
                 /\ phase # "done"
                 /\ phase = "walk" => IF SunSpec!ReadingBody THEN t.count = SunSpec!Chunk
                                      ELSE modelCount < choice.maxModels
    <3>1. CASE phase = "detect" /\ SunSpec!Issue(SunSpec!Read(choice.bases[baseIndex], 2))
      BY <3>1 DEF SunSpec!Read
    <3>2. CASE phase = "walk" /\ SunSpec!ReadingBody
               /\ SunSpec!Issue(SunSpec!Read(body.addr, SunSpec!Chunk))
      <4>1. SunSpec!Chunk # 0
        BY <1>1, <3>2, Bounds DEF SunSpec!Chunk, SunSpec!ReadingBody
      <4>2. QED
        BY <3>2, <4>1 DEF SunSpec!Read
    <3>3. CASE phase = "walk" /\ ~SunSpec!ReadingBody /\ SunSpec!MoreModels
               /\ SunSpec!Issue(SunSpec!Read(currentAddr, 2))
      BY <3>3 DEF SunSpec!Read, SunSpec!MoreModels
    <3>4. QED
      BY <1>10, <3>1, <3>2, <3>3 DEF SunSpec!IssueRead
  <2>3. task = SunSpec!NoTask /\ task' = t /\ requests' \in Nat
        /\ (requests' = requests \/ requests' = requests + 1)
    BY <1>5, <2>2
  <2>4. task' # SunSpec!NoTask'
    BY <1>2, <2>2, <2>3 DEF SunSpec!NoTask, SunSpec!Read
  <2>5. PICK r \in Nat : r = requests'
    BY <2>3
  <2>6. r <= requests + 1
    BY <1>1, <2>3, <2>5
  <2>7. phase = "detect" => r <= baseIndex
    BY <1>1, <2>3, <2>6 DEF SunSpecCostInv
  <2>8. phase = "walk" => r + blocks <= len + paid + 1
    <3>1. phase = "walk" => requests + blocks <= len + paid
      BY <1>6, <1>8, <1>9, <2>3 DEF SunSpecCostInv
    <3>2. QED
      BY <1>1, <2>6, <3>1
  <2>9. SunSpec!ReadingBody' = SunSpec!ReadingBody /\ SunSpec!Chunk' = SunSpec!Chunk
    BY <2>1 DEF SunSpec!ReadingBody, SunSpec!Chunk
  <2>10. phase' = "walk" => IF SunSpec!ReadingBody' THEN task'.count = SunSpec!Chunk' ELSE modelCount' < choice'.maxModels
    BY <2>1, <2>2, <2>3, <2>9
  <2>11. phase' = "walk" => requests' + SunSpec!Blocks(body'.left) <= Len(choice'.bases) + modelCount' * ModelCost + 1
    BY <1>6, <1>8, <1>9, <2>1, <2>5, <2>8
  <2>12. phase' = "detect" => requests' <= baseIndex' - 0
    BY <1>1, <2>1, <2>5, <2>7
  <2>13. QED
    BY <1>1, <1>2, <2>1, <2>2, <2>4, <2>5, <2>10, <2>11, <2>12
    DEF SunSpecCostInv, ModelCost, SunSpec!Blocks
<1>11. CASE SunSpec!Stop \/ SunSpec!ChainEnds
  <2>1. /\ phase' = "done" /\ UNCHANGED <<choice, modelCount, requests>>
    BY <1>4, <1>11 DEF SunSpec!Stop, SunSpec!ChainEnds, SunSpec!Leave
  <2>2. QED
    BY <1>1, <1>2, <1>3, <2>1 DEF SunSpecCostInv
<1>12. CASE SunSpec!MarkerFound
  <2>1. /\ phase = "detect" /\ phase' = "walk" /\ UNCHANGED <<choice, modelCount, body, requests>>
        /\ task # SunSpec!NoTask /\ task' = SunSpec!NoTask
    BY <1>4, <1>12 DEF SunSpec!MarkerFound
  <2>2. requests <= len /\ blocks = 0
    <3>1. ~SunSpec!ReadingBody /\ baseIndex <= len
      BY <1>6, <2>1 DEF SunSpecInv, DetectInv
    <3>2. body.left = 0
      BY <1>1, <3>1 DEF SunSpec!ReadingBody
    <3>3. requests <= baseIndex
      BY <1>1, <2>1 DEF SunSpecCostInv
    <3>4. QED
      BY <1>1, <1>9, <3>1, <3>2, <3>3, BlocksFacts
  <2>3. requests + blocks <= len + paid
    BY <1>1, <2>2
  <2>4. requests' + SunSpec!Blocks(body'.left) <= Len(choice'.bases) + modelCount' * ModelCost + 0
    BY <1>6, <1>8, <1>9, <2>1, <2>3
  <2>5. QED
    BY <1>1, <1>2, <2>1, <2>4 DEF SunSpecCostInv, ModelCost, SunSpec!Blocks
<1>13. CASE SunSpec!MarkerMissing
  <2>1. /\ phase = "detect" /\ phase' # "walk" /\ UNCHANGED <<choice, modelCount, requests>>
        /\ task # SunSpec!NoTask /\ task' = SunSpec!NoTask /\ baseIndex' = baseIndex + 1
    BY <1>4, <1>13 DEF SunSpec!MarkerMissing
  <2>2. requests <= baseIndex
    BY <1>1, <2>1 DEF SunSpecCostInv
  <2>3. \A b \in Int : b = baseIndex + 1 => requests <= b - 1
    BY <1>1, <2>2
  <2>4. requests' <= baseIndex' - 1
    BY <1>1, <2>1, <2>3
  <2>5. QED
    BY <1>1, <1>2, <1>3, <2>1, <2>4 DEF SunSpecCostInv
<1>14. CASE \E n \in 1 .. AddrMax : SunSpec!HeaderAt(n)
  <2>1. PICK n \in 1 .. AddrMax : SunSpec!HeaderAt(n)
    BY <1>14
  <2>2. /\ phase = "walk" /\ phase' = "walk" /\ UNCHANGED <<choice, requests>>
           /\ ~SunSpec!ReadingBody
        /\ task # SunSpec!NoTask /\ task' = SunSpec!NoTask /\ modelCount' = modelCount + 1
        /\ body'.left = n /\ currentAddr + 2 + n <= AddrMax
    BY <1>4, <2>1 DEF SunSpec!HeaderAt
  <2>3. n \in Nat /\ n <= AddrMax - 2 /\ AddrMax - 2 \in Nat
    BY <1>1, <2>2, Bounds, ChoiceFacts
  <2>4. modelCount < choice.maxModels
    BY <2>2 DEF SunSpecCostInv
  <2>5. PICK left_ \in Nat : left_ = SunSpec!Blocks(n)
    BY <2>3, BlocksFacts
  <2>6. left_ + 1 <= ModelCost
    <3>1. SunSpec!Blocks(n) <= SunSpec!Blocks(AddrMax - 2) /\ SunSpec!Blocks(AddrMax - 2) \in Nat
      BY <2>3, BlocksFacts
    <3>2. QED
      BY <2>5, <3>1 DEF ModelCost
  <2>7. requests <= len + paid + 1
    <3>1. requests + blocks <= len + paid + 1
      BY <1>6, <1>8, <1>9, <2>2 DEF SunSpecCostInv
    <3>2. QED
      BY <1>1, <3>1
  <2>8. requests + left_ <= len + (paid + ModelCost)
    BY <1>1, <1>7, <2>6, <2>7
  <2>9. (modelCount + 1) * ModelCost = paid + ModelCost
    BY <1>1, <1>8, ModelFacts
  <2>10. requests' + SunSpec!Blocks(body'.left) <= Len(choice'.bases) + modelCount' * ModelCost + 0
    <3>1. modelCount' * ModelCost = paid + ModelCost
      BY <2>2, <2>9
    <3>2. SunSpec!Blocks(body'.left) = left_ /\ requests' = requests /\ Len(choice'.bases) = len
      BY <1>6, <2>2, <2>5
    <3>3. len + (paid + ModelCost) + 0 = len + (paid + ModelCost)
      BY <1>7
    <3>4. QED
      BY <2>8, <3>1, <3>2, <3>3
  <2>11. \A m \in Int : m = modelCount + 1 => m \in Nat /\ m <= choice.maxModels
    BY <1>1, <1>7, <2>4
  <2>12. modelCount' \in Nat /\ modelCount' <= choice'.maxModels
    BY <1>1, <2>2, <2>11
  <2>13. QED
    BY <1>1, <1>2, <2>2, <2>10, <2>12 DEF SunSpecCostInv, ModelCost, SunSpec!Blocks
<1>15. CASE SunSpec!BodyResult
  <2>1. /\ phase = "walk" /\ UNCHANGED <<choice, requests, modelCount>> /\ SunSpec!ReadingBody
        /\ task # SunSpec!NoTask /\ task' = SunSpec!NoTask
    BY <1>4, <1>15 DEF SunSpec!BodyResult
  <2>2. CASE phase' = "done"
    BY <1>1, <1>2, <1>3, <2>1, <2>2 DEF SunSpecCostInv
  <2>3. CASE phase' = phase
             /\ body' = [addr |-> body.addr + task.count, left |-> body.left - task.count]
    <3>1. task.count = SunSpec!Chunk /\ body.left > 0
      BY <2>1 DEF SunSpecCostInv, SunSpec!ReadingBody
    <3>2. requests + blocks <= len + paid + 1
      BY <1>6, <1>8, <1>9, <2>1 DEF SunSpecCostInv
    <3>3. PICK rest \in Nat : rest = body.left - SunSpec!Chunk /\ SunSpec!Blocks(rest) + 1 = blocks
      <4>1. CASE body.left < MaxBlock
        <5>1. body.left - SunSpec!Chunk = 0
          BY <1>1, <4>1 DEF SunSpec!Chunk
        <5>2. QED
          BY <1>1, <1>9, <3>1, <4>1, <5>1, BlocksFacts, Bounds
      <4>2. CASE MaxBlock <= body.left
        <5>1. SunSpec!Chunk = MaxBlock /\ body.left - MaxBlock \in Nat
          BY <1>1, <4>2, Bounds DEF SunSpec!Chunk
        <5>2. SunSpec!Blocks(body.left) = SunSpec!Blocks(body.left - MaxBlock) + 1
          BY <1>1, <4>2, BlocksFacts
        <5>3. QED
          BY <1>9, <5>1, <5>2
      <4>3. QED
        BY <1>1, <4>1, <4>2, Bounds
    <3>4. SunSpec!Blocks(rest) \in Nat
      BY BlocksFacts
    <3>5. requests + SunSpec!Blocks(rest) <= len + paid
      BY <1>1, <3>2, <3>3, <3>4
    <3>6. body'.left = rest
      BY <2>3, <3>1, <3>3
    <3>7. requests' + SunSpec!Blocks(body'.left) <= Len(choice'.bases) + modelCount' * ModelCost + 0
      BY <1>6, <1>8, <2>1, <3>5, <3>6
    <3>8. QED
      BY <1>1, <1>2, <2>1, <2>3, <3>7 DEF SunSpecCostInv, ModelCost, SunSpec!Blocks
  <2>4. QED
    BY <1>15, <2>2, <2>3 DEF SunSpec!BodyResult
<1>16. QED
  BY <1>10, <1>11, <1>12, <1>13, <1>14, <1>15 DEF SunSpec!Next

\* Every step of sunspec keeps to the bound.
LEMMA SunSpecCostStep == SunSpecInv /\ SunSpecCostInv /\ [SunSpec!Next]_(SunSpec!vars) => SunSpecCostInv'
<1> SUFFICES ASSUME SunSpecInv, SunSpecCostInv, UNCHANGED SunSpec!vars PROVE SunSpecCostInv'
  BY SunSpecCostNext
<1>1. UNCHANGED <<requests, modelCount, choice, phase, baseIndex, task, body>>
  BY DEF SunSpec!vars, SunSpec!loopVars, SunSpec!strategyVars
<1>2. QED
  BY <1>1 DEF SunSpecCostInv, SunSpec!NoTask, SunSpec!Read, SunSpec!Blocks, ModelCost, MostReads,
    SunSpec!ReadingBody, SunSpec!Chunk
-----------------------------------------------------------------------------
(* The stepped strategy.                                                  *)

\* The reads that stay within one register of the range.
NearReads ==
  {t \in [start : Int, count : 1 .. MaxBlock] : Stepped!ProbeFloor <= t.start /\ Stepped!LastOf(t) <= Stepped!ProbeCeiling}

\* A hit is where a probe was answered, and nothing is expanded without one.
SteppedInv ==
  /\ task # Stepped!NoTask => task \in NearReads
  /\ probeIndex \in Nat /\ expandIndex \in Nat
  /\ hitAddr \in Int
  /\ hasHit => Stepped!ProbeFloor <= hitAddr
  /\ expandIndex > 0 => Stepped!ProbeFloor <= hitAddr

\* The floor and the ceiling of the probes are the range and its neighbours.
LEMMA NearFacts ==
  /\ Stepped!ProbeFloor \in Int /\ 0 <= Stepped!ProbeFloor
     /\ StartAddress - 1 <= Stepped!ProbeFloor /\ Stepped!ProbeFloor <= Stepped!ProbeCeiling
  /\ Stepped!ProbeCeiling \in Int /\ Stepped!ProbeCeiling <= AddrMax
     /\ EndAddress <= Stepped!ProbeCeiling
  /\ Stepped!ProbeCeiling <= EndAddress + 1
  BY Bounds DEF Stepped!ProbeFloor, Stepped!ProbeCeiling

\* The probes of a position are clamped to the range and its neighbours.
LEMMA ProbeIsNear == ASSUME NEW a, NEW n \in 1 .. 2 PROVE Stepped!Probe(a, n) \in Seq(NearReads)
<1>1. CASE a \in Stepped!Addr
           /\ Stepped!LastOf(Stepped!Read(Stepped!Clamp(a), n)) <= Stepped!ProbeCeiling
  <2>1. a \in Int
    BY <1>1 DEF Stepped!Addr
  <2>2. Stepped!Clamp(a) \in Int /\ Stepped!ProbeFloor <= Stepped!Clamp(a)
    BY <2>1, NearFacts DEF Stepped!Clamp
  <2>3. Stepped!Read(Stepped!Clamp(a), n) = [start |-> Stepped!Clamp(a), count |-> n]
    BY DEF Stepped!Read
  <2>4. Stepped!Read(Stepped!Clamp(a), n) \in NearReads
    BY <1>1, <2>2, <2>3, Bounds DEF NearReads
  <2>5. Stepped!Probe(a, n) = <<Stepped!Read(Stepped!Clamp(a), n)>>
    BY <1>1 DEF Stepped!Probe
  <2>6. QED
    BY <2>4, <2>5
<1>2. CASE ~(a \in Stepped!Addr /\ Stepped!LastOf(Stepped!Read(Stepped!Clamp(a), n)) <= Stepped!ProbeCeiling)
  <2>1. Stepped!Probe(a, n) = << >>
    BY <1>2 DEF Stepped!Probe
  <2>2. QED
    BY <2>1
<1>3. QED
  BY <1>1, <1>2

\* The two probes at an address are near the range ...
LEMMA ProbesAtNear == ASSUME NEW a PROVE Stepped!ProbesAt(a) \in Seq(NearReads)
<1>1. Stepped!Probe(a, 1) \in Seq(NearReads) /\ Stepped!Probe(a, 2) \in Seq(NearReads)
  BY ProbeIsNear
<1>2. QED
  BY <1>1, ConcatProperties DEF Stepped!ProbesAt

\* ... and so are all those of a position.
LEMMA ProbesAreNear == Stepped!probeTasks \in Seq(NearReads)
<1>1. CASE Stepped!MoreSteps
  <2> DEFINE pos == CHOOSE p \in Stepped!Current : TRUE
  <2>1. pos \in Stepped!Current
    BY <1>1 DEF Stepped!MoreSteps
  <2>2. pos \in Stepped!Addr
    BY <2>1, Bounds DEF Stepped!Current, Stepped!stepPositions, Stepped!Addr
  <2>3. Stepped!probeTasks = Stepped!ProbeTasks[pos]
    BY <1>1 DEF Stepped!probeTasks
  <2> HIDE DEF pos
  <2>4. Stepped!ProbeTasks[pos] = Stepped!ProbesAt(pos - 1) \o Stepped!ProbesAt(pos) \o Stepped!ProbesAt(pos + 1)
    BY <2>2 DEF Stepped!ProbeTasks
  <2>5. /\ Stepped!ProbesAt(pos - 1) \in Seq(NearReads) /\ Stepped!ProbesAt(pos) \in Seq(NearReads)
        /\ Stepped!ProbesAt(pos + 1) \in Seq(NearReads)
    BY ProbesAtNear
  <2>6. Stepped!ProbesAt(pos - 1) \o Stepped!ProbesAt(pos) \in Seq(NearReads)
    BY <2>5, ConcatProperties
  <2>7. QED
    BY <2>3, <2>4, <2>5, <2>6, ConcatProperties
<1>2. CASE ~Stepped!MoreSteps
  BY <1>2 DEF Stepped!probeTasks
<1>3. QED
  BY <1>1, <1>2

\* The invariant of stepped holds at the start.
LEMMA SteppedInit == Stepped!Init => SteppedInv
  BY DEF Stepped!Init, Stepped!LoopInit, SteppedInv

\* After GoToNextStep there is no hit.
LEMMA NextPosition ==
  ASSUME Stepped!GoToNextStep, task' = task \/ task' = Stepped!NoTask, SteppedInv PROVE SteppedInv'
<1>1. probeIndex' = 0 /\ hasHit' = FALSE /\ hitAddr' = 0 /\ expandIndex' = 0
  BY DEF Stepped!GoToNextStep
<1>2. (task # Stepped!NoTask => task \in NearReads)'
  BY DEF SteppedInv, NearReads, Stepped!ProbeFloor, Stepped!ProbeCeiling, Stepped!LastOf,
    Stepped!NoTask
<1>3. QED
  BY <1>1, <1>2 DEF SteppedInv

\* The invariant is inductive.
LEMMA SteppedStepInv == SteppedInv /\ [Stepped!Next]_(Stepped!vars) => SteppedInv'
<1> SUFFICES ASSUME SteppedInv, [Stepped!Next]_(Stepped!vars) PROVE SteppedInv'
  OBVIOUS
<1>0. /\ probeIndex \in Nat /\ expandIndex \in Nat /\ hitAddr \in Int
      /\ hasHit => Stepped!ProbeFloor <= hitAddr
      /\ expandIndex > 0 => Stepped!ProbeFloor <= hitAddr
  BY DEF SteppedInv
<1>1. CASE Stepped!IssueProbe
  <2>1. /\ probeIndex < Len(Stepped!probeTasks) /\ task' = Stepped!probeTasks[probeIndex + 1]
        /\ probeIndex' = probeIndex + 1 /\ UNCHANGED <<hasHit, hitAddr, expandIndex>>
    BY <1>1 DEF Stepped!IssueProbe, Stepped!MoreProbes, Stepped!Issue
  <2>2. Stepped!probeTasks \in Seq(NearReads)
    BY ProbesAreNear
  <2>3. Stepped!probeTasks[probeIndex + 1] \in NearReads
    <3>1. Len(Stepped!probeTasks) \in Nat
      BY <2>2
    <3>2. probeIndex + 1 \in 1 .. Len(Stepped!probeTasks)
      BY <1>0, <2>1, <3>1
    <3>3. QED
      BY <2>2, <3>2, ElementOfSeq
  <2>4. QED
    BY <1>0, <2>1, <2>3 DEF SteppedInv
<1>2. CASE Stepped!Expand
  <2>1. PICK i \in Stepped!FittingFrom(expandIndex) :
          Stepped!Issue(Stepped!Read(hitAddr, SteppedSizes[i])) /\ expandIndex' = i
    BY <1>2 DEF Stepped!Expand
  <2>2. UNCHANGED <<probeIndex, hasHit, hitAddr>> /\ Stepped!ReadyToExpand
    BY <1>2 DEF Stepped!Expand
  <2>3. Stepped!ProbeFloor <= hitAddr
    BY <1>0, <2>2 DEF Stepped!ReadyToExpand
  <2>4. i \in DOMAIN SteppedSizes /\ Stepped!Fits(hitAddr, SteppedSizes[i])
    BY <2>1 DEF Stepped!FittingFrom
  <2>5. i \in Nat /\ SteppedSizes[i] \in 1 .. MaxBlock
    <3> DEFINE Sizes == 1 .. MaxBlock
    <3>1. SteppedSizes \in Seq(Sizes)
      BY SteppedAssumption
    <3> HIDE DEF Sizes
    <3>2. i \in 1 .. Len(SteppedSizes) /\ Len(SteppedSizes) \in Nat
      BY <2>4, <3>1
    <3>3. SteppedSizes[i] \in Sizes
      BY <3>1, <3>2, ElementOfSeq
    <3>4. QED
      BY <3>2, <3>3, Bounds DEF Sizes
  <2>6. task' = [start |-> hitAddr, count |-> SteppedSizes[i]]
    BY <2>1 DEF Stepped!Issue, Stepped!Read
  <2>7. hitAddr + SteppedSizes[i] - 1 <= Stepped!ProbeCeiling
    BY <1>0, <2>4, <2>5, NearFacts, Bounds DEF Stepped!Fits
  <2>8. task' \in NearReads
    BY <1>0, <2>3, <2>5, <2>6, <2>7 DEF NearReads, Stepped!LastOf
  <2>9. QED
    BY <1>0, <2>1, <2>2, <2>3, <2>5, <2>8 DEF SteppedInv
<1>3. CASE Stepped!NothingFits \/ Stepped!NoHit
  BY <1>3, NextPosition DEF Stepped!NothingFits, Stepped!NoHit, Stepped!loopVars
<1>4. CASE Stepped!Finish
  BY <1>4 DEF Stepped!Finish, Stepped!Leave, Stepped!strategyVars, SteppedInv
<1>5. CASE Stepped!ProbeResult
  <2>1. /\ UNCHANGED <<probeIndex, expandIndex>> /\ task' = Stepped!NoTask /\ task # Stepped!NoTask
        /\ expandIndex = 0
    BY <1>5 DEF Stepped!ProbeResult, Stepped!Answered, Stepped!Refused
  <2>2. CASE UNCHANGED <<hasHit, hitAddr>>
    BY <1>0, <2>1, <2>2 DEF SteppedInv
  <2>3. CASE hitAddr' = task.start
    <3>1. task \in NearReads
      BY <2>1 DEF SteppedInv
    <3>2. task.start \in Int /\ Stepped!ProbeFloor <= task.start
      BY <3>1 DEF NearReads
    <3>3. QED
      BY <1>0, <2>1, <2>3, <3>2 DEF SteppedInv
  <2>4. QED
    BY <1>5, <2>2, <2>3 DEF Stepped!ProbeResult
<1>6. CASE Stepped!ExpansionSuccess
  BY <1>6, NextPosition DEF Stepped!ExpansionSuccess, Stepped!Answered
<1>7. CASE Stepped!ExpansionFailure
  <2>1. task' = Stepped!NoTask /\ expandIndex > 0
    BY <1>7 DEF Stepped!ExpansionFailure, Stepped!Refused
  <2>2. CASE Stepped!GoToNextStep
    BY <2>1, <2>2, NextPosition
  <2>3. CASE expandIndex' = Stepped!NextSize /\ UNCHANGED <<stepIndex, probeIndex, hasHit, hitAddr>>
    BY <1>0, <2>1, <2>3 DEF SteppedInv, Stepped!NextSize
  <2>4. QED
    BY <1>7, <2>2, <2>3 DEF Stepped!ExpansionFailure
<1>8. CASE UNCHANGED Stepped!vars
  BY <1>8 DEF Stepped!vars, Stepped!strategyVars, Stepped!loopVars, SteppedInv
<1>9. QED
  BY <1>1, <1>2, <1>3, <1>4, <1>5, <1>6, <1>7, <1>8 DEF Stepped!Next

\* What the invariant says of the reads.
LEMMA SteppedMeans == SteppedInv => Stepped!ReadsStayNearRange
<1> SUFFICES ASSUME SteppedInv, task # Stepped!NoTask
             PROVE  Stepped!Covered(task) \subseteq Stepped!Addr \cap (StartAddress - 1 .. EndAddress + 1)
  BY DEF Stepped!ReadsStayNearRange
<1>1. task \in NearReads
  BY DEF SteppedInv
<1>2. task.start \in Int /\ task.count \in Int /\ Stepped!ProbeFloor <= task.start
      /\ Stepped!LastOf(task) <= Stepped!ProbeCeiling
  BY <1>1 DEF NearReads
<1>3. QED
  BY <1>2, NearFacts, Bounds DEF Stepped!Covered, Stepped!LastOf, Stepped!Addr
-----------------------------------------------------------------------------
(* What stepped costs: so much for each of its positions, of which there  *)
(* are finitely many, in ascending order.                                  *)

StepRank(p) == Cardinality({q \in Stepped!stepPositions : q < p})
StepCount == Cardinality(Stepped!stepPositions)

\* The step positions are finitely many registers up to the end of the range.
LEMMA PositionsFacts ==
  /\ IsFiniteSet(Stepped!stepPositions) /\ StepCount \in Nat
  /\ Stepped!stepPositions \subseteq Stepped!Addr
  /\ Stepped!Cardinality(Stepped!stepPositions) = StepCount
<1>1. IsFiniteSet(0 .. EndAddress)
  BY Bounds, FS_Interval
<1>2. Stepped!stepPositions \in SUBSET (0 .. EndAddress)
  BY DEF Stepped!stepPositions
<1>3. IsFiniteSet(Stepped!stepPositions)
  BY <1>1, <1>2, FS_Subset
<1>4. StepCount \in Nat
  BY <1>3, FS_CardinalityType DEF StepCount
<1>5. \A p \in 0 .. EndAddress : p \in Stepped!Addr
  BY Bounds DEF Stepped!Addr
<1>6. Stepped!Cardinality(Stepped!stepPositions) = StepCount
  BY DEF StepCount, Stepped!Cardinality, Cardinality
<1>7. QED
  BY <1>2, <1>3, <1>4, <1>5, <1>6

\* A position is preceded by fewer than there are, and by fewer than the
\* positions above it.
LEMMA RankFacts ==
  /\ \A p \in Stepped!stepPositions : StepRank(p) \in 0 .. StepCount - 1
  /\ \A p, q \in Stepped!stepPositions : p < q => StepRank(p) < StepRank(q)
<1> DEFINE Below(p) == {q \in Stepped!stepPositions : q < p}
<1>1. \A p : Below(p) \in SUBSET Stepped!stepPositions
  OBVIOUS
<1>2. \A p : IsFiniteSet(Below(p)) /\ Cardinality(Below(p)) \in Nat /\ StepRank(p) = Cardinality(Below(p))
  BY <1>1, PositionsFacts, FS_Subset, FS_CardinalityType DEF StepRank
<1>3. ASSUME NEW p \in Stepped!stepPositions, NEW S \in SUBSET Stepped!stepPositions, p \in S,
             \A q \in Below(p) : q \in S
      PROVE  StepRank(p) < Cardinality(S) /\ Cardinality(S) \in Nat
  <2>1. IsFiniteSet(S)
    BY PositionsFacts, FS_Subset
  <2>2. p \notin Below(p)
    BY PositionsFacts DEF Stepped!Addr
  <2>3. Below(p) \in SUBSET S
    BY <1>3
  <2> HIDE DEF Below
  <2>4. Cardinality(Below(p)) <= Cardinality(S) /\ (Cardinality(S) = Cardinality(Below(p)) => S = Below(p))
    BY <2>1, <2>3, FS_Subset
  <2>5. Cardinality(S) \in Nat
    BY <2>1, FS_CardinalityType
  <2>6. Cardinality(S) # Cardinality(Below(p))
    BY <1>3, <2>2, <2>4
  <2>7. QED
    BY <1>2, <2>4, <2>5, <2>6
<1>4. ASSUME NEW p \in Stepped!stepPositions PROVE StepRank(p) \in 0 .. StepCount - 1
  <2>1. StepRank(p) < Cardinality(Stepped!stepPositions)
    BY <1>3
  <2>2. StepRank(p) \in Nat
    BY <1>2
  <2>3. QED
    BY <2>1, <2>2, PositionsFacts DEF StepCount
<1>5. ASSUME NEW p \in Stepped!stepPositions, NEW q \in Stepped!stepPositions, p < q
      PROVE  StepRank(p) < StepRank(q)
  <2>1. p \in Int /\ q \in Int
    BY PositionsFacts DEF Stepped!Addr
  <2>2. p \in Below(q)
    BY <1>5
  <2>3. \A r \in Below(p) : r \in Below(q)
    BY <1>5, <2>1, PositionsFacts DEF Stepped!Addr
  <2>4. StepRank(p) < Cardinality(Below(q))
    BY <1>1, <1>3, <2>2, <2>3
  <2>5. QED
    BY <1>2, <2>4
<1>6. QED
  BY <1>4, <1>5

\* Two positions have different ranks ...
LEMMA RankIsUnique ==
  \A p, q \in Stepped!stepPositions : StepRank(p) = StepRank(q) => p = q
<1> SUFFICES ASSUME NEW p \in Stepped!stepPositions, NEW q \in Stepped!stepPositions,
                    StepRank(p) = StepRank(q)
             PROVE  p = q
  OBVIOUS
<1>1. p \in Int /\ q \in Int
  BY PositionsFacts DEF Stepped!Addr
<1>2. StepRank(p) \in Int /\ StepRank(q) \in Int
  BY RankFacts
<1>3. ~(p < q) /\ ~(q < p)
  BY <1>2, RankFacts
<1>4. QED
  BY <1>1, <1>3

\* ... so there is one of every rank.
LEMMA EveryRank == \A n \in 0 .. StepCount - 1 : \E p \in Stepped!stepPositions : StepRank(p) = n
<1> DEFINE T == 0 .. StepCount - 1
           f == [p \in Stepped!stepPositions |-> StepRank(p)]
<1>1. f \in Injection(Stepped!stepPositions, T)
  BY RankFacts, RankIsUnique DEF Injection, IsInjective
<1>2. IsFiniteSet(T) /\ Cardinality(T) = StepCount
  <2>1. \A x, y \in Int : IsFiniteSet(x .. y) /\ Cardinality(x .. y) = IF x > y THEN 0 ELSE y - x + 1
    BY FS_Interval
  <2>2. StepCount \in Nat
    BY PositionsFacts
  <2>3. PICK n \in Int : n = StepCount - 1
    BY <2>2
  <2>4. IsFiniteSet(0 .. n) /\ Cardinality(0 .. n) = IF 0 > n THEN 0 ELSE n - 0 + 1
    BY <2>1
  <2>5. QED
    BY <2>2, <2>3, <2>4
<1>3. f \in Surjection(Stepped!stepPositions, T)
  <2> HIDE DEF T, f
  <2>1. Cardinality(Stepped!stepPositions) = Cardinality(T)
    BY <1>2 DEF StepCount
  <2>2. QED
    BY <1>1, <1>2, <2>1, FS_Injection
<1>4. QED
  BY <1>3 DEF Surjection

\* The current position is the one of the rank of the index, and there is one
\* until the index has passed them all.
LEMMA CurrentFacts ==
  ASSUME stepIndex \in 1 .. StepCount + 1
  PROVE  /\ \A p : p \in Stepped!Current <=> p \in Stepped!stepPositions /\ StepRank(p) = stepIndex - 1
         /\ Stepped!MoreSteps <=> stepIndex <= StepCount
<1>1. \A p : Stepped!Cardinality({q \in Stepped!stepPositions : q < p}) = StepRank(p)
  BY DEF StepRank, Stepped!Cardinality, Cardinality
<1>2. \A p : p \in Stepped!Current <=> p \in Stepped!stepPositions /\ StepRank(p) = stepIndex - 1
  BY <1>1 DEF Stepped!Current
<1>3. StepCount \in Nat
  BY PositionsFacts
<1>4. Stepped!MoreSteps => stepIndex <= StepCount
  BY <1>2, <1>3, RankFacts DEF Stepped!MoreSteps
<1>5. stepIndex <= StepCount => Stepped!MoreSteps
  BY <1>2, <1>3, EveryRank DEF Stepped!MoreSteps
<1>6. QED
  BY <1>2, <1>4, <1>5

\* There are at most six probes of a position.
LEMMA SixProbes == Len(Stepped!probeTasks) \in Nat /\ Len(Stepped!probeTasks) <= 6
<1>1. ASSUME NEW a, NEW n \in 1 .. 2
      PROVE  Stepped!Probe(a, n) \in Seq(NearReads) /\ Len(Stepped!Probe(a, n)) <= 1
  <2>1. Stepped!Probe(a, n) = << >> \/ \E t : Stepped!Probe(a, n) = <<t>>
    BY DEF Stepped!Probe
  <2>2. Len(<< >>) <= 1 /\ \A t : Len(<<t>>) <= 1
    OBVIOUS
  <2>3. Len(Stepped!Probe(a, n)) <= 1
    BY <2>1, <2>2, Zenon
  <2>4. QED
    BY <1>1, <2>3, ProbeIsNear
<1>2. ASSUME NEW a PROVE Stepped!ProbesAt(a) \in Seq(NearReads) /\ Len(Stepped!ProbesAt(a)) <= 2
  <2>1. /\ Stepped!Probe(a, 1) \in Seq(NearReads) /\ Len(Stepped!Probe(a, 1)) <= 1
        /\ Stepped!Probe(a, 2) \in Seq(NearReads) /\ Len(Stepped!Probe(a, 2)) <= 1
    BY <1>1
  <2>2. Len(Stepped!Probe(a, 1) \o Stepped!Probe(a, 2)) = Len(Stepped!Probe(a, 1)) + Len(Stepped!Probe(a, 2))
    BY <2>1, ConcatProperties
  <2>3. QED
    BY <2>1, <2>2, ProbesAtNear, LenProperties DEF Stepped!ProbesAt
<1>3. CASE Stepped!MoreSteps
  <2> DEFINE pos == CHOOSE p \in Stepped!Current : TRUE
             low == Stepped!ProbesAt(pos - 1)
             mid == Stepped!ProbesAt(pos)
             high == Stepped!ProbesAt(pos + 1)
  <2>1. pos \in Stepped!Current
    BY <1>3 DEF Stepped!MoreSteps
  <2>2. pos \in Stepped!Addr
    BY <2>1, Bounds DEF Stepped!Current, Stepped!stepPositions, Stepped!Addr
  <2>3. Stepped!probeTasks = Stepped!ProbeTasks[pos]
    BY <1>3 DEF Stepped!probeTasks
  <2>4. /\ low \in Seq(NearReads) /\ Len(low) <= 2 /\ mid \in Seq(NearReads) /\ Len(mid) <= 2
        /\ high \in Seq(NearReads) /\ Len(high) <= 2
    BY <1>2
  <2> HIDE DEF pos
  <2>5. Stepped!ProbeTasks[pos] = low \o mid \o high
    BY <2>2 DEF Stepped!ProbeTasks
  <2> HIDE DEF low, mid, high
  <2>6. low \o mid \in Seq(NearReads) /\ Len(low \o mid) = Len(low) + Len(mid)
    BY <2>4, ConcatProperties
  <2>7. low \o mid \o high \in Seq(NearReads)
        /\ Len(low \o mid \o high) = Len(low \o mid) + Len(high)
    BY <2>4, <2>6, ConcatProperties
  <2>8. Len(low) \in Nat /\ Len(mid) \in Nat /\ Len(high) \in Nat
    BY <2>4
  <2>9. QED
    BY <2>3, <2>4, <2>5, <2>6, <2>7, <2>8
<1>4. CASE ~Stepped!MoreSteps
  <2>1. Stepped!probeTasks = << >>
    BY <1>4 DEF Stepped!probeTasks
  <2>2. QED
    BY <2>1
<1>5. QED
  BY <1>3, <1>4

PositionCost == 6 + Len(SteppedSizes)

\* The expansion reads of the current position so far.
Expansions == IF expandIndex > 0 /\ task = Stepped!NoTask THEN expandIndex - 1 ELSE expandIndex

\* Where stepped is: past the last position there is nothing left to do.
SteppedTypes ==
  /\ requests \in Nat
  /\ stepIndex \in 1 .. StepCount + 1
  /\ probeIndex \in 0 .. 6 /\ expandIndex \in 0 .. Len(SteppedSizes) /\ hasHit \in BOOLEAN
  /\ stepIndex > StepCount => probeIndex = 0 /\ expandIndex = 0

\* A position has cost its probes and its expansions, the positions before it
\* at most all of theirs; without a hit there are no expansions.
SteppedCostInv ==
  /\ SteppedTypes
  /\ requests <= (stepIndex - 1) * PositionCost + probeIndex + Expansions
  /\ captured = {} =>
       ~hasHit /\ expandIndex = 0 /\ requests <= (stepIndex - 1) * 6 + probeIndex

\* What a position costs.
LEMMA PositionCosts ==
  /\ Len(SteppedSizes) \in Nat /\ PositionCost \in Nat
  /\ \A n \in Nat : n * PositionCost \in Nat /\ (n + 1) * PositionCost = n * PositionCost + PositionCost
  /\ \A n, m \in Nat : n <= m => n * PositionCost <= m * PositionCost
<1>1. Len(SteppedSizes) \in Nat
  BY SteppedAssumption
<1>2. PositionCost \in Nat
  BY <1>1 DEF PositionCost
<1>3. \A k \in Nat : \A n \in Nat : n * k \in Nat /\ (n + 1) * k = n * k + k
  OBVIOUS
<1>4. \A k \in Nat : \A n, m \in Nat : n <= m => n * k <= m * k
  OBVIOUS
<1>5. QED
  BY <1>1, <1>2, <1>3, <1>4

\* The bound holds at the start.
LEMMA SteppedCostInit == Stepped!Init => SteppedCostInv
<1> SUFFICES ASSUME Stepped!Init PROVE SteppedCostInv
  OBVIOUS
<1>1. /\ requests = 0 /\ stepIndex = 1 /\ probeIndex = 0 /\ hasHit = FALSE /\ expandIndex = 0
  BY DEF Stepped!Init, Stepped!LoopInit
<1>2. SteppedTypes
  <2>1. hasHit \in BOOLEAN
    BY <1>1, Zenon
  <2>2. /\ requests \in Nat /\ stepIndex \in 1 .. StepCount + 1
        /\ probeIndex \in 0 .. 6 /\ expandIndex \in 0 .. Len(SteppedSizes)
    BY <1>1, PositionCosts, PositionsFacts
  <2>3. QED
    BY <1>1, <2>1, <2>2, Zenon DEF SteppedTypes
<1>3. PICK none \in Nat : none = (stepIndex - 1) * PositionCost
  <2>1. stepIndex - 1 = 0
    BY <1>1
  <2>2. QED
    BY <2>1, PositionCosts
<1>4. Expansions = 0
  BY <1>1 DEF Expansions
<1>5. requests <= (stepIndex - 1) * PositionCost + probeIndex + Expansions
  BY <1>1, <1>3, <1>4
<1>6. requests <= (stepIndex - 1) * 6 + probeIndex
  BY <1>1
<1>7. QED
  BY <1>1, <1>2, <1>5, <1>6 DEF SteppedCostInv

\* What that says of the bounds of the scan.
LEMMA SteppedCostBounds == SteppedCostInv => Stepped!ReadsBounded
<1> SUFFICES ASSUME SteppedCostInv PROVE Stepped!ReadsBounded
  OBVIOUS
<1>1. /\ requests \in Nat /\ stepIndex \in 1 .. StepCount + 1
      /\ probeIndex \in 0 .. 6 /\ expandIndex \in 0 .. Len(SteppedSizes)
      /\ stepIndex > StepCount => probeIndex = 0 /\ expandIndex = 0
  BY DEF SteppedCostInv, SteppedTypes
<1>2. StepCount \in Nat /\ Len(SteppedSizes) \in Nat /\ PositionCost \in Nat
  BY PositionsFacts, PositionCosts
<1>3. PICK before \in Nat : before = stepIndex - 1
  BY <1>1
<1>4. PICK spent \in Nat : spent = before * PositionCost
  BY PositionCosts
<1>5. PICK most \in Nat : most = StepCount * PositionCost
  BY <1>2, PositionCosts
<1>6. Expansions \in Nat /\ Expansions <= expandIndex
  BY <1>1, <1>2 DEF Expansions
<1>7. requests <= spent + probeIndex + Expansions
  BY <1>3, <1>4 DEF SteppedCostInv
<1>8. requests <= most
  <2>1. CASE stepIndex > StepCount
    <3>1. before = StepCount /\ Expansions = 0
      BY <1>1, <1>2, <1>3, <1>6, <2>1
    <3>2. QED
      BY <1>1, <1>4, <1>5, <1>7, <2>1, <3>1
  <2>2. CASE stepIndex <= StepCount
    <3>1. before + 1 <= StepCount /\ before + 1 \in Nat
      BY <1>1, <1>2, <1>3, <2>2
    <3>2. (before + 1) * PositionCost = spent + PositionCost
      BY <1>4, PositionCosts
    <3>3. spent + PositionCost <= most
      BY <1>2, <1>5, <3>1, <3>2, PositionCosts
    <3>4. probeIndex + Expansions <= PositionCost
      BY <1>1, <1>2, <1>6 DEF PositionCost
    <3>5. QED
      BY <1>1, <1>2, <1>6, <1>7, <3>3, <3>4
  <2>3. QED
    BY <1>1, <1>2, <2>1, <2>2
<1>9. captured = {} => requests <= 6 * StepCount
  <2>1. SUFFICES ASSUME captured = {} PROVE requests <= 6 * StepCount
    OBVIOUS
  <2>2. requests <= (stepIndex - 1) * 6 + probeIndex
    BY <2>1 DEF SteppedCostInv
  <2>3. QED
    BY <1>1, <1>2, <2>2
<1>10. most = (6 + Len(SteppedSizes)) * StepCount
  BY <1>2, <1>5 DEF PositionCost
<1>11. Stepped!Cardinality(Stepped!stepPositions) = StepCount
  BY PositionsFacts
<1>12. QED
  BY <1>8, <1>9, <1>10, <1>11 DEF Stepped!ReadsBounded

\* The position is left: what it cost is at most what a position may cost.
LEMMA SteppedCostLeft ==
  ASSUME SteppedCostInv, Stepped!GoToNextStep, Stepped!MoreSteps,
         requests' = requests, captured \subseteq captured',
         \/ captured' = captured
         \/ captured' # {}
  PROVE  SteppedCostInv'
<1>1. /\ requests \in Nat /\ stepIndex \in 1 .. StepCount + 1
      /\ probeIndex \in 0 .. 6 /\ expandIndex \in 0 .. Len(SteppedSizes)
  BY DEF SteppedCostInv, SteppedTypes
<1>2. StepCount \in Nat /\ Len(SteppedSizes) \in Nat /\ PositionCost \in Nat
  BY PositionsFacts, PositionCosts
<1>3. stepIndex <= StepCount
  BY <1>1, CurrentFacts
<1>4. stepIndex' = stepIndex + 1 /\ probeIndex' = 0 /\ hasHit' = FALSE /\ expandIndex' = 0
  BY DEF Stepped!GoToNextStep
<1>5. StepCount' = StepCount /\ PositionCost' = PositionCost
  BY DEF StepCount, PositionCost, Cardinality, Stepped!stepPositions, Stepped!IsBase,
    Stepped!IsHalf, Stepped!ScanRange,
    Stepped!Wrap
<1>6. PICK before \in Nat : before = stepIndex - 1
  BY <1>1
<1>7. PICK spent \in Nat : spent = before * PositionCost
  BY PositionCosts
<1>8. Expansions \in Nat /\ Expansions <= expandIndex
  BY <1>1, <1>2 DEF Expansions
<1>9. requests <= spent + probeIndex + Expansions
  BY <1>6, <1>7 DEF SteppedCostInv
<1>10. requests <= spent + PositionCost
  BY <1>1, <1>2, <1>8, <1>9 DEF PositionCost
<1>11. stepIndex * PositionCost = spent + PositionCost
  <2>1. stepIndex = before + 1
    BY <1>1, <1>6
  <2>2. QED
    BY <1>7, <2>1, PositionCosts
<1>12. \A n \in Int : n = stepIndex + 1 => n - 1 = stepIndex /\ n \in 1 .. StepCount + 1
  BY <1>1, <1>2, <1>3
<1>13. stepIndex' - 1 = stepIndex /\ stepIndex' \in 1 .. StepCount + 1
  BY <1>1, <1>4, <1>12
<1>14. Expansions' = 0
  BY <1>4 DEF Expansions
<1>15. requests <= stepIndex * PositionCost + 0 + 0
  BY <1>2, <1>10, <1>11
<1>16. requests' <= (stepIndex' - 1) * PositionCost' + probeIndex' + Expansions'
  BY <1>4, <1>5, <1>13, <1>14, <1>15
<1>17. captured' = {} => requests <= stepIndex * 6 + 0
  <2>1. captured' = {} => captured = {}
    OBVIOUS
  <2>2. captured = {} => requests <= (stepIndex - 1) * 6 + probeIndex
    BY DEF SteppedCostInv
  <2>3. QED
    BY <1>1, <2>1, <2>2
<1>18. captured' = {} => requests' <= (stepIndex' - 1) * 6 + probeIndex'
  BY <1>4, <1>13, <1>17
<1>19. SteppedTypes'
  <2>1. hasHit' \in BOOLEAN
    BY <1>4, Zenon
  <2>2. requests' \in Nat /\ stepIndex' \in 1 .. StepCount' + 1
    BY <1>1, <1>5, <1>13
  <2>3. probeIndex' \in 0 .. 6 /\ expandIndex' \in 0 .. Len(SteppedSizes)
    BY <1>2, <1>4
  <2>4. QED
    BY <1>4, <2>1, <2>2, <2>3, Zenon DEF SteppedTypes
<1>20. QED
  BY <1>4, <1>16, <1>18, <1>19 DEF SteppedCostInv

\* An answer adds to the capture, and nothing takes from it.
LEMMA SteppedCaptureGrows ==
  ASSUME SteppedInv, Stepped!Answered \/ Stepped!Refused
  PROVE  /\ task # Stepped!NoTask /\ task' = Stepped!NoTask /\ requests' = requests
         /\ captured \subseteq captured'
         /\ Stepped!Answered => captured' # {}
         /\ captured' = captured \/ captured' # {}
<1>1. /\ task # Stepped!NoTask /\ task' = Stepped!NoTask /\ requests' = requests
      /\ captured \subseteq captured'
      /\ Stepped!Refused => captured' = captured
  BY DEF Stepped!Answered, Stepped!Refused
<1>2. Stepped!Answered => captured' # {}
  <2>1. SUFFICES ASSUME Stepped!Answered PROVE captured' # {}
    OBVIOUS
  <2>2. task \in NearReads
    BY <1>1 DEF SteppedInv
  <2>3. task.start \in Stepped!Covered(task)
    BY <2>2, Bounds DEF NearReads, Stepped!Covered, Stepped!LastOf
  <2>4. QED
    BY <2>1, <2>3 DEF Stepped!Answered
<1>3. QED
  BY <1>1, <1>2

\* Within a position the reads are paid one by one.
LEMMA SteppedCostStays ==
  ASSUME SteppedCostInv, stepIndex' = stepIndex, requests' \in Nat, SteppedTypes',
         \E m \in 0 .. 1 : /\ requests' <= requests + m
                           /\ probeIndex' + Expansions' >= probeIndex + Expansions + m
                           /\ captured' = {} => probeIndex' >= probeIndex + m,
         captured' = {} => captured = {} /\ expandIndex' = 0 /\ hasHit' = hasHit
  PROVE  SteppedCostInv'
<1>1. PICK m \in 0 .. 1 : /\ requests' <= requests + m
                          /\ probeIndex' + Expansions' >= probeIndex + Expansions + m
                          /\ captured' = {} => probeIndex' >= probeIndex + m
  OBVIOUS
<1>2. /\ requests \in Nat /\ stepIndex \in 1 .. StepCount + 1
      /\ probeIndex \in 0 .. 6 /\ expandIndex \in 0 .. Len(SteppedSizes)
  BY DEF SteppedCostInv, SteppedTypes
<1>3. StepCount \in Nat /\ Len(SteppedSizes) \in Nat /\ PositionCost \in Nat
  BY PositionsFacts, PositionCosts
<1>4. PICK r, p, e \in Int : r = requests' /\ p = probeIndex' /\ e = Expansions'
  <2>1. requests' \in Int /\ probeIndex' \in Int /\ expandIndex' \in Int
    BY <1>3 DEF SteppedTypes
  <2>2. Expansions' \in Int
    BY <2>1 DEF Expansions
  <2>3. QED
    BY <2>1, <2>2
<1>5. PICK spent \in Nat : spent = (stepIndex - 1) * PositionCost
  <2>1. stepIndex - 1 \in Nat
    BY <1>2
  <2>2. QED
    BY <2>1, PositionCosts
<1>6. Expansions \in Int
  BY <1>2, <1>3 DEF Expansions
<1>7. requests <= spent + probeIndex + Expansions
  BY <1>5 DEF SteppedCostInv
<1>8. r <= requests + m /\ p + e >= probeIndex + Expansions + m
  BY <1>1, <1>4
<1>9. r <= spent + p + e
  BY <1>2, <1>6, <1>7, <1>8
<1>10. (stepIndex' - 1) * PositionCost' = spent
  BY <1>5 DEF PositionCost
<1>11. requests' <= (stepIndex' - 1) * PositionCost' + probeIndex' + Expansions'
  BY <1>4, <1>9, <1>10
<1>12. captured' = {} => ~hasHit /\ requests <= (stepIndex - 1) * 6 + probeIndex
  BY DEF SteppedCostInv
<1>13. captured' = {} => r <= (stepIndex - 1) * 6 + p
  <2>1. captured' = {} => p >= probeIndex + m
    BY <1>1, <1>4
  <2>2. QED
    BY <1>2, <1>8, <1>12, <2>1
<1>14. captured' = {} => ~hasHit' /\ requests' <= (stepIndex' - 1) * 6 + probeIndex'
  BY <1>4, <1>12, <1>13
<1>15. QED
  BY <1>11, <1>14 DEF SteppedCostInv

\* Every step of stepped keeps to the bounds.
LEMMA SteppedCostStep == SteppedInv /\ SteppedCostInv /\ [Stepped!Next]_(Stepped!vars) => SteppedCostInv'
<1> SUFFICES ASSUME SteppedInv, SteppedCostInv, [Stepped!Next]_(Stepped!vars) PROVE SteppedCostInv'
  OBVIOUS
<1>1. /\ requests \in Nat /\ stepIndex \in 1 .. StepCount + 1
      /\ probeIndex \in 0 .. 6 /\ expandIndex \in 0 .. Len(SteppedSizes) /\ hasHit \in BOOLEAN
      /\ stepIndex > StepCount => probeIndex = 0 /\ expandIndex = 0
      /\ captured = {} => ~hasHit /\ expandIndex = 0
  BY DEF SteppedCostInv, SteppedTypes
<1>2. StepCount \in Nat /\ Len(SteppedSizes) \in Nat
  BY PositionsFacts, PositionCosts
<1>3. StepCount' = StepCount
  BY DEF StepCount, Cardinality, Stepped!stepPositions, Stepped!IsBase, Stepped!IsHalf,
    Stepped!ScanRange,
    Stepped!Wrap
<1>4. Stepped!NoTask' = Stepped!NoTask
  BY DEF Stepped!NoTask, Stepped!Read
<1>5. Stepped!MoreSteps <=> stepIndex <= StepCount
  BY <1>1, CurrentFacts
<1>6. Stepped!Count(requests) \in Nat /\ Stepped!Count(requests) <= requests + 1
  BY <1>1 DEF Stepped!Count
<1>7. CASE Stepped!IssueProbe
  <2>1. /\ task = Stepped!NoTask /\ expandIndex = 0 /\ probeIndex < Len(Stepped!probeTasks)
        /\ probeIndex' = probeIndex + 1 /\ UNCHANGED <<stepIndex, hasHit, expandIndex, captured>>
        /\ requests' = Stepped!Count(requests) /\ stepIndex <= StepCount
    BY <1>5, <1>7 DEF Stepped!IssueProbe, Stepped!Issue, Stepped!Idle, Stepped!MoreProbes
  <2>2. probeIndex + 1 \in 0 .. 6
    BY <1>1, <2>1, SixProbes
  <2>3. SteppedTypes'
    <3>1. requests' \in Nat /\ stepIndex' \in 1 .. StepCount' + 1 /\ ~(stepIndex' > StepCount')
      BY <1>1, <1>2, <1>3, <1>6, <2>1
    <3>2. probeIndex' \in 0 .. 6 /\ expandIndex' \in 0 .. Len(SteppedSizes) /\ hasHit' \in BOOLEAN
      BY <1>1, <2>1, <2>2
    <3>3. QED
      BY <3>1, <3>2, Zenon DEF SteppedTypes
  <2>4. Expansions = 0 /\ Expansions' = 0
    BY <2>1 DEF Expansions
  <2>5. /\ requests' <= requests + 1 /\ probeIndex' + Expansions' >= probeIndex + Expansions + 1
        /\ captured' = {} => probeIndex' >= probeIndex + 1
    BY <1>1, <1>6, <2>1, <2>4
  <2>6. QED
    BY <1>1, <2>1, <2>3, <2>5, SteppedCostStays DEF SteppedTypes
<1>8. CASE Stepped!Expand
  <2>1. PICK i \in Stepped!FittingFrom(expandIndex) :
          Stepped!Issue(Stepped!Read(hitAddr, SteppedSizes[i])) /\ expandIndex' = i
    BY <1>8 DEF Stepped!Expand
  <2>2. /\ task = Stepped!NoTask /\ task' = [start |-> hitAddr, count |-> SteppedSizes[i]]
        /\ requests' = Stepped!Count(requests) /\ captured' = captured
    BY <2>1 DEF Stepped!Issue, Stepped!Idle, Stepped!Read
  <2>3. /\ UNCHANGED <<stepIndex, probeIndex, hasHit, hitAddr>> /\ Stepped!ReadyToExpand
        /\ stepIndex <= StepCount
    BY <1>5, <1>8 DEF Stepped!Expand
  <2>4. expandIndex > 0 \/ hasHit
    BY <2>3 DEF Stepped!ReadyToExpand
  <2>5. captured # {}
    BY <1>1, <2>4
  <2>6. i \in 1 .. Len(SteppedSizes) /\ expandIndex <= i /\ SteppedSizes[i] \in 1 .. MaxBlock
    <3> DEFINE Sizes == 1 .. MaxBlock
    <3>1. SteppedSizes \in Seq(Sizes)
      BY SteppedAssumption
    <3> HIDE DEF Sizes
    <3>2. i \in DOMAIN SteppedSizes /\ expandIndex <= i
      BY <2>1 DEF Stepped!FittingFrom
    <3>3. i \in 1 .. Len(SteppedSizes)
      BY <3>1, <3>2
    <3>4. SteppedSizes[i] \in Sizes
      BY <3>1, <3>3, ElementOfSeq
    <3>5. QED
      BY <3>2, <3>3, <3>4 DEF Sizes
  <2>7. task' # Stepped!NoTask
    BY <2>2, <2>6, Bounds DEF Stepped!NoTask, Stepped!Read
  <2>8. Expansions' = i
    BY <1>4, <2>1, <2>7 DEF Expansions
  <2>9. Expansions + 1 <= i /\ Expansions \in Int
    BY <1>1, <1>2, <2>2, <2>6 DEF Expansions
  <2>10. SteppedTypes'
    <3>1. requests' \in Nat /\ stepIndex' \in 1 .. StepCount' + 1 /\ ~(stepIndex' > StepCount')
      BY <1>1, <1>2, <1>3, <1>6, <2>2, <2>3
    <3>2. probeIndex' \in 0 .. 6 /\ expandIndex' \in 0 .. Len(SteppedSizes) /\ hasHit' \in BOOLEAN
      BY <1>1, <1>2, <2>1, <2>3, <2>6
    <3>3. QED
      BY <3>1, <3>2, Zenon DEF SteppedTypes
  <2>11. /\ requests' <= requests + 1 /\ probeIndex' + Expansions' >= probeIndex + Expansions + 1
    <3>1. probeIndex + i >= probeIndex + Expansions + 1
      BY <1>1, <2>6, <2>9
    <3>2. QED
      BY <1>6, <2>2, <2>3, <2>8, <3>1
  <2>12. QED
    BY <2>2, <2>3, <2>5, <2>10, <2>11, SteppedCostStays DEF SteppedTypes
<1>9. CASE Stepped!NothingFits \/ Stepped!NoHit
  BY <1>9, SteppedCostLeft DEF Stepped!NothingFits, Stepped!NoHit, Stepped!loopVars
<1>10. CASE Stepped!ProbeResult
  <2>1. /\ expandIndex = 0 /\ UNCHANGED <<stepIndex, probeIndex, expandIndex>>
        /\ Stepped!Answered \/ Stepped!Refused
        /\ hasHit' \in BOOLEAN
        /\ Stepped!Answered \/ hasHit' = hasHit
    BY <1>1, <1>10 DEF Stepped!ProbeResult
  <2>2. /\ requests' = requests /\ captured \subseteq captured'
        /\ Stepped!Answered => captured' # {}
    BY <2>1, SteppedCaptureGrows
  <2>3. SteppedTypes'
    <3>1. requests' \in Nat /\ stepIndex' \in 1 .. StepCount' + 1
          /\ (stepIndex' > StepCount' => probeIndex' = 0 /\ expandIndex' = 0)
      BY <1>1, <1>3, <2>1, <2>2
    <3>2. probeIndex' \in 0 .. 6 /\ expandIndex' \in 0 .. Len(SteppedSizes)
      BY <1>1, <2>1
    <3>3. QED
      BY <2>1, <3>1, <3>2, Zenon DEF SteppedTypes
  <2>4. Expansions = 0 /\ Expansions' = 0
    BY <2>1 DEF Expansions
  <2>5. /\ requests' <= requests + 0 /\ probeIndex' + Expansions' >= probeIndex + Expansions + 0
        /\ probeIndex' >= probeIndex + 0
    BY <1>1, <2>1, <2>2, <2>4
  <2>6. captured' = {} => captured = {} /\ expandIndex' = 0 /\ hasHit' = hasHit
    BY <2>1, <2>2
  <2>7. QED
    BY <1>1, <2>1, <2>2, <2>3, <2>5, <2>6, SteppedCostStays
<1>11. CASE Stepped!ExpansionSuccess \/ Stepped!ExpansionFailure
  <2>1. expandIndex > 0 /\ (Stepped!Answered \/ Stepped!Refused)
    BY <1>11 DEF Stepped!ExpansionSuccess, Stepped!ExpansionFailure
  <2>2. /\ task # Stepped!NoTask /\ task' = Stepped!NoTask /\ requests' = requests
        /\ captured \subseteq captured' /\ (captured' = captured \/ captured' # {})
    BY <2>1, SteppedCaptureGrows
  <2>3. stepIndex <= StepCount /\ captured # {}
    BY <1>1, <1>2, <2>1
  <2>4. CASE Stepped!GoToNextStep
    BY <1>5, <2>2, <2>3, <2>4, SteppedCostLeft
  <2>5. CASE ~Stepped!GoToNextStep
    <3>1. /\ expandIndex # Len(SteppedSizes) /\ expandIndex' = expandIndex + 1
          /\ UNCHANGED <<stepIndex, probeIndex, hasHit>>
      BY <1>11, <2>5 DEF Stepped!ExpansionSuccess, Stepped!ExpansionFailure, Stepped!NextSize
    <3>2. expandIndex + 1 \in 1 .. Len(SteppedSizes)
      BY <1>1, <1>2, <3>1
    <3>3. SteppedTypes'
      <4>1. requests' \in Nat /\ stepIndex' \in 1 .. StepCount' + 1 /\ ~(stepIndex' > StepCount')
        BY <1>1, <1>2, <1>3, <2>2, <2>3, <3>1
      <4>2. probeIndex' \in 0 .. 6 /\ expandIndex' \in 0 .. Len(SteppedSizes) /\ hasHit' \in BOOLEAN
        BY <1>1, <1>2, <3>1, <3>2
      <4>3. QED
        BY <4>1, <4>2, Zenon DEF SteppedTypes
    <3>4. Expansions = expandIndex
      BY <2>2 DEF Expansions
    <3>5. Expansions' = expandIndex
      <4>1. \A n \in Int : n = expandIndex + 1 => n > 0 /\ n - 1 = expandIndex
        BY <1>1, <1>2
      <4>2. expandIndex' > 0 /\ expandIndex' - 1 = expandIndex
        BY <1>1, <3>1, <3>2, <4>1
      <4>3. QED
        BY <1>4, <2>2, <4>2 DEF Expansions
    <3>6. /\ requests' <= requests + 0 /\ probeIndex' + Expansions' >= probeIndex + Expansions + 0
          /\ probeIndex' >= probeIndex + 0
      BY <1>1, <1>2, <2>2, <3>1, <3>4, <3>5
    <3>7. captured' # {}
      BY <2>2, <2>3
    <3>8. QED
      BY <1>1, <2>2, <3>1, <3>3, <3>6, <3>7, SteppedCostStays
  <2>6. QED
    BY <2>4, <2>5
<1>12. CASE Stepped!Finish \/ UNCHANGED Stepped!vars
  <2>1. UNCHANGED <<requests, captured, task, stepIndex, probeIndex, hasHit, expandIndex>>
    BY <1>12 DEF Stepped!Finish, Stepped!Leave, Stepped!strategyVars, Stepped!vars, Stepped!loopVars
  <2>2. SteppedTypes'
    BY <1>3, <2>1 DEF SteppedCostInv, SteppedTypes
  <2>3. Expansions' = Expansions /\ PositionCost' = PositionCost
    BY <1>4, <2>1 DEF Expansions, PositionCost
  <2>4. QED
    BY <2>1, <2>2, <2>3 DEF SteppedCostInv
<1>13. QED
  BY <1>7, <1>8, <1>9, <1>10, <1>11, <1>12 DEF Stepped!Next
-----------------------------------------------------------------------------
(* What stepped finds at a position.                                       *)

\* Reads in ascending order of their start, from low to high.
Ascending(s, low, high) ==
  /\ s \in Seq(NearReads)
  /\ \A i \in 1 .. Len(s) : low <= s[i].start /\ s[i].start <= high
  /\ \A i, j \in 1 .. Len(s) : i < j => s[i].start <= s[j].start

Holds(s, t) == \E i \in 1 .. Len(s) : s[i] = t

\* Two such sequences, one after the other.
LEMMA AscendingConcat ==
  ASSUME NEW s, NEW t, NEW x \in Int, NEW y \in Int, NEW z \in Int, NEW w \in Int,
         Ascending(s, x, y), Ascending(t, z, w), x <= y, y <= z, z <= w
  PROVE  /\ Ascending(s \o t, x, w)
         /\ \A r : Holds(s, r) \/ Holds(t, r) => Holds(s \o t, r)
<1>1. /\ s \in Seq(NearReads) /\ t \in Seq(NearReads) /\ Len(s) \in Nat /\ Len(t) \in Nat
  BY DEF Ascending
<1>2. /\ s \o t \in Seq(NearReads) /\ Len(s \o t) = Len(s) + Len(t)
      /\ \A i \in 1 .. Len(s) + Len(t) : (s \o t)[i] = IF i <= Len(s) THEN s[i] ELSE t[i - Len(s)]
  BY <1>1, ConcatProperties
<1> DEFINE st == s \o t
<1> HIDE DEF st
<1>3. \A i \in 1 .. Len(s) : s[i].start \in Int
  <2>1. \A i \in 1 .. Len(s) : s[i] \in NearReads
    BY <1>1, ElementOfSeq
  <2>2. QED
    BY <2>1 DEF NearReads
<1>4. \A i \in 1 .. Len(t) : t[i].start \in Int
  <2>1. \A i \in 1 .. Len(t) : t[i] \in NearReads
    BY <1>1, ElementOfSeq
  <2>2. QED
    BY <2>1 DEF NearReads
<1>5. /\ st \in Seq(NearReads) /\ Len(st) = Len(s) + Len(t)
      /\ \A i \in 1 .. Len(s) : i \in 1 .. Len(st) /\ st[i] = s[i]
      /\ \A i \in 1 .. Len(t) : i + Len(s) \in 1 .. Len(st) /\ st[i + Len(s)] = t[i]
      /\ \A i \in 1 .. Len(st) : i \in 1 .. Len(s) \/ i - Len(s) \in 1 .. Len(t)
      /\ \A i \in 1 .. Len(st) : i \notin 1 .. Len(s) => st[i] = t[i - Len(s)]
  BY <1>1, <1>2 DEF st
<1>6. ASSUME NEW i \in 1 .. Len(st) PROVE x <= st[i].start /\ st[i].start <= w
  <2>1. CASE i \in 1 .. Len(s)
    BY <1>3, <1>5, <2>1 DEF Ascending
  <2>2. CASE i \notin 1 .. Len(s)
    <3>1. PICK k \in 1 .. Len(t) : st[i] = t[k]
      BY <1>5, <2>2
    <3>2. z <= t[k].start /\ t[k].start <= w /\ t[k].start \in Int
      BY <1>4 DEF Ascending
    <3>3. QED
      BY <3>1, <3>2
  <2>3. QED
    BY <2>1, <2>2
<1>7. ASSUME NEW i \in 1 .. Len(st), NEW j \in 1 .. Len(st), i < j PROVE st[i].start <= st[j].start
  <2>1. CASE j \in 1 .. Len(s)
    <3>1. i \in 1 .. Len(s)
      BY <1>1, <1>7, <2>1
    <3>2. QED
      BY <1>5, <1>7, <2>1, <3>1 DEF Ascending
  <2>2. CASE i \in 1 .. Len(s) /\ j \notin 1 .. Len(s)
    <3>1. PICK k \in 1 .. Len(t) : st[j] = t[k]
      BY <1>5, <2>2
    <3>2. z <= t[k].start /\ t[k].start \in Int
      BY <1>4 DEF Ascending
    <3>3. s[i].start <= y /\ s[i].start \in Int /\ st[i] = s[i]
      BY <1>3, <1>5, <2>2 DEF Ascending
    <3>4. QED
      BY <3>1, <3>2, <3>3
  <2>3. CASE i \notin 1 .. Len(s) /\ j \notin 1 .. Len(s)
    <3>1. PICK k, m \in 1 .. Len(t) : k = i - Len(s) /\ m = j - Len(s)
      BY <1>5, <2>3
    <3>2. k < m
      BY <1>1, <1>7, <3>1
    <3>3. t[k].start <= t[m].start
      BY <3>2 DEF Ascending
    <3>4. st[i] = t[k] /\ st[j] = t[m]
      BY <1>5, <2>3, <3>1
    <3>5. QED
      BY <3>3, <3>4
  <2>4. QED
    BY <2>1, <2>2, <2>3
<1>8. Ascending(st, x, w)
  BY <1>5, <1>6, <1>7 DEF Ascending
<1>9. ASSUME NEW r, Holds(s, r) \/ Holds(t, r) PROVE Holds(st, r)
  BY <1>5, <1>9 DEF Holds
<1>10. QED
  BY <1>8, <1>9 DEF st

\* A probe at a register beside a position of the range.
LEMMA ProbeIsThere ==
  ASSUME NEW a \in Int, NEW n \in 1 .. 2, StartAddress - 1 <= a, a <= EndAddress + 1
  PROVE  /\ Ascending(Stepped!Probe(a, n), a, a)
         /\ a \in Stepped!Addr /\ n = 1 => Holds(Stepped!Probe(a, n), Stepped!Read(a, 1))
<1> DEFINE t == Stepped!Read(Stepped!Clamp(a), n)
<1>1. Stepped!Probe(a, n) \in Seq(NearReads)
  BY ProbeIsNear
<1>2. a \in Stepped!Addr => Stepped!Clamp(a) = a /\ a <= Stepped!ProbeCeiling
  BY Bounds DEF Stepped!Addr, Stepped!Clamp, Stepped!ProbeFloor, Stepped!ProbeCeiling
<1>3. CASE a \in Stepped!Addr /\ Stepped!LastOf(t) <= Stepped!ProbeCeiling
  <2>1. Stepped!Probe(a, n) = <<t>> /\ t.start = a
    BY <1>2, <1>3 DEF Stepped!Probe, Stepped!Read
  <2>2. Ascending(<<t>>, a, a)
    <3>1. <<t>> \in Seq(NearReads) /\ Len(<<t>>) = 1 /\ <<t>>[1] = t
      BY <1>1, <2>1
    <3>2. \A i \in 1 .. Len(<<t>>) : i = 1
      BY <3>1
    <3>3. QED
      BY <2>1, <3>1, <3>2 DEF Ascending
  <2>3. Holds(<<t>>, t)
    <3>1. 1 \in 1 .. Len(<<t>>) /\ <<t>>[1] = t
      OBVIOUS
    <3>2. QED
      BY <3>1 DEF Holds
  <2>4. n = 1 => t = Stepped!Read(a, 1)
    BY <1>2, <1>3
  <2>5. QED
    BY <2>1, <2>2, <2>3, <2>4
<1>4. CASE ~(a \in Stepped!Addr /\ Stepped!LastOf(t) <= Stepped!ProbeCeiling)
  <2>1. Stepped!Probe(a, n) = << >>
    BY <1>4 DEF Stepped!Probe
  <2>2. Ascending(<< >>, a, a)
    BY DEF Ascending
  <2>3. ~(a \in Stepped!Addr /\ n = 1)
    BY <1>2, <1>4 DEF Stepped!LastOf, Stepped!Read
  <2>4. QED
    BY <2>1, <2>2, <2>3
<1>5. QED
  BY <1>3, <1>4

\* The probes of a position of the range: in ascending order, and each of its
\* three registers is probed alone.
LEMMA ProbesOfPosition ==
  ASSUME NEW p \in StartAddress .. EndAddress
  PROVE  LET tasks == Stepped!ProbeTasks[p]
         IN /\ Ascending(tasks, p - 1, p + 1)
            /\ \A a \in {p - 1, p, p + 1} : a \in Stepped!Addr => Holds(tasks, Stepped!Read(a, 1))
<1>1. p \in Int /\ p \in Stepped!Addr /\ StartAddress <= p /\ p <= EndAddress
  BY Bounds DEF Stepped!Addr
<1>2. ASSUME NEW a \in Int, StartAddress - 1 <= a, a <= EndAddress + 1
      PROVE  /\ Ascending(Stepped!ProbesAt(a), a, a)
             /\ a \in Stepped!Addr => Holds(Stepped!ProbesAt(a), Stepped!Read(a, 1))
  <2>1. /\ Ascending(Stepped!Probe(a, 1), a, a) /\ Ascending(Stepped!Probe(a, 2), a, a)
        /\ a \in Stepped!Addr => Holds(Stepped!Probe(a, 1), Stepped!Read(a, 1))
    BY <1>2, ProbeIsThere
  <2>2. a <= a
    BY <1>2
  <2>3. /\ Ascending(Stepped!Probe(a, 1) \o Stepped!Probe(a, 2), a, a)
        /\ \A r : Holds(Stepped!Probe(a, 1), r) \/ Holds(Stepped!Probe(a, 2), r)
                 => Holds(Stepped!Probe(a, 1) \o Stepped!Probe(a, 2), r)
    BY <1>2, <2>1, <2>2, AscendingConcat, Zenon
  <2>4. QED
    BY <2>1, <2>3, Zenon DEF Stepped!ProbesAt
<1>3. PICK low, high \in Int : low = p - 1 /\ high = p + 1
  BY <1>1
<1>4. /\ StartAddress - 1 <= low /\ low <= EndAddress + 1
      /\ StartAddress - 1 <= high /\ high <= EndAddress + 1
      /\ StartAddress - 1 <= p /\ p <= EndAddress + 1
  BY <1>1, <1>3, Bounds
<1> DEFINE ls == Stepped!ProbesAt(low)
           ms == Stepped!ProbesAt(p)
           hs == Stepped!ProbesAt(high)
<1>5. /\ Ascending(ls, low, low) /\ Ascending(ms, p, p) /\ Ascending(hs, high, high)
      /\ low \in Stepped!Addr => Holds(ls, Stepped!Read(low, 1))
      /\ Holds(ms, Stepped!Read(p, 1))
      /\ high \in Stepped!Addr => Holds(hs, Stepped!Read(high, 1))
  BY <1>1, <1>2, <1>4
<1>6. Stepped!ProbeTasks[p] = ls \o ms \o hs
  BY <1>1, <1>3 DEF Stepped!ProbeTasks
<1> HIDE DEF ls, ms, hs
<1>7. low <= p /\ p <= high /\ low <= low /\ p <= p /\ high <= high
  BY <1>1, <1>3
<1>8. Ascending(ls \o ms, low, p) /\ \A r : Holds(ls, r) \/ Holds(ms, r) => Holds(ls \o ms, r)
  BY <1>1, <1>3, <1>5, <1>7, AscendingConcat, Zenon
<1>9. /\ Ascending(ls \o ms \o hs, low, high)
      /\ \A r : Holds(ls \o ms, r) \/ Holds(hs, r) => Holds(ls \o ms \o hs, r)
  BY <1>1, <1>3, <1>5, <1>7, <1>8, AscendingConcat, Zenon
<1>10. QED
  BY <1>3, <1>5, <1>6, <1>8, <1>9

Readable(t) == Stepped!Covered(t) \subseteq device.readable

\* What the scan owes to a position of the range.
Expanded(p) ==
  /\ p \in device.readable => p \in captured
  /\ \A h \in Stepped!Around(p) : (\A b \in Stepped!Around(p) : h <= b) =>
       \A i \in DOMAIN SteppedSizes :
         LET block == Stepped!Covered(Stepped!Read(h, SteppedSizes[i]))
         IN block \subseteq device.readable /\ Stepped!Fits(h, SteppedSizes[i]) => block \subseteq captured

\* The expansion of size i at the hit has nothing to offer.
Futile(i) ==
  ~(Stepped!Fits(hitAddr, SteppedSizes[i]) /\ Readable(Stepped!Read(hitAddr, SteppedSizes[i])))

\* The probes of the current position that are settled.
Settled == IF task # Stepped!NoTask /\ expandIndex = 0 THEN probeIndex - 1 ELSE probeIndex

\* A read is the last probe handed out, or the expansion in use.
SteppedTaskInv ==
  task # Stepped!NoTask =>
    IF expandIndex = 0
    THEN probeIndex \in 1 .. Len(Stepped!probeTasks) /\ task = Stepped!probeTasks[probeIndex]
    ELSE task = Stepped!Read(hitAddr, SteppedSizes[expandIndex])

\* The probes that could be answered were, and the hit is the first of them;
\* an expansion begins when all are made, and goes down the sizes.
ProbesInv ==
  /\ probeIndex <= Len(Stepped!probeTasks)
  /\ \A k \in 1 .. Settled : Readable(Stepped!probeTasks[k]) =>
       hasHit /\ Stepped!Covered(Stepped!probeTasks[k]) \subseteq captured
  /\ hasHit => \E k \in 1 .. Settled :
       /\ Readable(Stepped!probeTasks[k]) /\ hitAddr = Stepped!probeTasks[k].start
       /\ \A j \in 1 .. Settled : j < k => ~Readable(Stepped!probeTasks[j])
  /\ expandIndex > 0 => hasHit /\ probeIndex = Len(Stepped!probeTasks)
  /\ \A i \in 1 .. Len(SteppedSizes) : i < expandIndex => Futile(i)

\* The positions behind the current one are done.
PassedInv ==
  \A p \in Stepped!stepPositions :
    Stepped!IsBase(p) /\ StepRank(p) < stepIndex - 1 => Expanded(p)

HitInv ==
  /\ device.readable \subseteq Stepped!Addr
  /\ finished => stepIndex > StepCount
  /\ ~device.lossy => SteppedTaskInv /\ ProbesInv /\ PassedInv

\* What that says of the end of the scan.
LEMMA HitMeans == SteppedTypes /\ HitInv => Stepped!HitsAreExpanded
<1> SUFFICES ASSUME SteppedTypes, HitInv, finished, ~device.lossy,
                    NEW p \in Stepped!ScanRange, (p - StartAddress) % Step = 0
             PROVE  /\ p \in device.readable => p \in captured
                    /\ Stepped!Around(p) # {} =>
                         LET hit == CHOOSE a \in Stepped!Around(p) : \A b \in Stepped!Around(p) : a <= b
                         IN \A i \in DOMAIN SteppedSizes :
                              LET block == Stepped!Covered(Stepped!Read(hit, SteppedSizes[i]))
                              IN block \subseteq device.readable
                              /\ Stepped!Fits(hit, SteppedSizes[i])
                                   => block \subseteq captured
  BY DEF Stepped!HitsAreExpanded, Stepped!readable
<1>1. Stepped!IsBase(p) /\ p \in Int
  BY Bounds DEF Stepped!IsBase, Stepped!ScanRange
<1>2. p \in Stepped!stepPositions
  BY <1>1, Bounds DEF Stepped!stepPositions, Stepped!ScanRange
<1>3. StepRank(p) < stepIndex - 1
  <2>1. StepRank(p) \in 0 .. StepCount - 1 /\ StepCount \in Nat
    BY <1>2, RankFacts, PositionsFacts
  <2>2. stepIndex \in 1 .. StepCount + 1 /\ stepIndex > StepCount
    BY DEF SteppedTypes, HitInv
  <2>3. QED
    BY <2>1, <2>2
<1>4. Expanded(p)
  BY <1>1, <1>2, <1>3 DEF HitInv, PassedInv
<1>5. ASSUME Stepped!Around(p) # {}
      PROVE  \E h \in Stepped!Around(p) : \A b \in Stepped!Around(p) : h <= b
  <2>1. \A a : a \in Stepped!Around(p) => a \in {p - 1, p, p + 1}
    BY DEF Stepped!Around
  <2>2. PICK x, y \in Int : x = p - 1 /\ y = p + 1
    BY <1>1
  <2>3. x <= p /\ p <= y /\ x <= y
    BY <1>1, <2>2
  <2>4. CASE x \in Stepped!Around(p)
    BY <1>1, <2>1, <2>2, <2>3, <2>4
  <2>5. CASE x \notin Stepped!Around(p) /\ p \in Stepped!Around(p)
    BY <1>1, <2>1, <2>2, <2>3, <2>5
  <2>6. CASE x \notin Stepped!Around(p) /\ p \notin Stepped!Around(p)
    BY <1>1, <1>5, <2>1, <2>2, <2>3, <2>6
  <2>7. QED
    BY <2>4, <2>5, <2>6
<1>6. ASSUME Stepped!Around(p) # {}
      PROVE  LET hit == CHOOSE a \in Stepped!Around(p) : \A b \in Stepped!Around(p) : a <= b
             IN hit \in Stepped!Around(p) /\ \A b \in Stepped!Around(p) : hit <= b
  BY <1>5, <1>6
<1>7. QED
  BY <1>4, <1>6 DEF Expanded

\* A hit is the lowest readable register around its position, and every
\* position that can be read is: the probes are those of ProbesOfPosition.
LEMMA HitIsLowest ==
  ASSUME SteppedTypes, NEW p \in Stepped!Current, Stepped!IsBase(p), ProbesInv, Settled = Len(Stepped!probeTasks),
         device.readable \subseteq Stepped!Addr
  PROVE  /\ p \in device.readable => p \in captured
         /\ \A h \in Stepped!Around(p) : (\A b \in Stepped!Around(p) : h <= b) => hasHit /\ h = hitAddr
<1> DEFINE tasks == Stepped!ProbeTasks[p]
<1>1. Stepped!probeTasks = tasks
  <2>1. \A q \in Stepped!Current : q = p
    BY CurrentFacts, RankIsUnique DEF SteppedTypes
  <2>2. (CHOOSE q \in Stepped!Current : TRUE) = p
    BY <2>1
  <2>3. QED
    BY <2>2 DEF Stepped!probeTasks, Stepped!MoreSteps
<1>2. p \in StartAddress .. EndAddress /\ p \in Int
  BY Bounds DEF Stepped!IsBase, Stepped!ScanRange
<1>3. /\ Ascending(tasks, p - 1, p + 1)
      /\ \A a \in {p - 1, p, p + 1} : a \in Stepped!Addr => Holds(tasks, Stepped!Read(a, 1))
  BY <1>2, ProbesOfPosition
<1> HIDE DEF tasks
<1>4. \A k \in 1 .. Len(tasks) :
        /\ tasks[k].start \in Int /\ tasks[k].count \in 1 .. MaxBlock /\ tasks[k] \in NearReads
        /\ p - 1 <= tasks[k].start /\ tasks[k].start <= p + 1
  <2>1. \A k \in 1 .. Len(tasks) : tasks[k] \in NearReads
    BY <1>3, ElementOfSeq DEF Ascending
  <2>2. QED
    BY <1>3, <2>1 DEF Ascending, NearReads
<1>5. ASSUME NEW a \in device.readable, a \in {p - 1, p, p + 1}
      PROVE  \E k \in 1 .. Len(tasks) : tasks[k].start = a /\ Stepped!Covered(tasks[k]) = {a} /\ Readable(tasks[k])
  <2>1. a \in Stepped!Addr /\ a \in Int
    BY <1>5 DEF Stepped!Addr
  <2>2. PICK k \in 1 .. Len(tasks) : tasks[k] = Stepped!Read(a, 1)
    BY <1>3, <1>5, <2>1 DEF Holds
  <2>3. tasks[k].start = a /\ tasks[k].count = 1
    BY <2>2 DEF Stepped!Read
  <2>4. Stepped!Covered(tasks[k]) = {a}
    BY <2>1, <2>3 DEF Stepped!Covered, Stepped!LastOf
  <2>5. QED
    BY <1>5, <2>3, <2>4 DEF Readable
<1>6. Settled = Len(tasks)
  BY <1>1
<1>7. ASSUME NEW k \in 1 .. Len(tasks), Readable(tasks[k])
      PROVE  tasks[k].start \in Stepped!Around(p)
  <2>1. tasks[k].start \in Stepped!Covered(tasks[k])
    BY <1>4, Bounds DEF Stepped!Covered, Stepped!LastOf
  <2>2. tasks[k].start \in device.readable
    BY <1>7, <2>1 DEF Readable
  <2>3. tasks[k].start \in {p - 1, p, p + 1}
    BY <1>2, <1>4
  <2>4. StartAddress - 1 <= tasks[k].start /\ tasks[k].start <= EndAddress + 1
    BY <1>2, <1>4, Bounds
  <2>5. QED
    BY <1>4, <2>2, <2>3, <2>4, Bounds DEF Stepped!Around, Stepped!readable
<1>8. p \in device.readable => p \in captured
  BY <1>1, <1>5, <1>6 DEF ProbesInv
<1>9. ASSUME NEW h \in Stepped!Around(p), \A b \in Stepped!Around(p) : h <= b
      PROVE  hasHit /\ h = hitAddr
  <2>1. h \in device.readable /\ h \in {p - 1, p, p + 1} /\ h \in Int
    BY <1>2 DEF Stepped!Around, Stepped!readable
  <2>2. PICK k \in 1 .. Len(tasks) : tasks[k].start = h /\ Readable(tasks[k])
    BY <1>5, <2>1
  <2>3. hasHit
    BY <1>1, <1>6, <2>2 DEF ProbesInv
  <2>4. PICK f \in 1 .. Len(tasks) :
          /\ Readable(tasks[f]) /\ hitAddr = tasks[f].start
          /\ \A j \in 1 .. Len(tasks) : j < f => ~Readable(tasks[j])
    BY <1>1, <1>6, <2>3 DEF ProbesInv
  <2>5. h <= tasks[f].start
    BY <1>7, <1>9, <2>4
  <2>6. Len(tasks) \in Nat
    BY <1>3 DEF Ascending
  <2>7. f = k \/ f < k
    BY <2>2, <2>4, <2>6
  <2>8. tasks[f].start <= tasks[k].start
    BY <1>3, <1>4, <2>7 DEF Ascending
  <2>9. QED
    BY <1>4, <2>1, <2>2, <2>3, <2>4, <2>5, <2>8
<1>10. QED
  BY <1>8, <1>9

\* What is owed to a position is not lost again.
LEMMA ExpandedStays ==
  ASSUME NEW p, Expanded(p), device' = device, captured \subseteq captured'
  PROVE  Expanded(p)'
<1>1. Stepped!Around(p)' = Stepped!Around(p)
  BY DEF Stepped!Around, Stepped!readable
<1>2. \A h, i : /\ Stepped!Covered(Stepped!Read(h, SteppedSizes[i]))' = Stepped!Covered(Stepped!Read(h, SteppedSizes[i]))
                /\ Stepped!Fits(h, SteppedSizes[i])' <=> Stepped!Fits(h, SteppedSizes[i])
  BY DEF Stepped!Covered, Stepped!LastOf, Stepped!Read, Stepped!Fits
<1>3. p \in device'.readable => p \in captured'
  BY DEF Expanded
<1>4. ASSUME NEW h \in Stepped!Around(p), \A b \in Stepped!Around(p) : h <= b, NEW i \in DOMAIN SteppedSizes,
             Stepped!Covered(Stepped!Read(h, SteppedSizes[i])) \subseteq device'.readable,
             Stepped!Fits(h, SteppedSizes[i])
      PROVE  Stepped!Covered(Stepped!Read(h, SteppedSizes[i])) \subseteq captured'
  <2>1. Stepped!Covered(Stepped!Read(h, SteppedSizes[i])) \subseteq captured
    BY <1>4 DEF Expanded
  <2>2. QED
    BY <2>1
<1>5. QED
  BY <1>1, <1>2, <1>3, <1>4 DEF Expanded

\* The position that is left has what is owed to it.
LEMMA PositionDone ==
  ASSUME SteppedTypes, HitInv, ~device.lossy, Stepped!GoToNextStep,
         device' = device, captured \subseteq captured', task' = Stepped!NoTask,
         Settled = Len(Stepped!probeTasks),
         hasHit => \A i \in DOMAIN SteppedSizes :
                     \/ Futile(i)
                     \/ Stepped!Covered(Stepped!Read(hitAddr, SteppedSizes[i])) \subseteq captured'
  PROVE  SteppedTaskInv' /\ ProbesInv' /\ PassedInv'
<1>1. /\ stepIndex' = stepIndex + 1 /\ probeIndex' = 0 /\ hasHit' = FALSE /\ expandIndex' = 0
  BY DEF Stepped!GoToNextStep
<1>2. Stepped!NoTask' = Stepped!NoTask
  BY DEF Stepped!NoTask, Stepped!Read
<1>3. SteppedTaskInv'
  BY <1>2 DEF SteppedTaskInv
<1>4. ProbesInv'
  <2>1. (Len(Stepped!probeTasks) \in Nat)'
    BY SixProbes, PTL
  <2>2. Settled' = 0 /\ (\A k : k \notin 1 .. 0)
    BY <1>1, <1>2 DEF Settled
  <2>3. probeIndex' <= Len(Stepped!probeTasks')
    BY <1>1, <2>1
  <2>4. ~hasHit' /\ ~(expandIndex' > 0)
    BY <1>1
  <2>5. Len(SteppedSizes) \in Nat
    BY PositionCosts
  <2>6. \A i \in 1 .. Len(SteppedSizes) : ~(i < expandIndex')
    BY <1>1, <2>5
  <2>7. QED
    BY <2>2, <2>3, <2>4, <2>6 DEF ProbesInv
<1>5. ASSUME NEW p \in Stepped!stepPositions, Stepped!IsBase(p), StepRank(p) < stepIndex
      PROVE  Expanded(p)'
  <2>1. stepIndex \in Int /\ StepRank(p) \in Int
    BY RankFacts, PositionsFacts DEF SteppedTypes
  <2>2. CASE StepRank(p) < stepIndex - 1
    <3>1. Expanded(p)
      BY <1>5, <2>2 DEF HitInv, PassedInv
    <3>2. QED
      BY <3>1, ExpandedStays
  <2>3. CASE StepRank(p) = stepIndex - 1
    <3>1. p \in Stepped!Current
      BY <2>3, CurrentFacts DEF SteppedTypes
    <3>2. /\ p \in device.readable => p \in captured
          /\ \A h \in Stepped!Around(p) : (\A b \in Stepped!Around(p) : h <= b) => hasHit /\ h = hitAddr
      BY <1>5, <3>1, HitIsLowest DEF HitInv
    <3>3. Stepped!Around(p)' = Stepped!Around(p)
      BY DEF Stepped!Around, Stepped!readable
    <3>4. \A h, i : /\ Stepped!Covered(Stepped!Read(h, SteppedSizes[i]))' = Stepped!Covered(Stepped!Read(h, SteppedSizes[i]))
                    /\ Stepped!Fits(h, SteppedSizes[i])' <=> Stepped!Fits(h, SteppedSizes[i])
      BY DEF Stepped!Covered, Stepped!LastOf, Stepped!Read, Stepped!Fits
    <3>5. ASSUME NEW h \in Stepped!Around(p), \A b \in Stepped!Around(p) : h <= b, NEW i \in DOMAIN SteppedSizes,
                 Stepped!Covered(Stepped!Read(h, SteppedSizes[i])) \subseteq device'.readable,
                 Stepped!Fits(h, SteppedSizes[i])
          PROVE  Stepped!Covered(Stepped!Read(h, SteppedSizes[i])) \subseteq captured'
      <4>1. hasHit /\ h = hitAddr
        BY <3>2, <3>5
      <4>2. ~Futile(i)
        BY <3>5, <4>1 DEF Futile, Readable
      <4>3. QED
        BY <4>1, <4>2
    <3>6. p \in device'.readable => p \in captured'
      BY <3>2
    <3>7. QED
      BY <3>3, <3>4, <3>5, <3>6 DEF Expanded
  <2>4. QED
    BY <1>5, <2>1, <2>2, <2>3
<1>6. PassedInv'
  <2>1. /\ Stepped!stepPositions' = Stepped!stepPositions
        /\ \A p : (Stepped!IsBase(p)' <=> Stepped!IsBase(p)) /\ StepRank(p)' = StepRank(p)
    BY DEF Stepped!stepPositions, Stepped!IsBase, Stepped!IsHalf, Stepped!ScanRange,
      Stepped!Wrap, StepRank, Cardinality
  <2>2. stepIndex \in Int
    BY PositionsFacts DEF SteppedTypes
  <2>3. \A n \in Int : n = stepIndex + 1 => n - 1 = stepIndex
    BY <2>2
  <2>4. stepIndex' - 1 = stepIndex
    BY <1>1, <2>2, <2>3
  <2>5. QED
    BY <1>5, <2>1, <2>4 DEF PassedInv
<1>7. QED
  BY <1>3, <1>4, <1>6

\* The probes of a position do not change while stepped is at it.
LEMMA SameProbes == ASSUME stepIndex' = stepIndex PROVE Stepped!probeTasks' = Stepped!probeTasks
  BY DEF Stepped!probeTasks, Stepped!MoreSteps, Stepped!Current, Stepped!stepPositions,
    Stepped!IsBase, Stepped!IsHalf,
    Stepped!ScanRange, Stepped!Wrap, Stepped!Cardinality, Stepped!ProbeTasks, Stepped!ProbesAt,
    Stepped!Probe,
    Stepped!Addr, Stepped!LastOf, Stepped!Read, Stepped!Clamp, Stepped!ProbeFloor,
    Stepped!ProbeCeiling

\* The positions behind are not lost while stepped stays where it is.
LEMMA PassedStays ==
  ASSUME PassedInv, stepIndex' = stepIndex, device' = device, captured \subseteq captured'
  PROVE  PassedInv'
<1>1. /\ Stepped!stepPositions' = Stepped!stepPositions
      /\ \A p : (Stepped!IsBase(p)' <=> Stepped!IsBase(p)) /\ StepRank(p)' = StepRank(p)
  BY DEF Stepped!stepPositions, Stepped!IsBase, Stepped!IsHalf, Stepped!ScanRange,
    Stepped!Wrap, StepRank, Cardinality
<1>2. \A p : Expanded(p) => Expanded(p)'
  BY ExpandedStays
<1>3. QED
  BY <1>1, <1>2 DEF PassedInv

\* Nothing else a step touches makes a futile expansion worth while.
LEMMA SameReads ==
  ASSUME device' = device
  PROVE  /\ \A t : Readable(t)' <=> Readable(t)
         /\ \A t : Stepped!Covered(t)' = Stepped!Covered(t)
         /\ hitAddr' = hitAddr => \A i : Futile(i)' <=> Futile(i)
<1>1. \A t : Readable(t)' <=> Readable(t)
  BY DEF Readable, Stepped!Covered, Stepped!LastOf
<1>2. \A t : Stepped!Covered(t)' = Stepped!Covered(t)
  BY DEF Stepped!Covered, Stepped!LastOf
<1>3. hitAddr' = hitAddr => \A i : Futile(i)' <=> Futile(i)
  BY DEF Futile, Readable, Stepped!Covered, Stepped!LastOf, Stepped!Read, Stepped!Fits
<1>4. QED
  BY <1>1, <1>2, <1>3

\* The probes of a position.
LEMMA ProbesKept ==
  ASSUME SteppedTypes, SteppedInv, HitInv, ~device.lossy, Stepped!IssueProbe \/ Stepped!ProbeResult
  PROVE  SteppedTaskInv' /\ ProbesInv' /\ PassedInv'
<1> DEFINE tasks == Stepped!probeTasks
<1>0. SteppedTaskInv /\ ProbesInv /\ PassedInv
  BY DEF HitInv
<1>1. /\ stepIndex' = stepIndex /\ expandIndex = 0 /\ expandIndex' = 0 /\ device' = device
      /\ captured \subseteq captured'
  BY DEF Stepped!IssueProbe, Stepped!ProbeResult, Stepped!MoreProbes, Stepped!Issue,
    Stepped!Answered, Stepped!Refused
<1>2. Stepped!NoTask' = Stepped!NoTask /\ tasks' = tasks
  BY <1>1, SameProbes DEF Stepped!NoTask, Stepped!Read
<1>3. PassedInv'
  BY <1>0, <1>1, PassedStays
<1>4. probeIndex \in Nat /\ Len(tasks) \in Nat /\ Len(SteppedSizes) \in Nat
  BY SixProbes, PositionCosts DEF SteppedTypes
<1>5. \A t : (Readable(t)' <=> Readable(t)) /\ Stepped!Covered(t)' = Stepped!Covered(t)
  BY <1>1, SameReads
<1>6. \A i \in 1 .. Len(SteppedSizes) : ~(i < expandIndex')
  BY <1>1, <1>4
<1> HIDE DEF tasks
<1>7. CASE Stepped!IssueProbe
  <2>1. /\ task = Stepped!NoTask /\ probeIndex < Len(tasks) /\ task' = tasks[probeIndex + 1]
        /\ probeIndex' = probeIndex + 1 /\ UNCHANGED <<hasHit, hitAddr, captured>>
    BY <1>7 DEF tasks, Stepped!IssueProbe, Stepped!MoreProbes, Stepped!Issue, Stepped!Idle
  <2>2. probeIndex + 1 \in 1 .. Len(tasks)
    BY <1>4, <2>1
  <2>3. task' # Stepped!NoTask
    <3>1. tasks[probeIndex + 1] \in NearReads
      BY <2>2, ProbesAreNear, ElementOfSeq DEF tasks
    <3>2. QED
      BY <2>1, <3>1, Bounds DEF NearReads, Stepped!NoTask, Stepped!Read
  <2>4. SteppedTaskInv'
    BY <1>1, <1>2, <2>1, <2>2 DEF SteppedTaskInv, tasks
  <2>5. Settled = probeIndex /\ Settled' = probeIndex
    <3>1. \A n \in Int : n = probeIndex + 1 => n - 1 = probeIndex
      BY <1>4
    <3>2. probeIndex' - 1 = probeIndex
      BY <1>4, <2>1, <3>1
    <3>3. QED
      BY <1>1, <1>2, <2>1, <2>3, <3>2 DEF Settled
  <2>6. probeIndex' <= Len(tasks')
    BY <1>2, <2>1, <2>2
  <2>7. \A k \in 1 .. probeIndex : Readable(tasks[k]) => hasHit /\ Stepped!Covered(tasks[k]) \subseteq captured
    BY <1>0, <2>5 DEF ProbesInv, tasks
  <2>8. hasHit => \E k \in 1 .. probeIndex :
          /\ Readable(tasks[k]) /\ hitAddr = tasks[k].start
          /\ \A j \in 1 .. probeIndex : j < k => ~Readable(tasks[j])
    BY <1>0, <2>5 DEF ProbesInv, tasks
  <2>9. ProbesInv'
    BY <1>1, <1>2, <1>5, <1>6, <2>1, <2>5, <2>6, <2>7, <2>8 DEF ProbesInv, tasks
  <2>10. QED
    BY <1>3, <2>4, <2>9
<1>8. CASE Stepped!ProbeResult
  <2>1. /\ task # Stepped!NoTask /\ task' = Stepped!NoTask /\ probeIndex' = probeIndex
        /\ Stepped!Answered \/ Stepped!Refused
        /\ Stepped!Answered => captured' = captured \cup Stepped!Covered(task) /\ Readable(task)
        /\ Stepped!Refused => ~Readable(task) /\ UNCHANGED <<hasHit, hitAddr, captured>>
    BY <1>8 DEF Stepped!ProbeResult, Stepped!Answered, Stepped!Refused, Readable, Stepped!readable
  <2>2. probeIndex \in 1 .. Len(tasks) /\ task = tasks[probeIndex]
    BY <1>0, <1>1, <2>1 DEF SteppedTaskInv, tasks
  <2>3. SteppedTaskInv'
    BY <1>2, <2>1 DEF SteppedTaskInv
  <2>4. Settled = probeIndex - 1 /\ Settled' = probeIndex
    BY <1>1, <1>2, <2>1 DEF Settled
  <2>5. PICK before \in Nat : before = probeIndex - 1
    BY <1>4, <2>2
  <2>6. \A k \in 1 .. before : Readable(tasks[k]) => hasHit /\ Stepped!Covered(tasks[k]) \subseteq captured
    BY <1>0, <2>4, <2>5 DEF ProbesInv, tasks
  <2>7. hasHit => \E k \in 1 .. before :
          /\ Readable(tasks[k]) /\ hitAddr = tasks[k].start
          /\ \A j \in 1 .. before : j < k => ~Readable(tasks[j])
    BY <1>0, <2>4, <2>5 DEF ProbesInv, tasks
  <2>8. \A k \in 1 .. probeIndex : k \in 1 .. before \/ k = probeIndex
    BY <1>4, <2>5
  <2>9. \A k \in 1 .. before : k \in 1 .. probeIndex /\ k < probeIndex
    BY <1>4, <2>5
  <2>10. probeIndex \in 1 .. probeIndex /\ ~(probeIndex < probeIndex)
    BY <2>2, <1>4
  <2>11. \A k \in 1 .. probeIndex : Readable(tasks[k]) => Stepped!Covered(tasks[k]) \subseteq captured'
    <3>1. SUFFICES ASSUME NEW k \in 1 .. probeIndex, Readable(tasks[k])
                   PROVE  Stepped!Covered(tasks[k]) \subseteq captured'
      OBVIOUS
    <3>2. CASE k \in 1 .. before
      BY <1>1, <2>6, <3>1, <3>2
    <3>3. CASE k = probeIndex
      BY <2>1, <2>2, <3>1, <3>3
    <3>4. QED
      BY <2>8, <3>2, <3>3
  <2>12. CASE hasHit /\ UNCHANGED <<hasHit, hitAddr>>
    <3>1. PICK k \in 1 .. before :
            /\ Readable(tasks[k]) /\ hitAddr = tasks[k].start
            /\ \A j \in 1 .. before : j < k => ~Readable(tasks[j])
      BY <2>7, <2>12
    <3>2. \A j \in 1 .. probeIndex : j < k => ~Readable(tasks[j])
      <4>1. \A j \in 1 .. probeIndex : j < k => j \in 1 .. before
        BY <1>4, <2>8, <2>9
      <4>2. QED
        BY <3>1, <4>1
    <3>3. \E m \in 1 .. probeIndex :
            /\ Readable(tasks[m]) /\ hitAddr = tasks[m].start
            /\ \A j \in 1 .. probeIndex : j < m => ~Readable(tasks[j])
      BY <2>9, <3>1, <3>2
    <3>4. probeIndex <= Len(tasks)
      BY <2>2
    <3>5. ProbesInv'
      BY <1>1, <1>2, <1>5, <1>6, <2>1, <2>4, <2>11, <2>12, <3>3, <3>4 DEF ProbesInv, tasks
    <3>6. QED
      BY <1>3, <2>3, <3>5
  <2>13. CASE ~hasHit /\ Stepped!Answered
    <3>1. hasHit' = TRUE /\ hitAddr' = task.start
      BY <1>8, <2>1, <2>13 DEF Stepped!ProbeResult, Stepped!Answered, Stepped!Refused
    <3>2. \A j \in 1 .. probeIndex : j < probeIndex => ~Readable(tasks[j])
      BY <2>6, <2>8, <2>10, <2>13
    <3>3. \E m \in 1 .. probeIndex :
            /\ Readable(tasks[m]) /\ hitAddr' = tasks[m].start
            /\ \A j \in 1 .. probeIndex : j < m => ~Readable(tasks[j])
      BY <2>1, <2>2, <2>10, <2>13, <3>1, <3>2
    <3>4. probeIndex <= Len(tasks)
      BY <2>2
    <3>5. ProbesInv'
      BY <1>1, <1>2, <1>5, <1>6, <2>1, <2>4, <2>11, <3>1, <3>3, <3>4 DEF ProbesInv, tasks
    <3>6. QED
      BY <1>3, <2>3, <3>5
  <2>14. CASE ~hasHit /\ Stepped!Refused
    <3>1. ~hasHit'
      BY <2>1, <2>14
    <3>2. \A k \in 1 .. probeIndex : ~Readable(tasks[k])
      BY <2>1, <2>2, <2>6, <2>8, <2>14
    <3>3. probeIndex <= Len(tasks)
      BY <2>2
    <3>4. ProbesInv'
      BY <1>1, <1>2, <1>5, <1>6, <2>1, <2>4, <3>1, <3>2, <3>3 DEF ProbesInv, tasks
    <3>5. QED
      BY <1>3, <2>3, <3>4
  <2>15. QED
    BY <1>8, <2>1, <2>12, <2>13, <2>14 DEF Stepped!ProbeResult
<1>9. QED
  BY <1>7, <1>8

\* The sizes of the expansions, and that they descend.
LEMMA SizesDescend ==
  /\ Len(SteppedSizes) \in Nat /\ DOMAIN SteppedSizes = 1 .. Len(SteppedSizes)
  /\ \A i \in 1 .. Len(SteppedSizes) : SteppedSizes[i] \in 1 .. MaxBlock
  /\ \A i, j \in 1 .. Len(SteppedSizes) : i < j => SteppedSizes[j] < SteppedSizes[i]
<1> DEFINE Sizes == 1 .. MaxBlock
<1>1. SteppedSizes \in Seq(Sizes) /\ \A i, j \in DOMAIN SteppedSizes : i < j => SteppedSizes[j] < SteppedSizes[i]
  BY SteppedAssumption
<1> HIDE DEF Sizes
<1>2. Len(SteppedSizes) \in Nat /\ DOMAIN SteppedSizes = 1 .. Len(SteppedSizes)
  BY <1>1
<1>3. \A i \in 1 .. Len(SteppedSizes) : SteppedSizes[i] \in Sizes
  BY <1>1, ElementOfSeq
<1>4. QED
  BY <1>1, <1>2, <1>3 DEF Sizes

\* The sizes that were passed over have nothing to offer: those that are left
\* begin at the smallest index that fits.
LEMMA PassedSizes ==
  ASSUME SteppedTypes, ProbesInv, NEW n \in 1 .. Len(SteppedSizes) + 1,
         \A i \in Stepped!FittingFrom(expandIndex) : n <= i
  PROVE  \A i \in 1 .. Len(SteppedSizes) : i < n => Futile(i)
<1> SUFFICES ASSUME NEW i \in 1 .. Len(SteppedSizes), i < n PROVE Futile(i)
  OBVIOUS
<1>1. expandIndex \in Int /\ Len(SteppedSizes) \in Nat /\ i \in DOMAIN SteppedSizes
  BY SizesDescend DEF SteppedTypes
<1>2. CASE i < expandIndex
  BY <1>2 DEF ProbesInv
<1>3. CASE i >= expandIndex
  <2>1. i \notin Stepped!FittingFrom(expandIndex)
    BY <1>1
  <2>2. ~Stepped!Fits(hitAddr, SteppedSizes[i])
    BY <1>1, <1>3, <2>1 DEF Stepped!FittingFrom
  <2>3. QED
    BY <2>2 DEF Futile
<1>4. QED
  BY <1>1, <1>2, <1>3

\* Before stepped expands, or gives up, all probes of the position are made.
LEMMA ProbesAreMade ==
  ASSUME SteppedTypes, ProbesInv, Stepped!Idle, ~Stepped!MoreProbes
  PROVE  /\ probeIndex = Len(Stepped!probeTasks) /\ Settled = Len(Stepped!probeTasks)
         /\ Stepped!ReadyToExpand => hasHit
         /\ hasHit => Stepped!ReadyToExpand
<1>1. probeIndex \in Nat /\ Len(Stepped!probeTasks) \in Nat /\ expandIndex \in Nat
  BY SixProbes, SizesDescend DEF SteppedTypes
<1>2. probeIndex = Len(Stepped!probeTasks)
  <2>1. CASE expandIndex > 0
    BY <2>1 DEF ProbesInv
  <2>2. CASE expandIndex = 0
    BY <1>1, <2>2 DEF ProbesInv, Stepped!MoreProbes
  <2>3. QED
    BY <1>1, <2>1, <2>2
<1>3. Settled = probeIndex
  BY DEF Settled, Stepped!Idle
<1>4. QED
  BY <1>2, <1>3 DEF ProbesInv, Stepped!ReadyToExpand

\* A larger expansion that is answered holds every smaller one.
LEMMA LargerHolds ==
  ASSUME SteppedInv, NEW e \in 1 .. Len(SteppedSizes), NEW i \in 1 .. Len(SteppedSizes), e <= i
  PROVE  Stepped!Covered(Stepped!Read(hitAddr, SteppedSizes[i]))
           \subseteq Stepped!Covered(Stepped!Read(hitAddr, SteppedSizes[e]))
<1>1. hitAddr \in Int /\ SteppedSizes[e] \in Int /\ SteppedSizes[i] \in Int
  BY SizesDescend, Bounds DEF SteppedInv
<1>2. SteppedSizes[i] <= SteppedSizes[e]
  <2>1. Len(SteppedSizes) \in Nat
    BY SizesDescend
  <2>2. CASE i = e
    BY <1>1, <2>2
  <2>3. CASE e < i
    <3>1. SteppedSizes[i] < SteppedSizes[e]
      BY <2>3, SizesDescend
    <3>2. QED
      BY <1>1, <3>1
  <2>4. QED
    BY <2>1, <2>2, <2>3
<1>3. \A n : /\ Stepped!Read(hitAddr, n).start = hitAddr
             /\ Stepped!Read(hitAddr, n).count = n
  BY DEF Stepped!Read
<1>4. QED
  BY <1>1, <1>2, <1>3 DEF Stepped!Covered, Stepped!LastOf

\* The expansions of a position.
LEMMA ExpandKept ==
  ASSUME SteppedTypes, SteppedInv, HitInv, ~device.lossy, Stepped!Expand
  PROVE  SteppedTaskInv' /\ ProbesInv' /\ PassedInv'
<1>0. ProbesInv /\ PassedInv
  BY DEF HitInv
<1>1. PICK i \in Stepped!FittingFrom(expandIndex) :
        /\ \A j \in Stepped!FittingFrom(expandIndex) : i <= j
        /\ Stepped!Issue(Stepped!Read(hitAddr, SteppedSizes[i])) /\ expandIndex' = i
  BY DEF Stepped!Expand
<1>2. /\ task' = Stepped!Read(hitAddr, SteppedSizes[i]) /\ captured' = captured /\ device' = device
      /\ UNCHANGED <<stepIndex, probeIndex, hasHit, hitAddr>> /\ Stepped!ReadyToExpand
         /\ Stepped!Idle
  BY <1>1 DEF Stepped!Issue, Stepped!Expand
<1>3. ~Stepped!MoreProbes
  BY <1>2, SizesDescend DEF Stepped!ReadyToExpand, Stepped!MoreProbes, SteppedTypes
<1>4. probeIndex = Len(Stepped!probeTasks) /\ Settled = probeIndex /\ hasHit
  BY <1>0, <1>2, <1>3, ProbesAreMade
<1>5. i \in 1 .. Len(SteppedSizes) /\ i >= expandIndex /\ Len(SteppedSizes) \in Nat /\ i > 0
  BY SizesDescend DEF Stepped!FittingFrom
<1>6. \A j \in 1 .. Len(SteppedSizes) : j < i => Futile(j)
  BY <1>0, <1>1, <1>5, PassedSizes
<1>7. Stepped!probeTasks' = Stepped!probeTasks
  BY <1>2, SameProbes
<1>8. Settled' = probeIndex
  BY <1>1, <1>2, <1>5 DEF Settled
<1>9. /\ \A t : (Readable(t)' <=> Readable(t)) /\ Stepped!Covered(t)' = Stepped!Covered(t)
      /\ \A j : Futile(j)' <=> Futile(j)
  BY <1>2, SameReads
<1>10. PassedInv'
  BY <1>0, <1>2, PassedStays
<1>11. SteppedTaskInv'
  <2>1. expandIndex' # 0
    BY <1>1, <1>5
  <2>2. Stepped!Read(hitAddr, SteppedSizes[expandIndex])' = Stepped!Read(hitAddr, SteppedSizes[i])
    BY <1>1, <1>2 DEF Stepped!Read
  <2>3. QED
    BY <1>2, <2>1, <2>2 DEF SteppedTaskInv
<1>12. ProbesInv'
  <2>1. \A k \in 1 .. probeIndex : Readable(Stepped!probeTasks[k]) =>
          hasHit /\ Stepped!Covered(Stepped!probeTasks[k]) \subseteq captured
    BY <1>0, <1>4 DEF ProbesInv
  <2>2. \E k \in 1 .. probeIndex :
          /\ Readable(Stepped!probeTasks[k]) /\ hitAddr = Stepped!probeTasks[k].start
          /\ \A j \in 1 .. probeIndex : j < k => ~Readable(Stepped!probeTasks[j])
    BY <1>0, <1>4 DEF ProbesInv
  <2>3. probeIndex' <= Len(Stepped!probeTasks')
    BY <1>0, <1>2, <1>7 DEF ProbesInv
  <2>4. QED
    BY <1>1, <1>2, <1>4, <1>6, <1>7, <1>8, <1>9, <2>1, <2>2, <2>3 DEF ProbesInv
<1>13. QED
  BY <1>10, <1>11, <1>12

\* A position that is left without a read.
LEMMA LeaveKept ==
  ASSUME SteppedTypes, SteppedInv, HitInv, ~device.lossy, Stepped!NothingFits \/ Stepped!NoHit
  PROVE  SteppedTaskInv' /\ ProbesInv' /\ PassedInv'
<1>0. ProbesInv
  BY DEF HitInv
<1>1. /\ Stepped!Idle /\ Stepped!GoToNextStep /\ device' = device /\ captured' = captured
      /\ task' = Stepped!NoTask
      /\ Stepped!NothingFits \/ ~Stepped!ReadyToExpand
  BY DEF Stepped!NothingFits, Stepped!NoHit, Stepped!loopVars, Stepped!Idle
<1>2. ~Stepped!MoreProbes
  BY SizesDescend DEF Stepped!NothingFits, Stepped!NoHit, Stepped!ReadyToExpand,
    Stepped!MoreProbes, SteppedTypes
<1>3. Settled = Len(Stepped!probeTasks) /\ (hasHit => Stepped!ReadyToExpand)
  BY <1>0, <1>1, <1>2, ProbesAreMade
<1>4. ASSUME hasHit, NEW i \in DOMAIN SteppedSizes PROVE Futile(i)
  <2>1. Stepped!FittingFrom(expandIndex) = {}
    BY <1>1, <1>3, <1>4 DEF Stepped!NothingFits
  <2>2. Len(SteppedSizes) \in Nat /\ i \in 1 .. Len(SteppedSizes)
    BY SizesDescend
  <2>3. PICK n \in 1 .. Len(SteppedSizes) + 1 : i < n
    BY <2>2
  <2>4. QED
    BY <1>0, <2>1, <2>2, <2>3, PassedSizes
<1>5. QED
  BY <1>1, <1>3, <1>4, PositionDone

\* The results of the expansions.
LEMMA ExpansionKept ==
  ASSUME SteppedTypes, SteppedInv, HitInv, ~device.lossy, Stepped!ExpansionSuccess \/ Stepped!ExpansionFailure
  PROVE  SteppedTaskInv' /\ ProbesInv' /\ PassedInv'
<1>0. SteppedTaskInv /\ ProbesInv /\ PassedInv
  BY DEF HitInv
<1>1. /\ expandIndex > 0 /\ task # Stepped!NoTask /\ task' = Stepped!NoTask /\ device' = device
      /\ captured \subseteq captured' /\ (Stepped!Answered \/ Stepped!Refused)
      /\ Stepped!Answered => Stepped!Covered(task) \subseteq captured'
      /\ Stepped!Refused => ~Readable(task) /\ captured' = captured
  BY DEF Stepped!ExpansionSuccess, Stepped!ExpansionFailure, Stepped!Answered, Stepped!Refused,
    Readable,
    Stepped!readable
<1>2. expandIndex \in 1 .. Len(SteppedSizes) /\ Len(SteppedSizes) \in Nat
  BY <1>1, SizesDescend DEF SteppedTypes
<1>3. task = Stepped!Read(hitAddr, SteppedSizes[expandIndex])
  BY <1>0, <1>1, <1>2 DEF SteppedTaskInv
<1>4. hasHit /\ probeIndex = Len(Stepped!probeTasks) /\ Settled = probeIndex
  BY <1>0, <1>1, <1>2 DEF ProbesInv, Settled
<1>5. \A i \in 1 .. Len(SteppedSizes) : i < expandIndex => Futile(i)
  BY <1>0 DEF ProbesInv
<1>6. CASE Stepped!ExpansionSuccess
  <2>1. Stepped!GoToNextStep /\ Stepped!Covered(task) \subseteq captured'
    BY <1>1, <1>6 DEF Stepped!ExpansionSuccess
  <2>2. ASSUME NEW i \in DOMAIN SteppedSizes
        PROVE  \/ Futile(i)
               \/ Stepped!Covered(Stepped!Read(hitAddr, SteppedSizes[i])) \subseteq captured'
    <3>1. i \in 1 .. Len(SteppedSizes)
      BY SizesDescend
    <3>2. CASE i < expandIndex
      BY <1>5, <3>1, <3>2
    <3>3. CASE expandIndex <= i
      <4>1. Stepped!Covered(Stepped!Read(hitAddr, SteppedSizes[i])) \subseteq Stepped!Covered(task)
        BY <1>2, <1>3, <3>1, <3>3, LargerHolds
      <4>2. QED
        BY <2>1, <4>1
    <3>4. QED
      BY <1>2, <3>1, <3>2, <3>3
  <2>3. QED
    BY <1>1, <1>4, <2>1, <2>2, PositionDone
<1>7. CASE Stepped!ExpansionFailure
  <2>1. Stepped!Refused /\ Futile(expandIndex)
    BY <1>1, <1>3, <1>7 DEF Stepped!ExpansionFailure, Futile
  <2>2. \A i \in 1 .. Len(SteppedSizes) : i < expandIndex + 1 => Futile(i)
    <3>1. \A i \in 1 .. Len(SteppedSizes) : i < expandIndex + 1 => i < expandIndex \/ i = expandIndex
      BY <1>2
    <3>2. QED
      BY <1>5, <2>1, <3>1
  <2>3. CASE expandIndex = Len(SteppedSizes)
    <3>1. Stepped!GoToNextStep
      BY <1>7, <2>3 DEF Stepped!ExpansionFailure
    <3>2. \A i \in DOMAIN SteppedSizes : Futile(i)
      BY <1>2, <2>2, <2>3, SizesDescend
    <3>3. QED
      BY <1>1, <1>4, <3>1, <3>2, PositionDone
  <2>4. CASE expandIndex # Len(SteppedSizes)
    <3>1. expandIndex' = expandIndex + 1 /\ UNCHANGED <<stepIndex, probeIndex, hasHit, hitAddr>>
      BY <1>7, <2>4 DEF Stepped!ExpansionFailure, Stepped!NextSize
    <3>2. /\ Stepped!probeTasks' = Stepped!probeTasks /\ Stepped!NoTask' = Stepped!NoTask
          /\ captured' = captured
      BY <1>1, <2>1, <3>1, SameProbes DEF Stepped!NoTask, Stepped!Read
    <3>3. /\ \A t : (Readable(t)' <=> Readable(t)) /\ Stepped!Covered(t)' = Stepped!Covered(t)
          /\ \A j : Futile(j)' <=> Futile(j)
      BY <1>1, <3>1, SameReads
    <3>4. PassedInv'
      BY <1>0, <1>1, <3>1, PassedStays
    <3>5. SteppedTaskInv'
      BY <1>1, <3>2 DEF SteppedTaskInv
    <3>6. Settled' = probeIndex
      BY <1>1, <3>1, <3>2 DEF Settled
    <3>7. ProbesInv'
      <4>1. \A k \in 1 .. probeIndex : Readable(Stepped!probeTasks[k]) =>
              hasHit /\ Stepped!Covered(Stepped!probeTasks[k]) \subseteq captured
        BY <1>0, <1>4 DEF ProbesInv
      <4>2. \E k \in 1 .. probeIndex :
              /\ Readable(Stepped!probeTasks[k]) /\ hitAddr = Stepped!probeTasks[k].start
              /\ \A j \in 1 .. probeIndex : j < k => ~Readable(Stepped!probeTasks[j])
        BY <1>0, <1>4 DEF ProbesInv
      <4>3. probeIndex' <= Len(Stepped!probeTasks')
        BY <1>0, <3>1, <3>2 DEF ProbesInv
      <4>4. \A i \in 1 .. Len(SteppedSizes) : i < expandIndex' => Futile(i)
        BY <2>2, <3>1
      <4>5. QED
        BY <1>4, <3>1, <3>2, <3>3, <3>6, <4>1, <4>2, <4>3, <4>4 DEF ProbesInv
    <3>8. QED
      BY <3>4, <3>5, <3>7
  <2>5. QED
    BY <2>3, <2>4
<1>8. QED
  BY <1>6, <1>7

\* Nothing is owed at the start.
LEMMA SteppedHitInit == Stepped!Init => HitInv
<1> SUFFICES ASSUME Stepped!Init PROVE HitInv
  OBVIOUS
<1>1. /\ task = Stepped!NoTask /\ finished = FALSE /\ stepIndex = 1 /\ probeIndex = 0
      /\ hasHit = FALSE /\ expandIndex = 0 /\ device.readable \subseteq Stepped!Addr
  BY DEF Stepped!Init, Stepped!LoopInit
<1>2. SteppedTaskInv
  BY <1>1 DEF SteppedTaskInv
<1>3. ProbesInv
  <2>1. Settled = 0 /\ (\A k : k \notin 1 .. 0)
    BY <1>1 DEF Settled
  <2>2. probeIndex <= Len(Stepped!probeTasks)
    BY <1>1, SixProbes
  <2>3. \A i \in 1 .. Len(SteppedSizes) : ~(i < expandIndex)
    BY <1>1, SizesDescend
  <2>4. ~(expandIndex > 0)
    BY <1>1
  <2>5. QED
    BY <1>1, <2>1, <2>2, <2>3, <2>4 DEF ProbesInv
<1>4. PassedInv
  <2>1. \A p \in Stepped!stepPositions : ~(StepRank(p) < stepIndex - 1)
    BY <1>1, RankFacts, PositionsFacts
  <2>2. QED
    BY <2>1 DEF PassedInv
<1>5. QED
  BY <1>1, <1>2, <1>3, <1>4 DEF HitInv

\* Every step of stepped keeps what is owed.
LEMMA SteppedHitStep ==
  SteppedInv /\ SteppedTypes /\ HitInv /\ [Stepped!Next]_(Stepped!vars) => HitInv'
<1> SUFFICES ASSUME SteppedInv, SteppedTypes, HitInv, [Stepped!Next]_(Stepped!vars) PROVE HitInv'
  OBVIOUS
<1>1. /\ device' = device
      /\ stepIndex' = stepIndex \/ stepIndex' = stepIndex + 1
      /\ Stepped!Finish \/ finished' = finished
  BY DEF Stepped!Next, Stepped!IssueProbe, Stepped!Expand, Stepped!NothingFits, Stepped!NoHit,
    Stepped!Finish,
    Stepped!ProbeResult, Stepped!ExpansionSuccess, Stepped!ExpansionFailure, Stepped!GoToNextStep,
    Stepped!Issue, Stepped!Leave, Stepped!Answered, Stepped!Refused, Stepped!loopVars,
    Stepped!strategyVars,
    Stepped!vars
<1>2. StepCount' = StepCount /\ StepCount \in Nat /\ stepIndex \in 1 .. StepCount + 1
  BY PositionsFacts DEF SteppedTypes, StepCount, Cardinality, Stepped!stepPositions, Stepped!IsBase,
    Stepped!IsHalf, Stepped!ScanRange, Stepped!Wrap
<1>3. device'.readable \subseteq Stepped!Addr'
  BY <1>1 DEF HitInv, Stepped!Addr
<1>4. finished' => stepIndex' > StepCount'
  <2>1. CASE Stepped!Finish
    <3>1. stepIndex' = stepIndex /\ ~Stepped!MoreSteps
      BY <2>1 DEF Stepped!Finish, Stepped!strategyVars
    <3>2. stepIndex > StepCount
      BY <1>2, <3>1, CurrentFacts
    <3>3. QED
      BY <1>2, <3>1, <3>2
  <2>2. CASE finished' = finished
    <3>1. finished => stepIndex > StepCount /\ stepIndex + 1 > StepCount
      BY <1>2 DEF HitInv
    <3>2. QED
      BY <1>1, <1>2, <2>2, <3>1
  <2>3. QED
    BY <1>1, <2>1, <2>2
<1>5. ASSUME ~device.lossy
      PROVE  SteppedTaskInv' /\ ProbesInv' /\ PassedInv'
  <2>1. CASE Stepped!IssueProbe \/ Stepped!ProbeResult
    BY <1>5, <2>1, ProbesKept
  <2>2. CASE Stepped!Expand
    BY <1>5, <2>2, ExpandKept
  <2>3. CASE Stepped!NothingFits \/ Stepped!NoHit
    BY <1>5, <2>3, LeaveKept
  <2>4. CASE Stepped!ExpansionSuccess \/ Stepped!ExpansionFailure
    BY <1>5, <2>4, ExpansionKept
  <2>5. CASE Stepped!Finish \/ UNCHANGED Stepped!vars
    <3>1. UNCHANGED <<device, captured, task, stepIndex, probeIndex, hasHit, hitAddr, expandIndex>>
      BY <2>5 DEF Stepped!Finish, Stepped!Leave, Stepped!strategyVars, Stepped!vars,
        Stepped!loopVars
    <3>2. SteppedTaskInv /\ ProbesInv /\ PassedInv
      BY <1>5 DEF HitInv
    <3>3. Stepped!probeTasks' = Stepped!probeTasks /\ Stepped!NoTask' = Stepped!NoTask
      BY <3>1, SameProbes DEF Stepped!NoTask, Stepped!Read
    <3>4. /\ \A t : (Readable(t)' <=> Readable(t)) /\ Stepped!Covered(t)' = Stepped!Covered(t)
          /\ \A j : Futile(j)' <=> Futile(j)
      BY <3>1, SameReads
    <3>5. SteppedTaskInv'
      BY <3>1, <3>2, <3>3 DEF SteppedTaskInv, Stepped!Read
    <3>6. ProbesInv'
      <4>1. Settled' = Settled
        BY <3>1, <3>3 DEF Settled
      <4>2. QED
        BY <3>1, <3>2, <3>3, <3>4, <4>1 DEF ProbesInv
    <3>7. PassedInv'
      BY <3>1, <3>2, PassedStays
    <3>8. QED
      BY <3>5, <3>6, <3>7
  <2>6. QED
    BY <2>1, <2>2, <2>3, <2>4, <2>5 DEF Stepped!Next
<1>6. QED
  BY <1>1, <1>3, <1>4, <1>5 DEF HitInv
-----------------------------------------------------------------------------
(* The types of the fields.                                                *)

\* A step of the loop.
LoopStep == UNCHANGED loopVars \/ Answered \/ Refused \/ Leave \/ \E t : Issue(t)

\* The types of the loop are those of every strategy.
LEMMA SameLoopTypes ==
  /\ Boundary!LoopTypeOK <=> LoopTypeOK
  /\ Linear!LoopTypeOK <=> LoopTypeOK
  /\ Stepped!LoopTypeOK <=> LoopTypeOK
  /\ SunSpec!LoopTypeOK <=> LoopTypeOK
  BY DEF LoopTypeOK, Addr, NoTask, Read, Boundary!LoopTypeOK, Boundary!Addr, Boundary!NoTask,
    Boundary!Read,
    Linear!LoopTypeOK, Linear!Addr, Linear!NoTask, Linear!Read,
    Stepped!LoopTypeOK, Stepped!Addr, Stepped!NoTask, Stepped!Read,
    SunSpec!LoopTypeOK, SunSpec!Addr, SunSpec!NoTask, SunSpec!Read

\* A read of the loop.
Reads == [start : Addr, count : 1 .. MaxBlock]

\* A step of the loop keeps the types if what it hands out is a read.
LEMMA LoopTypesKept ==
  ASSUME LoopTypeOK, LoopStep, task' \in Reads \cup {NoTask}
  PROVE  LoopTypeOK'
<1>1. device' = device /\ device \in [readable : SUBSET Addr, lossy : BOOLEAN]
  BY DEF LoopStep, loopVars, Answered, Refused, Leave, Issue, LoopTypeOK
<1>2. captured' \subseteq Addr
  <2>1. captured' = captured \/ captured' \subseteq captured \cup readable
    BY DEF LoopStep, loopVars, Answered, Refused, Leave, Issue
  <2>2. QED
    BY <1>1, <2>1 DEF LoopTypeOK, readable
<1>3. refused' \subseteq Addr
  <2>1. refused' = refused \/ (task # NoTask /\ refused' \subseteq refused \cup {task.start})
    BY DEF LoopStep, loopVars, Answered, Refused, Leave, Issue
  <2>2. QED
    BY <2>1 DEF LoopTypeOK
<1>4. requests' \in 0 .. RequestCap
  <2>1. requests' = requests \/ requests' = Count(requests)
    BY DEF LoopStep, loopVars, Answered, Refused, Leave, Issue
  <2>2. requests \in 0 .. RequestCap /\ Count(requests) \in 0 .. RequestCap
    BY ScanAssumption DEF LoopTypeOK, Count
  <2>3. QED
    BY <2>1, <2>2
<1>5. finished' \in BOOLEAN
  <2>1. finished' = finished \/ finished' = TRUE
    BY Zenon DEF LoopStep, loopVars, Answered, Refused, Leave, Issue
  <2>2. QED
    BY <2>1, Zenon DEF LoopTypeOK
<1>6. Addr' = Addr /\ NoTask' = NoTask
  BY DEF Addr, NoTask, Read
<1>7. device' \in [readable : SUBSET Addr, lossy : BOOLEAN]
  BY <1>1
<1>8. task' \in [start : Addr, count : 1 .. MaxBlock] \cup {NoTask}
  BY DEF Reads
<1>9. QED
  BY <1>2, <1>3, <1>4, <1>5, <1>6, <1>7, <1>8, Zenon DEF LoopTypeOK

\* The loop starts with values of those types.
LEMMA LoopTypesInit == LoopInit /\ RequestCap \in Nat => LoopTypeOK
<1> SUFFICES ASSUME LoopInit, RequestCap \in Nat PROVE LoopTypeOK
  OBVIOUS
<1>1. finished \in BOOLEAN
  BY Zenon DEF LoopInit
<1>2. requests \in 0 .. RequestCap
  BY DEF LoopInit
<1>3. QED
  BY <1>1, <1>2, Zenon DEF LoopInit, LoopTypeOK

\* boundary uses the loop as it is.
LEMMA BoundaryLoop ==
  ASSUME [Boundary!Next]_(Boundary!vars)
  PROVE  /\ LoopStep
         /\ task' = task \/ task' = NoTask \/ \E a, n : task' = Read(a, n)
<1>1. CASE \/ Boundary!EmitSeed \/ Boundary!LeftExpand \/ Boundary!LeftSearch
           \/ Boundary!RightExpand \/ Boundary!RightSearch
  <2>1. \E a, n : Boundary!Issue(Boundary!Read(a, n))
    BY <1>1, Zenon DEF Boundary!EmitSeed, Boundary!LeftExpand, Boundary!LeftSearch,
      Boundary!RightExpand,
      Boundary!RightSearch, Boundary!Between
  <2>2. PICK a, n : Boundary!Issue(Boundary!Read(a, n))
    BY <2>1
  <2>3. Issue(Read(a, n)) /\ task' = Read(a, n)
    BY <2>2 DEF Boundary!Issue, Boundary!Idle, Boundary!Count, Boundary!NoTask, Boundary!Read,
      Issue, Idle,
      Count, NoTask, Read
  <2>4. QED
    BY <2>3 DEF LoopStep
<1>2. CASE \/ Boundary!SeedDone \/ Boundary!LeftExpandOver \/ Boundary!NextLeftWindow \/ Boundary!LeftEdgeFound
           \/ Boundary!RightExpandOver \/ Boundary!RightSearchOver \/ UNCHANGED Boundary!vars
  <2>1. UNCHANGED loopVars
    BY <1>2 DEF Boundary!SeedDone, Boundary!LeftExpandOver, Boundary!NextLeftWindow,
      Boundary!LeftEdgeFound,
      Boundary!RightExpandOver, Boundary!RightSearchOver, Boundary!OpenLeftWindow,
      Boundary!OpenRightWindow,
      Boundary!Conclude, Boundary!vars, Boundary!loopVars, loopVars
  <2>2. QED
    BY <2>1 DEF LoopStep, loopVars
<1>3. CASE \/ Boundary!SeedResult \/ Boundary!LeftExpandResult \/ Boundary!LeftBinaryResult
           \/ Boundary!RightExpandResult \/ Boundary!RightBinaryResult
  <2>1. Boundary!Answered \/ Boundary!Refused
    BY <1>3 DEF Boundary!SeedResult, Boundary!LeftExpandResult, Boundary!LeftBinaryResult,
      Boundary!RightExpandResult, Boundary!RightBinaryResult
  <2>2. QED
    BY <2>1, SameLoop DEF LoopStep, Answered, Refused
<1>4. CASE Boundary!Finish
  <2>1. Leave /\ task' = task
    BY <1>4 DEF Boundary!Finish, Boundary!Leave, Boundary!Idle, Boundary!NoTask, Boundary!Read,
      Leave, Idle,
      NoTask, Read
  <2>2. QED
    BY <2>1 DEF LoopStep
<1>5. QED
  BY <1>1, <1>2, <1>3, <1>4 DEF Boundary!Next

\* The types of the fields of boundary: the ends of its block and its windows
\* are positions of the range.
LEMMA BoundaryTypeStep ==
  BoundaryInv /\ BoundaryInv' /\ Boundary!TypeOK /\ [Boundary!Next]_(Boundary!vars) => Boundary!TypeOK'
<1> SUFFICES ASSUME BoundaryInv, BoundaryInv', Boundary!TypeOK, [Boundary!Next]_(Boundary!vars)
             PROVE  Boundary!TypeOK'
  OBVIOUS
<1>1. LoopTypeOK
  BY SameLoopTypes DEF Boundary!TypeOK
<1>2. task' \in Reads \cup {NoTask}
  <2>1. CASE task' = task
    BY <1>1, <2>1 DEF LoopTypeOK, Reads
  <2>2. CASE task' = NoTask
    BY <2>2
  <2>3. CASE task' # NoTask /\ \E a, n : task' = Read(a, n)
    <3>1. PICK a, n : task' = [start |-> a, count |-> n]
      BY <2>3 DEF Read
    <3>2. task' # Boundary!NoTask'
      BY <2>3 DEF Boundary!NoTask, Boundary!Read, NoTask, Read
    <3>3. /\ a \in Int /\ n \in 1 .. MaxBlock
          /\ phase' = "seed" => a = blockStart' /\ a + n = blockEnd'
          /\ phase' \in {"leftExpand", "leftBinary"} => StartAddress <= a /\ a + n = blockStart'
          /\ phase' \in {"rightExpand", "rightBinary"} => a = blockEnd' /\ a + n <= EndAddress + 1
          /\ phase' # "done"
      BY <3>1, <3>2 DEF BoundaryInv, BoundaryTaskInv
    <3>4. /\ phase' \in Boundary!Phases /\ blockStart' \in Int /\ blockEnd' \in Int
          /\ StartAddress <= blockStart' /\ blockStart' < blockEnd' /\ blockEnd' <= EndAddress + 1
      BY <3>3 DEF BoundaryInv, BoundaryTypes, BlockInv, Boundary!Phases
    <3>5. StartAddress <= a /\ a + n <= EndAddress + 1
      <4>1. CASE phase' = "seed"
        BY <3>3, <3>4, <4>1, Bounds
      <4>2. CASE phase' \in {"leftExpand", "leftBinary"}
        BY <3>3, <3>4, <4>2, Bounds
      <4>3. CASE phase' \in {"rightExpand", "rightBinary"}
        BY <3>3, <3>4, <4>3, Bounds
      <4>4. QED
        BY <3>3, <3>4, <4>1, <4>2, <4>3 DEF Boundary!Phases
    <3>6. a \in Addr /\ n \in 1 .. MaxBlock
      BY <3>3, <3>5, Bounds DEF Addr
    <3>7. QED
      BY <3>1, <3>6 DEF Reads
  <2>4. QED
    BY <2>1, <2>2, <2>3, BoundaryLoop
<1>3. Boundary!LoopTypeOK'
  <2>1. LoopTypeOK'
    BY <1>1, <1>2, BoundaryLoop, LoopTypesKept
  <2>2. (Boundary!LoopTypeOK <=> LoopTypeOK)'
    BY SameLoopTypes, PTL
  <2>3. QED
    BY <2>1, <2>2
<1>4. /\ phase' \in Boundary!Phases /\ seedEmitted' \in BOOLEAN
      /\ leftExpandIdx' \in 0 .. Len(BoundarySizes) /\ rightExpandIdx' \in 0 .. Len(BoundarySizes)
      /\ blockStart' \in Int /\ blockEnd' \in Int
      /\ left' \in [low : Int, high : Int, floor : Int]
         /\ right' \in [low : Int, high : Int, ceil : Int]
  BY Zenon DEF BoundaryInv, BoundaryTypes
<1>5. /\ blockStart \in Boundary!Position /\ blockEnd \in Boundary!Position
      /\ left \in [low : Boundary!Position, high : Boundary!Position, floor : Boundary!Position]
      /\ right \in [low : Boundary!Position, high : Boundary!Position, ceil : Boundary!Position]
  BY DEF Boundary!TypeOK
<1>6. /\ \A a \in Int : 0 <= a /\ a <= AddrMax + 1 => a \in Boundary!Position
      /\ \A a \in Boundary!Position : a \in Int /\ 0 <= a /\ a <= AddrMax + 1
  BY Bounds DEF Boundary!Position
<1>7. blockStart' \in Boundary!Position /\ blockEnd' \in Boundary!Position
  <2>1. CASE phase' # "done"
    <3>1. StartAddress <= blockStart' /\ blockStart' < blockEnd' /\ blockEnd' <= EndAddress + 1
      BY <2>1 DEF BoundaryInv, BlockInv
    <3>2. QED
      BY <1>4, <1>6, <3>1, Bounds
  <2>2. CASE blockStart' = blockStart /\ blockEnd' = blockEnd
    BY <1>5, <2>2
  <2>3. phase' # "done" \/ (blockStart' = blockStart /\ blockEnd' = blockEnd)
    BY DEF Boundary!Next, Boundary!EmitSeed, Boundary!LeftExpand, Boundary!LeftSearch,
      Boundary!RightExpand,
      Boundary!RightSearch, Boundary!SeedDone, Boundary!LeftExpandOver, Boundary!NextLeftWindow,
      Boundary!LeftEdgeFound, Boundary!RightExpandOver, Boundary!RightSearchOver,
      Boundary!OpenLeftWindow,
      Boundary!OpenRightWindow, Boundary!Conclude, Boundary!SeedResult, Boundary!LeftExpandResult,
      Boundary!LeftBinaryResult, Boundary!RightExpandResult, Boundary!RightBinaryResult,
      Boundary!Finish,
      Boundary!vars, Boundary!strategyVars
  <2>4. QED
    BY <2>1, <2>2, <2>3
<1>8. left' \in [low : Boundary!Position, high : Boundary!Position, floor : Boundary!Position]
  <2>1. CASE left' = left
    BY <1>5, <2>1
  <2>2. CASE phase' = "leftBinary"
    <3>1. /\ left'.high = blockStart' /\ StartAddress <= left'.floor /\ left'.floor <= left'.low
          /\ left'.low <= left'.high
      BY <2>2 DEF BoundaryInv, LeftInv
    <3>2. left'.low \in Int /\ left'.high \in Int /\ left'.floor \in Int
      BY <1>4
    <3>3. left'.low \in Boundary!Position /\ left'.high \in Boundary!Position
          /\ left'.floor \in Boundary!Position
      BY <1>6, <1>7, <3>1, <3>2, Bounds
    <3>4. QED
      BY <1>4, <3>3
  <2>3. phase' = "leftBinary" \/ left' = left
    BY DEF Boundary!Next, Boundary!EmitSeed, Boundary!LeftExpand, Boundary!LeftSearch,
      Boundary!RightExpand,
      Boundary!RightSearch, Boundary!SeedDone, Boundary!LeftExpandOver, Boundary!NextLeftWindow,
      Boundary!LeftEdgeFound, Boundary!RightExpandOver, Boundary!RightSearchOver,
      Boundary!OpenLeftWindow,
      Boundary!OpenRightWindow, Boundary!Conclude, Boundary!SeedResult, Boundary!LeftExpandResult,
      Boundary!LeftBinaryResult, Boundary!RightExpandResult, Boundary!RightBinaryResult,
      Boundary!Finish,
      Boundary!vars, Boundary!strategyVars
  <2>4. QED
    BY <2>1, <2>2, <2>3
<1>9. right' \in [low : Boundary!Position, high : Boundary!Position, ceil : Boundary!Position]
  <2>1. CASE right' = right
    BY <1>5, <2>1
  <2>2. CASE phase' = "rightBinary"
    <3>1. /\ right'.low = blockEnd' /\ right'.low <= right'.high + 1 /\ right'.high <= right'.ceil
          /\ right'.ceil <= EndAddress
      BY <2>2 DEF BoundaryInv, RightInv
    <3>2. right'.low \in Int /\ right'.high \in Int /\ right'.ceil \in Int
      BY <1>4
    <3>3. 1 <= blockEnd'
      BY <1>4, <2>2, Bounds DEF BoundaryInv, BlockInv
    <3>4. right'.low \in Boundary!Position /\ right'.high \in Boundary!Position
          /\ right'.ceil \in Boundary!Position
      BY <1>4, <1>6, <1>7, <3>1, <3>2, <3>3, Bounds
    <3>5. QED
      BY <1>4, <3>4
  <2>3. phase' = "rightBinary" \/ right' = right
    BY DEF Boundary!Next, Boundary!EmitSeed, Boundary!LeftExpand, Boundary!LeftSearch,
      Boundary!RightExpand,
      Boundary!RightSearch, Boundary!SeedDone, Boundary!LeftExpandOver, Boundary!NextLeftWindow,
      Boundary!LeftEdgeFound, Boundary!RightExpandOver, Boundary!RightSearchOver,
      Boundary!OpenLeftWindow,
      Boundary!OpenRightWindow, Boundary!Conclude, Boundary!SeedResult, Boundary!LeftExpandResult,
      Boundary!LeftBinaryResult, Boundary!RightExpandResult, Boundary!RightBinaryResult,
      Boundary!Finish,
      Boundary!vars, Boundary!strategyVars
  <2>4. QED
    BY <2>1, <2>2, <2>3
<1>10. Boundary!Position' = Boundary!Position /\ Boundary!Phases' = Boundary!Phases
  BY DEF Boundary!Position, Boundary!Phases
<1>11. QED
  BY <1>3, <1>4, <1>7, <1>8, <1>9, <1>10, Zenon DEF Boundary!TypeOK

\* The types at the start.
LEMMA BoundaryTypeInit == Boundary!Init => Boundary!TypeOK
<1> SUFFICES ASSUME Boundary!Init PROVE Boundary!TypeOK
  OBVIOUS
<1>1. Boundary!LoopTypeOK
  <2>1. LoopInit
    BY DEF Boundary!Init, Boundary!LoopInit, LoopInit, Boundary!NoTask, Boundary!Read, NoTask, Read,
      Boundary!Addr, Addr
  <2>2. QED
    BY <2>1, LoopTypesInit, SameLoopTypes, ScanAssumption
<1>2. PICK seed \in Seeds : blockStart = seed.start /\ blockEnd = seed.start + seed.count
  BY DEF Boundary!Init
<1>3. blockStart \in Boundary!Position /\ blockEnd \in Boundary!Position
  BY <1>2, BoundaryAssumption, Bounds DEF Boundary!Position
<1>4. BoundaryTypes
  BY BoundaryInit DEF BoundaryInv
<1>5. 0 \in Boundary!Position
  BY Bounds DEF Boundary!Position
<1>6. /\ left \in [low : Boundary!Position, high : Boundary!Position, floor : Boundary!Position]
      /\ right \in [low : Boundary!Position, high : Boundary!Position, ceil : Boundary!Position]
  BY <1>5 DEF Boundary!Init
<1>7. QED
  BY <1>1, <1>3, <1>4, <1>6, Zenon DEF BoundaryTypes, Boundary!TypeOK

\* stepped uses the loop as it is.
LEMMA SteppedLoop ==
  ASSUME [Stepped!Next]_(Stepped!vars), SteppedInv, SteppedInv'
  PROVE  LoopStep /\ (task' = NoTask \/ task' \in NearReads)
<1>1. task' = NoTask \/ task' \in NearReads
  <2>1. Stepped!NoTask' = NoTask
    BY DEF Stepped!NoTask, Stepped!Read, NoTask, Read
  <2>2. NearReads' = NearReads
    BY DEF NearReads, Stepped!ProbeFloor, Stepped!ProbeCeiling, Stepped!LastOf
  <2>3. QED
    BY <2>1, <2>2 DEF SteppedInv
<1>2. CASE Stepped!IssueProbe \/ Stepped!Expand
  <2>1. PICK t : Stepped!Issue(t)
    BY <1>2 DEF Stepped!IssueProbe, Stepped!Expand
  <2>2. Issue(t)
    BY <2>1 DEF Stepped!Issue, Stepped!Idle, Stepped!Count, Stepped!NoTask, Stepped!Read,
      Issue, Idle,
      Count, NoTask, Read
  <2>3. QED
    BY <1>1, <2>2 DEF LoopStep
<1>3. CASE Stepped!NothingFits \/ Stepped!NoHit \/ UNCHANGED Stepped!vars
  <2>1. UNCHANGED loopVars
    BY <1>3 DEF Stepped!NothingFits, Stepped!NoHit, Stepped!vars, Stepped!loopVars, loopVars
  <2>2. QED
    BY <1>1, <2>1 DEF LoopStep
<1>4. CASE Stepped!ProbeResult \/ Stepped!ExpansionSuccess \/ Stepped!ExpansionFailure
  <2>1. Stepped!Answered \/ Stepped!Refused
    BY <1>4 DEF Stepped!ProbeResult, Stepped!ExpansionSuccess, Stepped!ExpansionFailure
  <2>2. Answered \/ Refused
    BY <2>1 DEF Stepped!Answered, Stepped!Refused, Stepped!Covered, Stepped!LastOf,
      Stepped!readable,
      Stepped!NoTask, Stepped!Read, Answered, Refused, Covered, LastOf, readable, NoTask, Read
  <2>3. QED
    BY <1>1, <2>2 DEF LoopStep
<1>5. CASE Stepped!Finish
  <2>1. Leave
    BY <1>5 DEF Stepped!Finish, Stepped!Leave, Stepped!Idle, Stepped!NoTask, Stepped!Read,
      Leave, Idle,
      NoTask, Read
  <2>2. QED
    BY <1>1, <2>1 DEF LoopStep
<1>6. QED
  BY <1>2, <1>3, <1>4, <1>5 DEF Stepped!Next

\* The types of the fields of stepped.
LEMMA SteppedTypeStep ==
  /\ SteppedInv /\ SteppedInv' /\ SteppedTypes /\ SteppedTypes'
  /\ Stepped!TypeOK /\ [Stepped!Next]_(Stepped!vars)
  => Stepped!TypeOK'
<1> SUFFICES ASSUME SteppedInv, SteppedInv', SteppedTypes, SteppedTypes', Stepped!TypeOK,
                    [Stepped!Next]_(Stepped!vars)
             PROVE  Stepped!TypeOK'
  OBVIOUS
<1>1. LoopTypeOK
  BY SameLoopTypes DEF Stepped!TypeOK
<1>2. task' \in Reads \cup {NoTask}
  <2>1. CASE task' \in NearReads
    <3>1. task' \in [start : Int, count : 1 .. MaxBlock] /\ Stepped!ProbeFloor <= task'.start
          /\ task'.start + task'.count - 1 <= Stepped!ProbeCeiling
      BY <2>1 DEF NearReads, Stepped!LastOf
    <3>2. task'.start \in Addr
      BY <3>1, NearFacts, Bounds DEF Addr
    <3>3. QED
      BY <3>1, <3>2 DEF Reads
  <2>2. QED
    BY <2>1, SteppedLoop
<1>3. Stepped!LoopTypeOK'
  <2>1. LoopTypeOK'
    BY <1>1, <1>2, SteppedLoop, LoopTypesKept
  <2>2. (Stepped!LoopTypeOK <=> LoopTypeOK)'
    BY SameLoopTypes, PTL
  <2>3. QED
    BY <2>1, <2>2
<1>4. hitAddr' \in Stepped!Addr'
  <2>1. \/ hitAddr' = hitAddr \/ hitAddr' = 0
        \/ task # Stepped!NoTask /\ hitAddr' = task.start
    BY DEF Stepped!Next, Stepped!IssueProbe, Stepped!Expand, Stepped!NothingFits,
      Stepped!NoHit, Stepped!Finish,
      Stepped!ProbeResult, Stepped!ExpansionSuccess, Stepped!ExpansionFailure, Stepped!GoToNextStep,
      Stepped!Answered, Stepped!strategyVars, Stepped!vars
  <2>2. hitAddr \in Stepped!Addr /\ 0 \in Stepped!Addr
    BY Bounds DEF Stepped!TypeOK, Stepped!Addr
  <2>3. task # Stepped!NoTask => task.start \in Stepped!Addr
    BY DEF Stepped!TypeOK, Stepped!LoopTypeOK
  <2>4. Stepped!Addr' = Stepped!Addr
    BY DEF Stepped!Addr
  <2>5. QED
    BY <2>1, <2>2, <2>3, <2>4
<1>5. stepIndex' \in 1 .. Stepped!Cardinality(Stepped!stepPositions)' + 1
  <2>1. (Stepped!Cardinality(Stepped!stepPositions) = StepCount)'
    BY PositionsFacts, PTL
  <2>2. QED
    BY <2>1 DEF SteppedTypes
<1>6. probeIndex' \in 0 .. 6 /\ hasHit' \in BOOLEAN /\ expandIndex' \in 0 .. Len(SteppedSizes)
  BY Zenon DEF SteppedTypes
<1>7. QED
  BY <1>3, <1>4, <1>5, <1>6, Zenon DEF Stepped!TypeOK

\* The types at the start.
LEMMA SteppedTypeInit == Stepped!Init => Stepped!TypeOK
<1> SUFFICES ASSUME Stepped!Init PROVE Stepped!TypeOK
  OBVIOUS
<1>1. Stepped!LoopTypeOK
  <2>1. LoopInit
    BY DEF Stepped!Init, Stepped!LoopInit, LoopInit, Stepped!NoTask, Stepped!Read, NoTask, Read,
      Stepped!Addr, Addr
  <2>2. QED
    BY <2>1, LoopTypesInit, SameLoopTypes, ScanAssumption
<1>2. SteppedTypes
  BY SteppedCostInit DEF SteppedCostInv
<1>3. hitAddr \in Stepped!Addr
  BY Bounds DEF Stepped!Init, Stepped!Addr
<1>4. stepIndex \in 1 .. Stepped!Cardinality(Stepped!stepPositions) + 1
  BY <1>2, PositionsFacts DEF SteppedTypes
<1>5. QED
  BY <1>1, <1>2, <1>3, <1>4, Zenon DEF SteppedTypes, Stepped!TypeOK

\* sunspec uses the loop as it is.
LEMMA SunSpecLoop ==
  ASSUME [SunSpec!Next]_(SunSpec!vars)
  PROVE  /\ LoopStep
         /\ task' = task \/ task' = NoTask \/ \E a, n : task' = Read(a, n)
<1>1. CASE SunSpec!IssueRead
  <2>1. \E a, n : SunSpec!Issue(SunSpec!Read(a, n))
    BY <1>1, Zenon DEF SunSpec!IssueRead
  <2>2. PICK a, n : SunSpec!Issue(SunSpec!Read(a, n))
    BY <2>1
  <2>3. Issue(Read(a, n)) /\ task' = Read(a, n)
    BY <2>2 DEF SunSpec!Issue, SunSpec!Idle, SunSpec!Count, SunSpec!NoTask, SunSpec!Read,
      Issue, Idle,
      Count, NoTask, Read
  <2>4. QED
    BY <2>3 DEF LoopStep
<1>2. CASE UNCHANGED SunSpec!vars
  <2>1. UNCHANGED loopVars
    BY <1>2 DEF SunSpec!vars, SunSpec!loopVars, loopVars
  <2>2. QED
    BY <2>1 DEF LoopStep, loopVars
<1>3. CASE \/ SunSpec!MarkerFound \/ SunSpec!MarkerMissing \/ (\E n \in 1 .. AddrMax : SunSpec!HeaderAt(n))
           \/ SunSpec!ChainEnds \/ SunSpec!BodyResult
  <2>1. SunSpec!Answered \/ SunSpec!Refused
    BY <1>3 DEF SunSpec!MarkerFound, SunSpec!MarkerMissing, SunSpec!HeaderAt, SunSpec!ChainEnds,
      SunSpec!BodyResult
  <2>2. QED
    BY <2>1, SameLoop DEF LoopStep, Answered, Refused
<1>4. CASE SunSpec!Stop
  <2>1. Leave /\ task' = task
    BY <1>4 DEF SunSpec!Stop, SunSpec!Leave, SunSpec!Idle, SunSpec!NoTask, SunSpec!Read, Leave,
      Idle,
      NoTask, Read
  <2>2. QED
    BY <2>1 DEF LoopStep
<1>5. QED
  BY <1>1, <1>2, <1>3, <1>4 DEF SunSpec!Next

\* A body ends inside the address space.
BodyFits == 0 <= body.addr /\ body.addr + body.left <= AddrMax

\* It does after every step.
LEMMA BodyStays == ASSUME SunSpecInv, BodyFits, [SunSpec!Next]_(SunSpec!vars) PROVE BodyFits'
<1>1. /\ body \in [addr : Int, left : Int] /\ 0 <= body.left
      /\ currentAddr \in Int /\ 0 <= currentAddr /\ currentAddr <= AddrMax
  BY DEF SunSpecInv, SunSpecTypes
<1>2. CASE body' = body
  BY <1>2 DEF BodyFits
<1>3. CASE \E n \in 1 .. AddrMax : SunSpec!HeaderAt(n)
  <2>1. PICK n \in 1 .. AddrMax : SunSpec!HeaderAt(n)
    BY <1>3
  <2>2. body' = [addr |-> currentAddr + 2, left |-> n] /\ currentAddr + 2 + n <= AddrMax
    BY <2>1 DEF SunSpec!HeaderAt
  <2>3. body'.addr = currentAddr + 2 /\ body'.left = n
    BY <2>2
  <2>4. 0 <= currentAddr + 2
    BY <1>1
  <2>5. QED
    BY <2>2, <2>3, <2>4 DEF BodyFits
<1>4. CASE SunSpec!BodyResult /\ body' # body
  <2>1. /\ task # SunSpec!NoTask /\ phase = "walk" /\ SunSpec!ReadingBody
        /\ body' = [addr |-> body.addr + task.count, left |-> body.left - task.count]
    BY <1>4 DEF SunSpec!BodyResult, SunSpec!Answered
  <2>2. task.count \in Int /\ 1 <= task.count
    BY <2>1 DEF SunSpecInv, SunSpecTaskInv
  <2>3. body'.addr = body.addr + task.count /\ body'.left = body.left - task.count
    BY <2>1
  <2>4. 0 <= body.addr + task.count
        /\ (body.addr + task.count) + (body.left - task.count) <= AddrMax
    BY <1>1, <2>2, Bounds DEF BodyFits
  <2>5. QED
    BY <2>3, <2>4 DEF BodyFits
<1>5. QED
  BY <1>2, <1>3, <1>4 DEF SunSpec!Next, SunSpec!IssueRead, SunSpec!Stop, SunSpec!MarkerFound,
    SunSpec!MarkerMissing, SunSpec!ChainEnds, SunSpec!strategyVars, SunSpec!vars

\* The types of the fields of sunspec: the models are counted up to the limit.
LEMMA SunSpecTypeStep ==
  /\ SunSpecInv /\ SunSpecInv' /\ SunSpecCostInv' /\ SunSpec!TypeOK /\ BodyFits
     /\ [SunSpec!Next]_(SunSpec!vars)
  => SunSpec!TypeOK' /\ BodyFits'
<1> SUFFICES ASSUME SunSpecInv, SunSpecInv', SunSpecCostInv', SunSpec!TypeOK, BodyFits, [SunSpec!Next]_(SunSpec!vars)
             PROVE  SunSpec!TypeOK' /\ BodyFits'
  OBVIOUS
<1>0. BodyFits'
  BY BodyStays
<1>1. LoopTypeOK
  BY SameLoopTypes DEF SunSpec!TypeOK
<1>2. /\ phase' \in {"detect", "walk", "done"} /\ choice' \in SunSpecChoices
      /\ baseIndex' \in 1 .. Len(choice'.bases) + 1
      /\ baseAddr' \in Int /\ 0 <= baseAddr' /\ baseAddr' <= AddrMax
      /\ currentAddr' \in Int /\ 0 <= currentAddr' /\ currentAddr' <= AddrMax
      /\ body' \in [addr : Int, left : Int] /\ 0 <= body'.left
  BY DEF SunSpecInv, SunSpecTypes
<1>3. /\ body'.addr \in Int /\ body'.left \in Int /\ 0 <= body'.addr
         /\ body'.addr + body'.left <= AddrMax
  BY <1>0, <1>2 DEF BodyFits
<1>4. body'.addr \in SunSpec!Addr /\ body'.left \in SunSpec!Addr
  BY <1>2, <1>3, Bounds DEF SunSpec!Addr
<1>5. body' \in [addr : SunSpec!Addr, left : SunSpec!Addr]
  BY <1>2, <1>4
<1>6. task' \in Reads \cup {NoTask}
  <2>1. CASE task' = task
    BY <1>1, <2>1 DEF LoopTypeOK, Reads
  <2>2. CASE task' = NoTask
    BY <2>2
  <2>3. CASE task' # NoTask /\ \E a, n : task' = Read(a, n)
    <3>1. PICK a, n : task' = [start |-> a, count |-> n]
      BY <2>3 DEF Read
    <3>2. task' # SunSpec!NoTask'
      BY <2>3 DEF SunSpec!NoTask, SunSpec!Read, NoTask, Read
    <3>3. /\ a \in Int /\ n \in Int /\ phase' # "done"
          /\ phase' = "walk" /\ SunSpec!ReadingBody' =>
               a = body'.addr /\ 1 <= n /\ n <= body'.left /\ n <= MaxBlock
          /\ ~(phase' = "walk" /\ SunSpec!ReadingBody') => n = 2 /\ 0 <= a /\ a <= AddrMax
      BY <3>1, <3>2 DEF SunSpecInv, SunSpecTaskInv
    <3>4. a \in Addr /\ n \in 1 .. MaxBlock
      <4>1. CASE phase' = "walk" /\ SunSpec!ReadingBody'
        BY <1>3, <3>3, <4>1, Bounds DEF Addr
      <4>2. CASE ~(phase' = "walk" /\ SunSpec!ReadingBody')
        BY <3>3, <4>2, Bounds DEF Addr
      <4>3. QED
        BY <4>1, <4>2
    <3>5. QED
      BY <3>1, <3>4 DEF Reads
  <2>4. QED
    BY <2>1, <2>2, <2>3, SunSpecLoop
<1>7. SunSpec!LoopTypeOK'
  <2>1. LoopTypeOK'
    BY <1>1, <1>6, SunSpecLoop, LoopTypesKept
  <2>2. (SunSpec!LoopTypeOK <=> LoopTypeOK)'
    BY SameLoopTypes, PTL
  <2>3. QED
    BY <2>1, <2>2
<1>8. modelCount' \in 0 .. choice'.maxModels
  <2>1. modelCount' \in Nat /\ modelCount' <= choice'.maxModels
    BY DEF SunSpecCostInv
  <2>2. choice'.maxModels \in Nat \ {0}
    BY <1>2, SunSpecAssumption
  <2>3. QED
    BY <2>1, <2>2
<1>9. baseAddr' \in SunSpec!Addr /\ currentAddr' \in SunSpec!Addr /\ SunSpec!Addr' = SunSpec!Addr
  BY <1>2, Bounds DEF SunSpec!Addr
<1>10. QED
  BY <1>0, <1>2, <1>5, <1>7, <1>8, <1>9, Zenon DEF SunSpec!TypeOK

\* The types at the start.
LEMMA SunSpecTypeInit == SunSpec!Init => SunSpec!TypeOK /\ BodyFits
<1> SUFFICES ASSUME SunSpec!Init PROVE SunSpec!TypeOK /\ BodyFits
  OBVIOUS
<1>1. SunSpec!LoopTypeOK
  <2>1. LoopInit
    BY DEF SunSpec!Init, SunSpec!LoopInit, LoopInit, SunSpec!NoTask, SunSpec!Read, NoTask, Read,
      SunSpec!Addr, Addr
  <2>2. QED
    BY <2>1, LoopTypesInit, SameLoopTypes, ScanAssumption
<1>2. SunSpecTypes
  BY SunSpecInit DEF SunSpecInv
<1>3. body = [addr |-> 0, left |-> 0] /\ modelCount = 0
  BY DEF SunSpec!Init, SunSpec!NoBody
<1>4. body \in [addr : SunSpec!Addr, left : SunSpec!Addr] /\ BodyFits
  BY <1>3, Bounds DEF SunSpec!Addr, BodyFits
<1>5. baseAddr \in SunSpec!Addr /\ currentAddr \in SunSpec!Addr
  BY <1>2, Bounds DEF SunSpecTypes, SunSpec!Addr
<1>6. modelCount \in 0 .. choice.maxModels
  BY <1>2, <1>3, SunSpecAssumption DEF SunSpecTypes
<1>7. QED
  BY <1>1, <1>2, <1>4, <1>5, <1>6, Zenon DEF SunSpecTypes, SunSpec!TypeOK

\* linear uses the loop as it is.
LEMMA LinearLoop ==
  ASSUME [Linear!Next]_(Linear!vars)
  PROVE  /\ LoopStep
         /\ task' = task \/ task' = NoTask \/ \E a, n : task' = Read(a, n)
<1>1. CASE \E a, n : Linear!Issue(Linear!Read(a, n))
  <2>1. PICK a, n : Linear!Issue(Linear!Read(a, n))
    BY <1>1
  <2>2. Issue(Read(a, n)) /\ task' = Read(a, n)
    BY <2>1 DEF Linear!Issue, Linear!Idle, Linear!Count, Linear!NoTask, Linear!Read, Issue, Idle,
      Count, NoTask, Read
  <2>3. QED
    BY <2>2 DEF LoopStep
<1>2. CASE UNCHANGED Linear!loopVars
  <2>1. UNCHANGED loopVars
    BY <1>2 DEF Linear!loopVars, loopVars
  <2>2. QED
    BY <2>1 DEF LoopStep, loopVars
<1>3. CASE Linear!Answered \/ Linear!Refused
  BY <1>3, SameLoop DEF LoopStep, Answered, Refused
<1>4. CASE Linear!Leave
  <2>1. Leave /\ task' = task
    BY <1>4 DEF Linear!Leave, Linear!Idle, Linear!NoTask, Linear!Read, Leave, Idle, NoTask, Read
  <2>2. QED
    BY <2>1 DEF LoopStep
<1>5. CASE Linear!IssueGapProbe \/ Linear!IssueProbe \/ Linear!Forward
  BY <1>1, <1>5, Zenon DEF Linear!IssueGapProbe, Linear!IssueProbe, Linear!Forward
<1>6. CASE Linear!BackwardSearch \/ Linear!TailSearch
  <2>1. Linear!BackwardSearch => UNCHANGED Linear!loopVars \/ \E a, n : Linear!Issue(Linear!Read(a, n))
    BY Zenon DEF Linear!BackwardSearch, Linear!Narrow
  <2>2. Linear!TailSearch => UNCHANGED Linear!loopVars \/ \E a, n : Linear!Issue(Linear!Read(a, n))
    BY Zenon DEF Linear!TailSearch, Linear!Narrow
  <2>3. QED
    BY <1>1, <1>2, <1>6, <2>1, <2>2
<1>7. CASE Linear!BackwardOver \/ Linear!ForwardOver \/ Linear!TailOver \/ UNCHANGED Linear!vars
  BY <1>2, <1>7 DEF Linear!BackwardOver, Linear!ForwardOver, Linear!TailOver, Linear!vars,
    Linear!loopVars
<1>8. CASE \/ Linear!GapProbeResult \/ Linear!ProbeSuccess \/ Linear!ProbeFailure \/ Linear!SearchResult
           \/ Linear!ForwardSuccess \/ Linear!ForwardFailure
  BY <1>3, <1>8 DEF Linear!GapProbeResult, Linear!ProbeSuccess, Linear!ProbeFailure,
    Linear!SearchResult,
    Linear!ForwardSuccess, Linear!ForwardFailure
<1>9. CASE Linear!RunOff
  BY <1>4, <1>9 DEF Linear!RunOff
<1>10. QED
  BY <1>5, <1>6, <1>7, <1>8, <1>9 DEF Linear!Next

\* What a step of linear does to its fields: they move along the walk, and to
\* what is known of the block.
LEMMA LinearMoves ==
  ASSUME [Linear!Next]_(Linear!vars)
  PROVE  /\ \/ probeStart' = probeStart \/ probeStart' = blockEnd
            \/ phase = "tail" /\ probeStart' = Linear!AfterTail
            \/ phase = "probe" /\ gapProbe # "inFlight" /\ task # Linear!NoTask
               /\ probeStart' = probeStart + MaxBlock
         /\ \/ blockStart' = blockStart \/ blockStart' = probeStart
            \/ phase = "backward" /\ Linear!SearchIsOver /\ blockStart' = origin - search.best
         /\ blockEnd' = blockEnd \/ phase' # "probe"
         /\ origin' = origin \/ origin' = probeStart
         /\ search' = search \/ phase' \in {"backward", "tail"}
         /\ gapProbeAddr' = gapProbeAddr \/ gapProbeAddr' = blockEnd
<1>1. CASE Linear!IssueGapProbe \/ Linear!IssueProbe \/ Linear!Forward
  BY <1>1 DEF Linear!IssueGapProbe, Linear!IssueProbe, Linear!Forward, Linear!strategyVars
<1>2. CASE Linear!RunOff \/ Linear!GapProbeResult \/ UNCHANGED Linear!vars
  BY <1>2 DEF Linear!RunOff, Linear!GapProbeResult, Linear!strategyVars, Linear!vars
<1>3. CASE Linear!ProbeSuccess
  <2>1. phase' \in {"backward", "forward"}
    BY <1>3 DEF Linear!ProbeSuccess
  <2>2. blockStart' = blockStart \/ blockStart' = probeStart
    BY <1>3 DEF Linear!ProbeSuccess
  <2>3. (origin' = origin /\ search' = search) \/ (origin' = probeStart /\ phase' = "backward")
    BY <1>3 DEF Linear!ProbeSuccess
  <2>4. UNCHANGED <<probeStart, gapProbeAddr>>
    BY <1>3 DEF Linear!ProbeSuccess
  <2>5. QED
    BY <2>1, <2>2, <2>3, <2>4
<1>4. CASE Linear!ProbeFailure
  BY <1>4 DEF Linear!ProbeFailure, Linear!Refused
<1>5. CASE Linear!BackwardSearch \/ Linear!TailSearch
  BY <1>5 DEF Linear!BackwardSearch, Linear!TailSearch
<1>6. CASE Linear!BackwardOver
  BY <1>6 DEF Linear!BackwardOver
<1>7. CASE Linear!SearchResult
  BY <1>7 DEF Linear!SearchResult
<1>8. CASE Linear!ForwardOver \/ Linear!ForwardSuccess \/ Linear!ForwardFailure
  BY <1>8 DEF Linear!ForwardOver, Linear!ForwardSuccess, Linear!ForwardFailure
<1>9. CASE Linear!TailOver
  <2>1. gapProbeAddr' = gapProbeAddr \/ gapProbeAddr' = blockEnd
    BY <1>9 DEF Linear!TailOver, Linear!GapAddr
  <2>2. phase = "tail" /\ probeStart' = Linear!AfterTail
        /\ UNCHANGED <<blockStart, blockEnd, origin, search>>
    BY <1>9 DEF Linear!TailOver
  <2>3. QED
    BY <2>1, <2>2
<1>10. QED
  BY <1>1, <1>2, <1>3, <1>4, <1>5, <1>6, <1>7, <1>8, <1>9 DEF Linear!Next

\* The types of the fields of linear: its positions are at most one block past
\* the range, the counts of its searches at most those of a read.
LEMMA LinearTypeStep ==
  LinearInv /\ LinearInv' /\ Linear!TypeOK /\ [Linear!Next]_(Linear!vars) => Linear!TypeOK'
<1> SUFFICES ASSUME LinearInv, LinearInv', Linear!TypeOK, [Linear!Next]_(Linear!vars)
             PROVE  Linear!TypeOK'
  OBVIOUS
<1>1. LoopTypeOK
  BY SameLoopTypes DEF Linear!TypeOK
<1>2. task' \in Reads \cup {NoTask}
  <2>1. CASE task' = task
    BY <1>1, <2>1 DEF LoopTypeOK, Reads
  <2>2. CASE task' = NoTask
    BY <2>2
  <2>3. CASE task' # NoTask /\ \E a, n : task' = Read(a, n)
    <3>1. PICK a, n : task' = [start |-> a, count |-> n]
      BY <2>3 DEF Read
    <3>2. task' # Linear!NoTask'
      BY <2>3 DEF Linear!NoTask, Linear!Read, NoTask, Read
    <3>3. /\ a \in Int /\ n \in Int /\ 1 <= n /\ n <= MaxBlock
          /\ StartAddress <= a /\ a + n <= EndAddress + 1
      BY <3>1, <3>2 DEF LinearInv, LinearTaskInv
    <3>4. a \in Addr /\ n \in 1 .. MaxBlock
      BY <3>3, Bounds DEF Addr
    <3>5. QED
      BY <3>1, <3>4 DEF Reads
  <2>4. QED
    BY <2>1, <2>2, <2>3, LinearLoop
<1>3. Linear!LoopTypeOK'
  <2>1. LoopTypeOK'
    BY <1>1, <1>2, LinearLoop, LoopTypesKept
  <2>2. (Linear!LoopTypeOK <=> LoopTypeOK)'
    BY SameLoopTypes, PTL
  <2>3. QED
    BY <2>1, <2>2
<1>4. /\ phase' \in {"probe", "backward", "forward", "tail"}
         /\ gapProbe' \in {"none", "pending", "inFlight"}
      /\ probeStart' \in Int /\ blockStart' \in Int /\ blockEnd' \in Int /\ origin' \in Int
         /\ gapProbeAddr' \in Int
      /\ search' \in [low : Int, high : Int, best : Int]
  BY DEF LinearInv, LinearTypes
<1>5. /\ \A a \in Int : 0 <= a /\ a <= AddrMax + 1 + MaxBlock => a \in Linear!Position
      /\ \A a \in Linear!Position : a \in Int /\ 0 <= a /\ a <= AddrMax + 1 + MaxBlock
  BY Bounds DEF Linear!Position
<1>6. /\ probeStart \in Linear!Position /\ blockStart \in Linear!Position
         /\ blockEnd \in Linear!Position
      /\ origin \in Linear!Position /\ gapProbeAddr \in Linear!Position
      /\ search \in [low : 0 .. MaxBlock + 1, high : 0 .. MaxBlock, best : 0 .. MaxBlock]
  BY DEF Linear!TypeOK
<1>7. probeStart' \in Linear!Position
  <2>1. CASE probeStart' = probeStart \/ probeStart' = blockEnd
    BY <1>6, <2>1
  <2>2. CASE phase = "tail" /\ probeStart' = Linear!AfterTail
    <3>1. StartAddress <= blockEnd /\ blockEnd <= EndAddress
      BY <2>2 DEF LinearInv, WalkInv
    <3>2. search.best \in 0 .. MaxBlock
      BY <1>6
    <3>3. probeStart' = blockEnd + search.best \/ probeStart' = blockEnd + MaxBlock
      BY <2>2 DEF Linear!AfterTail
    <3>4. \A n \in 0 .. MaxBlock : blockEnd + n \in Linear!Position
      BY <1>5, <1>6, <3>1, Bounds
    <3>5. QED
      BY <3>2, <3>3, <3>4, Bounds
  <2>3. CASE phase = "probe" /\ gapProbe # "inFlight" /\ task # Linear!NoTask
             /\ probeStart' = probeStart + MaxBlock
    <3>1. gapProbe = "none" /\ task.start = probeStart /\ task.start \in Int /\ task.count \in Int
          /\ 1 <= task.count /\ StartAddress <= task.start
             /\ task.start + task.count <= EndAddress + 1
      BY <2>3 DEF LinearInv, LinearTypes, LinearTaskInv
    <3>2. probeStart + MaxBlock \in Linear!Position
      BY <1>5, <3>1, Bounds
    <3>3. QED
      BY <2>3, <3>2
  <2>4. QED
    BY <2>1, <2>2, <2>3, LinearMoves
<1>8. blockStart' \in Linear!Position
  <2>1. CASE blockStart' = blockStart \/ blockStart' = probeStart
    BY <1>6, <2>1
  <2>2. CASE phase = "backward" /\ Linear!SearchIsOver /\ blockStart' = origin - search.best
    <3>1. /\ search.best = search.low - 1 /\ search.low <= search.high + 1
          /\ search.high <= Linear!BackwardWindow(origin)
      BY <2>2 DEF LinearInv, BackwardInv, SearchShape
    <3>2. search.low \in Int /\ search.high \in Int /\ search.best \in Int /\ 0 <= search.best
      BY <1>6
    <3>3. origin \in Int /\ origin <= AddrMax + 1 + MaxBlock
      BY <1>5, <1>6
    <3>4. Linear!BackwardWindow(origin) <= origin - StartAddress
          /\ Linear!BackwardWindow(origin) \in Int
      BY <3>3, WindowFacts
    <3>5. origin - search.best \in Linear!Position
      BY <1>5, <3>1, <3>2, <3>3, <3>4, Bounds
    <3>6. QED
      BY <2>2, <3>5
  <2>3. QED
    BY <2>1, <2>2, LinearMoves
<1>9. blockEnd' \in Linear!Position
  <2>1. CASE phase' # "probe"
    <3>1. StartAddress <= blockEnd' /\ blockEnd' <= EndAddress + 1
      BY <2>1 DEF LinearInv, WalkInv
    <3>2. QED
      BY <1>4, <1>5, <3>1, Bounds
  <2>2. QED
    BY <1>6, <2>1, LinearMoves
<1>10. origin' \in Linear!Position /\ gapProbeAddr' \in Linear!Position
  BY <1>6, LinearMoves
<1>11. search' \in [low : 0 .. MaxBlock + 1, high : 0 .. MaxBlock, best : 0 .. MaxBlock]
  <2>1. CASE search' = search
    BY <1>6, <2>1
  <2>2. CASE phase' \in {"backward", "tail"}
    <3>1. PICK window \in Int : window <= MaxBlock /\ search'.high <= window
      <4>1. CASE phase' = "backward"
        <5>1. search'.high <= Linear!BackwardWindow(origin)'
          BY <4>1 DEF LinearInv, BackwardInv, SearchShape
        <5>2. PICK e \in Int : e = origin'
          BY <1>4
        <5>3. Linear!BackwardWindow(origin)' = Linear!BackwardWindow(e)
              /\ Linear!BackwardWindow(e) \in Int /\ Linear!BackwardWindow(e) <= MaxBlock
          BY <5>2, WindowFacts DEF Linear!BackwardWindow, Linear!Least
        <5>4. QED
          BY <5>1, <5>3
      <4>2. CASE phase' = "tail"
        <5>1. search'.high <= Linear!BlockAt(blockEnd)'
          BY <4>2 DEF LinearInv, TailInv, SearchShape
        <5>2. PICK e \in Int : e = blockEnd'
          BY <1>4
        <5>3. Linear!BlockAt(blockEnd)' = Linear!BlockAt(e) /\ Linear!BlockAt(e) \in Int
              /\ Linear!BlockAt(e) <= MaxBlock
          BY <5>2, WindowFacts DEF Linear!BlockAt, Linear!Least
        <5>4. QED
          BY <5>1, <5>3
      <4>3. QED
        BY <2>2, <4>1, <4>2
    <3>2. search'.best = search'.low - 1 /\ 1 <= search'.low /\ search'.low <= search'.high + 1
      BY <2>2 DEF LinearInv, BackwardInv, TailInv, SearchShape
    <3>3. search'.low \in Int /\ search'.high \in Int /\ search'.best \in Int
      BY <1>4
    <3>4. search'.low \in 0 .. MaxBlock + 1 /\ search'.high \in 0 .. MaxBlock
          /\ search'.best \in 0 .. MaxBlock
      BY <3>1, <3>2, <3>3, Bounds
    <3>5. QED
      BY <1>4, <3>4
  <2>3. QED
    BY <2>1, <2>2, LinearMoves
<1>12. done' \in BOOLEAN /\ hadProbeFailure' \in BOOLEAN
  <2>1. (done' = done \/ done' = TRUE)
    BY Zenon DEF Linear!Next, Linear!IssueGapProbe, Linear!GapProbeResult, Linear!IssueProbe,
      Linear!ProbeSuccess, Linear!ProbeFailure, Linear!RunOff, Linear!BackwardSearch,
      Linear!BackwardOver,
      Linear!SearchResult, Linear!Forward, Linear!ForwardOver, Linear!ForwardSuccess,
      Linear!ForwardFailure,
      Linear!TailSearch, Linear!TailOver, Linear!strategyVars, Linear!vars
  <2>2. hadProbeFailure' = hadProbeFailure \/ hadProbeFailure' = TRUE \/ hadProbeFailure' = FALSE
    BY Zenon DEF Linear!Next, Linear!IssueGapProbe, Linear!GapProbeResult, Linear!IssueProbe,
      Linear!ProbeSuccess, Linear!ProbeFailure, Linear!RunOff, Linear!BackwardSearch,
      Linear!BackwardOver,
      Linear!SearchResult, Linear!Forward, Linear!ForwardOver, Linear!ForwardSuccess,
      Linear!ForwardFailure,
      Linear!TailSearch, Linear!TailOver, Linear!strategyVars, Linear!vars
  <2>3. done \in BOOLEAN /\ hadProbeFailure \in BOOLEAN
    BY DEF Linear!TypeOK
  <2>4. QED
    BY <2>1, <2>2, <2>3, Zenon
<1>13. Linear!Position' = Linear!Position
  BY DEF Linear!Position
<1>14. QED
  BY <1>3, <1>4, <1>7, <1>8, <1>9, <1>10, <1>11, <1>12, <1>13, Zenon DEF Linear!TypeOK

\* The types at the start.
LEMMA LinearTypeInit == Linear!Init => Linear!TypeOK
<1> SUFFICES ASSUME Linear!Init PROVE Linear!TypeOK
  OBVIOUS
<1>1. Linear!LoopTypeOK
  <2>1. LoopInit
    BY DEF Linear!Init, Linear!LoopInit, LoopInit, Linear!NoTask, Linear!Read, NoTask, Read,
      Linear!Addr, Addr
  <2>2. QED
    BY <2>1, LoopTypesInit, SameLoopTypes, ScanAssumption
<1>2. /\ probeStart = StartAddress /\ blockStart = 0 /\ blockEnd = 0 /\ origin = 0
         /\ gapProbeAddr = 0
      /\ search = [low |-> 0, high |-> 0, best |-> 0] /\ phase = "probe" /\ gapProbe = "none"
  BY DEF Linear!Init
<1>3. done \in BOOLEAN /\ hadProbeFailure \in BOOLEAN
  BY Zenon DEF Linear!Init
<1>4. /\ probeStart \in Linear!Position /\ blockStart \in Linear!Position
         /\ blockEnd \in Linear!Position
      /\ origin \in Linear!Position /\ gapProbeAddr \in Linear!Position
  BY <1>2, Bounds DEF Linear!Position
<1>5. search \in [low : 0 .. MaxBlock + 1, high : 0 .. MaxBlock, best : 0 .. MaxBlock]
  BY <1>2, Bounds
<1>6. phase \in {"probe", "backward", "forward", "tail"}
      /\ gapProbe \in {"none", "pending", "inFlight"}
  BY <1>2
<1>7. QED
  BY <1>1, <1>3, <1>4, <1>5, <1>6, Zenon DEF Linear!TypeOK
-----------------------------------------------------------------------------
(* The scan with the strategy that --algo names.                           *)

IInv ==
  /\ algo \in {"boundary", "linear", "stepped", "sunspec"}
  /\ algo = "boundary" => BoundaryInv
  /\ algo = "linear" => LinearInv
  /\ algo = "stepped" => SteppedInv
  /\ algo = "sunspec" => SunSpecInv

\* The invariant holds at the start of a scan.
LEMMA InitInv == Init => IInv
  BY BoundaryInit, LinearInit, SteppedInit, SunSpecInit DEF Init, IInv

\* A step of the scan is one of the strategy that was chosen.
LEMMA StepsOfStrategy ==
  ASSUME [Next]_vars
  PROVE  /\ algo' = algo
         /\ algo = "boundary" => [Boundary!Next]_(Boundary!vars)
                                   /\ UNCHANGED <<linearVars, steppedVars, sunspecVars>>
         /\ algo = "linear" => [Linear!Next]_(Linear!vars)
                                 /\ UNCHANGED <<boundaryVars, steppedVars, sunspecVars>>
         /\ algo = "stepped" => [Stepped!Next]_(Stepped!vars)
                                  /\ UNCHANGED <<phase, blockVars, boundaryVars, linearVars, sunspecVars>>
         /\ algo = "sunspec" => [SunSpec!Next]_(SunSpec!vars)
                                  /\ UNCHANGED <<blockVars, boundaryVars, linearVars, steppedVars>>
<1>1. CASE BoundaryStep
  BY <1>1 DEF BoundaryStep
<1>2. CASE LinearStep
  BY <1>2 DEF LinearStep
<1>3. CASE SteppedStep
  BY <1>3 DEF SteppedStep
<1>4. CASE SunSpecStep
  BY <1>4 DEF SunSpecStep
<1>5. CASE UNCHANGED vars
  <2>1. /\ algo' = algo
        /\ UNCHANGED Boundary!vars /\ UNCHANGED Linear!vars /\ UNCHANGED Stepped!vars
           /\ UNCHANGED SunSpec!vars
    BY <1>5 DEF vars, loopVars, blockVars, boundaryVars, linearVars, steppedVars, sunspecVars,
      Boundary!vars, Boundary!loopVars, Boundary!strategyVars,
      Linear!vars, Linear!loopVars, Linear!strategyVars,
      Stepped!vars, Stepped!loopVars, Stepped!strategyVars,
      SunSpec!vars, SunSpec!loopVars, SunSpec!strategyVars
  <2>2. UNCHANGED <<phase, blockVars, boundaryVars, linearVars, steppedVars, sunspecVars>>
    BY <1>5 DEF vars, blockVars, boundaryVars, linearVars, steppedVars, sunspecVars
  <2>3. QED
    BY <2>1, <2>2 DEF blockVars, boundaryVars, linearVars, steppedVars, sunspecVars
<1>6. QED
  BY <1>1, <1>2, <1>3, <1>4, <1>5 DEF Next

\* Every step preserves the invariant: it is one of the chosen strategy.
LEMMA StepInv == IInv /\ [Next]_vars => IInv'
<1> SUFFICES ASSUME IInv, [Next]_vars PROVE IInv'
  OBVIOUS
<1>1. /\ algo' = algo
      /\ algo = "boundary" => [Boundary!Next]_(Boundary!vars)
      /\ algo = "linear" => [Linear!Next]_(Linear!vars)
      /\ algo = "stepped" => [Stepped!Next]_(Stepped!vars)
      /\ algo = "sunspec" => [SunSpec!Next]_(SunSpec!vars)
  BY StepsOfStrategy
<1>2. QED
  BY <1>1, BoundaryStepInv, LinearStepInv, SteppedStepInv, SunSpecStepInv DEF IInv

\* What the invariant says of the block that is followed.
LEMMA BlockInvariant == IInv => BlockIsCaptured
<1> SUFFICES ASSUME IInv PROVE BlockIsCaptured
  OBVIOUS
<1>1. CASE algo = "boundary"
  <2>1. Boundary!BlockIsCaptured
    BY <1>1, BoundaryMeans DEF IInv
  <2>2. QED
    BY <1>1, <2>1, Zenon DEF BlockIsCaptured
<1>2. CASE algo = "linear"
  <2>1. Linear!BlockIsCaptured
    BY <1>2, LinearMeans DEF IInv
  <2>2. QED
    BY <1>2, <2>1, Zenon DEF BlockIsCaptured
<1>3. CASE algo = "sunspec"
  <2>1. SunSpec!ChainIsCaptured
    BY <1>3, SunSpecMeans DEF IInv
  <2>2. QED
    BY <1>3, <2>1, Zenon DEF BlockIsCaptured
<1>4. CASE algo = "stepped"
  BY <1>4, Zenon DEF BlockIsCaptured
<1>5. QED
  BY <1>1, <1>2, <1>3, <1>4 DEF IInv

\* ... of the edges.
LEMMA EdgesInvariant == IInv => EdgesAreExact
<1> SUFFICES ASSUME IInv PROVE EdgesAreExact
  OBVIOUS
<1>1. CASE algo = "boundary"
  <2>1. Boundary!BlockIsMaximal
    BY <1>1, BoundaryMeans DEF IInv
  <2>2. QED
    BY <1>1, <2>1, Zenon DEF EdgesAreExact
<1>2. CASE algo = "linear"
  <2>1. Linear!TailIsMaximal /\ Linear!BackwardIsMaximal
    BY <1>2, LinearMeans DEF IInv
  <2>2. QED
    BY <1>2, <2>1, Zenon DEF EdgesAreExact
<1>3. CASE algo \in {"stepped", "sunspec"}
  BY <1>3, Zenon DEF EdgesAreExact
<1>4. QED
  BY <1>1, <1>2, <1>3 DEF IInv

\* ... and of the reads.
LEMMA ScopeInvariant == IInv => ReadsStayInScope
<1> SUFFICES ASSUME IInv PROVE ReadsStayInScope
  OBVIOUS
<1>1. CASE algo = "boundary"
  <2>1. Boundary!ReadsStayInRange
    BY <1>1, BoundaryMeans DEF IInv
  <2>2. ReadsStayInRange
    BY <2>1 DEF ReadsStayInRange, Covered, LastOf, ScanRange, NoTask, Read,
      Boundary!ReadsStayInRange,
      Boundary!Covered, Boundary!LastOf, Boundary!ScanRange, Boundary!NoTask, Boundary!Read
  <2>3. QED
    BY <1>1, <2>2, Zenon DEF ReadsStayInScope
<1>2. CASE algo = "linear"
  <2>1. Linear!ReadsStayInRange
    BY <1>2, LinearMeans DEF IInv
  <2>2. ReadsStayInRange
    BY <2>1 DEF ReadsStayInRange, Covered, LastOf, ScanRange, NoTask, Read, Linear!ReadsStayInRange,
      Linear!Covered, Linear!LastOf, Linear!ScanRange, Linear!NoTask, Linear!Read
  <2>3. QED
    BY <1>2, <2>2, Zenon DEF ReadsStayInScope
<1>3. CASE algo = "stepped"
  <2>1. Stepped!ReadsStayNearRange
    BY <1>3, SteppedMeans DEF IInv
  <2>2. QED
    BY <1>3, <2>1, Zenon DEF ReadsStayInScope
<1>4. CASE algo = "sunspec"
  <2>1. SunSpec!ReadsStayInSpace
    BY <1>4, SunSpecMeans DEF IInv
  <2>2. QED
    BY <1>4, <2>1, Zenon DEF ReadsStayInScope
<1>5. QED
  BY <1>1, <1>2, <1>3, <1>4 DEF IInv

\* What a scan has spent and what it owes, and the types of its fields.
CostInv ==
  /\ algo = "linear" => LinearCostInv
  /\ algo = "stepped" => SteppedCostInv /\ HitInv
  /\ algo = "sunspec" => SunSpecCostInv /\ BodyFits

\* They hold at the start of a scan.
LEMMA CostInit == Init => CostInv
<1>1. \A x, y \in {"boundary", "linear", "stepped", "sunspec"} : algo = x /\ algo = y => x = y
  OBVIOUS
<1>2. QED
  BY LinearCostInit, SteppedCostInit, SteppedHitInit, SunSpecCostInit, SunSpecTypeInit
  DEF Init, CostInv

\* Every step keeps them: it is one of the chosen strategy.
LEMMA CostStep == IInv /\ CostInv /\ [Next]_vars => CostInv'
<1> SUFFICES ASSUME IInv, CostInv, [Next]_vars PROVE CostInv'
  OBVIOUS
<1>1. /\ algo' = algo
      /\ algo = "boundary" => [Boundary!Next]_(Boundary!vars)
      /\ algo = "linear" => [Linear!Next]_(Linear!vars)
      /\ algo = "stepped" => [Stepped!Next]_(Stepped!vars)
      /\ algo = "sunspec" => [SunSpec!Next]_(SunSpec!vars)
  BY StepsOfStrategy
<1>2. algo = "linear" => LinearCostInv'
  BY <1>1, LinearCostStep DEF IInv, CostInv
<1>3. algo = "stepped" => SteppedCostInv' /\ HitInv'
  BY <1>1, SteppedCostStep, SteppedHitStep DEF IInv, CostInv, SteppedCostInv
<1>4. algo = "sunspec" => SunSpecCostInv' /\ BodyFits'
  BY <1>1, SunSpecCostStep, BodyStays DEF IInv, CostInv
<1>5. QED
  BY <1>1, <1>2, <1>3, <1>4 DEF CostInv

\* What the types are for each strategy.
LEMMA TypesOf ==
  /\ algo = "boundary" => (TypeOK <=> Boundary!TypeOK /\ NoLinear /\ NoStepped /\ NoSunSpec)
  /\ algo = "linear" => (TypeOK <=> Linear!TypeOK /\ NoBoundary /\ NoStepped /\ NoSunSpec)
  /\ algo = "stepped" =>
       (TypeOK <=> Stepped!TypeOK /\ NoPhase /\ NoBlock /\ NoBoundary /\ NoLinear /\ NoSunSpec)
  /\ algo = "sunspec" => (TypeOK <=> SunSpec!TypeOK /\ NoBlock /\ NoBoundary /\ NoLinear /\ NoStepped)
<1>1. CASE algo = "boundary"
  <2>1. TypeOK <=> Boundary!TypeOK /\ NoLinear /\ NoStepped /\ NoSunSpec
    BY <1>1 DEF TypeOK
  <2>2. QED
    BY <1>1, <2>1
<1>2. CASE algo = "linear"
  <2>1. TypeOK <=> Linear!TypeOK /\ NoBoundary /\ NoStepped /\ NoSunSpec
    BY <1>2 DEF TypeOK
  <2>2. QED
    BY <1>2, <2>1
<1>3. CASE algo = "stepped"
  <2>1. TypeOK <=> Stepped!TypeOK /\ NoPhase /\ NoBlock /\ NoBoundary /\ NoLinear /\ NoSunSpec
    BY <1>3 DEF TypeOK
  <2>2. QED
    BY <1>3, <2>1
<1>4. CASE algo = "sunspec"
  <2>1. TypeOK <=> SunSpec!TypeOK /\ NoBlock /\ NoBoundary /\ NoLinear /\ NoStepped
    BY <1>4 DEF TypeOK
  <2>2. QED
    BY <1>4, <2>1
<1>5. QED
  BY <1>1, <1>2, <1>3, <1>4

\* A scan starts with values of those types.
LEMMA TypeInit == Init => TypeOK
<1> SUFFICES ASSUME Init PROVE TypeOK
  OBVIOUS
<1>1. CASE algo = "boundary" /\ Boundary!Init /\ NoLinear /\ NoStepped /\ NoSunSpec
  BY <1>1, BoundaryTypeInit, TypesOf
<1>2. CASE algo = "linear" /\ Linear!Init /\ NoBoundary /\ NoStepped /\ NoSunSpec
  BY <1>2, LinearTypeInit, TypesOf
<1>3. CASE algo = "stepped" /\ Stepped!Init /\ NoPhase /\ NoBlock /\ NoBoundary /\ NoLinear
           /\ NoSunSpec
  BY <1>3, SteppedTypeInit, TypesOf
<1>4. CASE algo = "sunspec" /\ SunSpec!Init /\ NoBlock /\ NoBoundary /\ NoLinear /\ NoStepped
  BY <1>4, SunSpecTypeInit, TypesOf
<1>5. QED
  BY <1>1, <1>2, <1>3, <1>4 DEF Init

\* The fields of a strategy that was not chosen stay what they are.
LEMMA UnusedFieldsStay ==
  /\ NoBoundary /\ UNCHANGED boundaryVars => NoBoundary'
  /\ NoLinear /\ UNCHANGED linearVars => NoLinear'
  /\ NoStepped /\ UNCHANGED steppedVars => NoStepped'
  /\ NoSunSpec /\ UNCHANGED sunspecVars => NoSunSpec'
  /\ NoBlock /\ UNCHANGED blockVars => NoBlock'
  /\ NoPhase /\ UNCHANGED phase => NoPhase'
<1>1. NoBoundary /\ UNCHANGED boundaryVars => NoBoundary'
  BY DEF NoBoundary, boundaryVars
<1>2. NoLinear /\ UNCHANGED linearVars => NoLinear'
  BY DEF NoLinear, linearVars
<1>3. NoStepped /\ UNCHANGED steppedVars => NoStepped'
  BY DEF NoStepped, steppedVars
<1>4. NoSunSpec /\ UNCHANGED sunspecVars => NoSunSpec'
  BY DEF NoSunSpec, sunspecVars, NoTask, Read
<1>5. NoBlock /\ UNCHANGED blockVars => NoBlock'
  BY DEF NoBlock, blockVars
<1>6. NoPhase /\ UNCHANGED phase => NoPhase'
  BY DEF NoPhase
<1>7. QED
  BY <1>1, <1>2, <1>3, <1>4, <1>5, <1>6

\* Every step keeps the types.
LEMMA TypeStep ==
  IInv /\ IInv' /\ CostInv /\ CostInv' /\ TypeOK /\ [Next]_vars => TypeOK'
<1> SUFFICES ASSUME IInv, IInv', CostInv, CostInv', TypeOK, [Next]_vars PROVE TypeOK'
  OBVIOUS
<1>1. algo' = algo
  BY StepsOfStrategy
<1>2. CASE algo = "boundary"
  <2>1. /\ [Boundary!Next]_(Boundary!vars) /\ UNCHANGED <<linearVars, steppedVars, sunspecVars>>
        /\ BoundaryInv /\ BoundaryInv' /\ Boundary!TypeOK /\ NoLinear /\ NoStepped /\ NoSunSpec
    BY <1>1, <1>2, StepsOfStrategy, TypesOf DEF IInv
  <2>2. Boundary!TypeOK' /\ NoLinear' /\ NoStepped' /\ NoSunSpec'
    BY <2>1, BoundaryTypeStep, UnusedFieldsStay
  <2>3. (algo = "boundary" => (TypeOK <=> Boundary!TypeOK /\ NoLinear /\ NoStepped /\ NoSunSpec))'
    BY TypesOf, PTL
  <2>4. QED
    BY <1>1, <1>2, <2>2, <2>3
<1>3. CASE algo = "linear"
  <2>1. /\ [Linear!Next]_(Linear!vars) /\ UNCHANGED <<boundaryVars, steppedVars, sunspecVars>>
        /\ LinearInv /\ LinearInv' /\ Linear!TypeOK /\ NoBoundary /\ NoStepped /\ NoSunSpec
    BY <1>1, <1>3, StepsOfStrategy, TypesOf DEF IInv
  <2>2. Linear!TypeOK' /\ NoBoundary' /\ NoStepped' /\ NoSunSpec'
    BY <2>1, LinearTypeStep, UnusedFieldsStay
  <2>3. (algo = "linear" => (TypeOK <=> Linear!TypeOK /\ NoBoundary /\ NoStepped /\ NoSunSpec))'
    BY TypesOf, PTL
  <2>4. QED
    BY <1>1, <1>3, <2>2, <2>3
<1>4. CASE algo = "stepped"
  <2>1. /\ [Stepped!Next]_(Stepped!vars)
        /\ UNCHANGED <<phase, blockVars, boundaryVars, linearVars, sunspecVars>>
        /\ SteppedInv /\ SteppedInv' /\ SteppedTypes /\ SteppedTypes'
        /\ Stepped!TypeOK /\ NoPhase /\ NoBlock /\ NoBoundary /\ NoLinear /\ NoSunSpec
    BY <1>1, <1>4, StepsOfStrategy, TypesOf DEF IInv, CostInv, SteppedCostInv
  <2>2. Stepped!TypeOK' /\ NoPhase' /\ NoBlock' /\ NoBoundary' /\ NoLinear' /\ NoSunSpec'
    BY <2>1, SteppedTypeStep, UnusedFieldsStay
  <2>3. (algo = "stepped" =>
           (TypeOK <=> Stepped!TypeOK /\ NoPhase /\ NoBlock /\ NoBoundary /\ NoLinear /\ NoSunSpec))'
    BY TypesOf, PTL
  <2>4. QED
    BY <1>1, <1>4, <2>2, <2>3
<1>5. CASE algo = "sunspec"
  <2>1. /\ [SunSpec!Next]_(SunSpec!vars)
           /\ UNCHANGED <<blockVars, boundaryVars, linearVars, steppedVars>>
        /\ SunSpecInv /\ SunSpecInv' /\ SunSpecCostInv' /\ BodyFits
        /\ SunSpec!TypeOK /\ NoBlock /\ NoBoundary /\ NoLinear /\ NoStepped
    BY <1>1, <1>5, StepsOfStrategy, TypesOf DEF IInv, CostInv
  <2>2. SunSpec!TypeOK' /\ NoBlock' /\ NoBoundary' /\ NoLinear' /\ NoStepped'
    BY <2>1, SunSpecTypeStep, UnusedFieldsStay
  <2>3. (algo = "sunspec" => (TypeOK <=> SunSpec!TypeOK /\ NoBlock /\ NoBoundary /\ NoLinear /\ NoStepped))'
    BY TypesOf, PTL
  <2>4. QED
    BY <1>1, <1>5, <2>2, <2>3
<1>6. QED
  BY <1>2, <1>3, <1>4, <1>5 DEF IInv

\* The invariants of the strategies hold of every scan.
THEOREM SearchingInvariant == Spec => []IInv
<1>1. QED
  BY InitInv, StepInv, PTL DEF Spec

\* The block a strategy follows, and the chain of models of sunspec, was read
\* from end to end, whatever the device refuses (boundaryStrategy.OnResult,
\* linearStrategy.OnResult, sunspecStrategy.OnResult).
THEOREM BlockIsCapturedTheorem == Spec => []BlockIsCaptured
<1>1. QED
  BY SearchingInvariant, BlockInvariant, PTL

\* The binary searches of boundary and linear are exact on a device that
\* answers what it can: no neighbour of the block they find is readable, but
\* outside the range or past the largest read.
THEOREM EdgesAreExactTheorem == Spec => []EdgesAreExact
<1>1. QED
  BY SearchingInvariant, EdgesInvariant, PTL

\* No strategy reads where it was not asked to (clampAddr, BlockAt, the floors
\* and ceilings of the searches).
THEOREM ReadsStayInScopeTheorem == Spec => []ReadsStayInScope
<1>1. QED
  BY SearchingInvariant, ScopeInvariant, PTL

\* The types, the cost and what is owed hold of every scan.
THEOREM SearchingTypes == Spec => [](CostInv /\ TypeOK)
<1>1. QED
  BY SearchingInvariant, CostInit, CostStep, TypeInit, TypeStep, PTL DEF Spec

\* A field of a scan has its type, and only the strategy that was chosen uses
\* its fields (newScanStrategy).
THEOREM TypeCorrect == Spec => []TypeOK
<1>1. QED
  BY SearchingTypes, PTL

\* The strategies keep to the worst case that ALGOS.md documents (5.9, 6.14, 8.7
\* and 9): linear on an empty range takes one read for each block of it, stepped
\* six for each step position where nothing answers, half steps included, and
\* else its expansions on top, sunspec one read for each candidate base and a
\* header and the blocks of a body for each model.  The number that client scan
\* prints for stepped counts no half steps and is not what is proved here.
THEOREM ReadsBoundedTheorem == Spec => []ReadsBounded
<1>1. IInv /\ CostInv => ReadsBounded
  BY LinearCostBounds, SteppedCostBounds, SunSpecCostBounds DEF IInv, CostInv, ReadsBounded
<1>2. QED
  BY <1>1, SearchingInvariant, SearchingTypes, PTL

\* stepped loses no position of the range, and behind every hit it reads the
\* largest block that the device answers (steppedStrategy.Next, OnResult).
THEOREM HitsAreExpandedTheorem == Spec => []HitsAreExpanded
<1>1. CostInv => HitsAreExpanded
  BY HitMeans DEF CostInv, SteppedCostInv, HitsAreExpanded
<1>2. QED
  BY <1>1, SearchingTypes, PTL
=============================================================================
