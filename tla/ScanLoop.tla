------------------------------ MODULE ScanLoop ------------------------------
(***************************************************************************)
(* The executor loop of `client scan` (ScanAndRecord) as every scan        *)
(* strategy sees it: while the strategy is not done it asks for the next   *)
(* read, performs it on the device and hands the result back.              *)
(*                                                                         *)
(* The device answers a read of a block with its registers, or refuses it. *)
(* It can only answer when it has every register of the block, and then it *)
(* does, unless it is lossy: a lossy device may fail any read (a timeout,  *)
(* a busy gateway, a limit on the size of a block).                        *)
(* The retry of a single read and the statistics are in ScanExecutor.      *)
(*                                                                         *)
(* Addresses are 0..AddrMax, in the program 0..65535: AddrMax + 1 is the   *)
(* modulus of the program's 16-bit arithmetic.                             *)
(***************************************************************************)
EXTENDS ScanSettings

VARIABLES
  device,    (* the registers it has, and whether it is lossy              *)
  task,      (* the read in progress, or NoTask                            *)
  captured,  (* history: the registers some successful read returned       *)
  refused,   (* history: the registers whose single-register read failed   *)
  requests,  (* history: reads handed out so far, up to RequestCap         *)
  finished   (* the loop has ended                                         *)

loopVars == <<device, task, captured, refused, requests, finished>>

Addr == 0 .. AddrMax
readable == device.readable
ScanRange == StartAddress .. EndAddress
RangeLen == EndAddress - StartAddress + 1

\* 16-bit addition and subtraction, for operands at most one modulus off.
Wrap(x) == IF x > AddrMax THEN x - (AddrMax + 1)
           ELSE IF x < 0 THEN x + AddrMax + 1
           ELSE x

\* A read of count registers from start; ScanTask{} stands for "no task".
Read(from, n) == [start |-> from, count |-> n]
NoTask == Read(0, 0)
LastOf(t) == t.start + t.count - 1
Covered(t) == t.start .. LastOf(t)

LoopTypeOK ==
  /\ device \in [readable : SUBSET Addr, lossy : BOOLEAN]
  /\ task \in [start : Addr, count : 1 .. MaxBlock] \cup {NoTask}
  /\ captured \subseteq Addr
  /\ refused \subseteq Addr
  /\ requests \in 0 .. RequestCap
  /\ finished \in BOOLEAN

LoopInit ==
  /\ device \in [readable : SUBSET Addr, lossy : BOOLEAN]
  /\ task = NoTask
  /\ captured = {}
  /\ refused = {}
  /\ requests = 0
  /\ finished = FALSE

Idle == task = NoTask /\ ~finished

Count(n) == IF n < RequestCap THEN n + 1 ELSE n

\* strategy.Next() returned a task: the executor sends it.
Issue(t) ==
  /\ Idle
  /\ task' = t
  /\ requests' = Count(requests)
  /\ UNCHANGED <<device, captured, refused, finished>>

\* strategy.Done(), or Next() had no task: the loop ends.
Leave ==
  /\ Idle
  /\ finished' = TRUE
  /\ UNCHANGED <<device, task, captured, refused, requests>>

\* The read succeeds: its registers are in the capture.
Answered ==
  /\ task # NoTask
  /\ Covered(task) \subseteq readable
  /\ captured' = captured \cup Covered(task)
  /\ task' = NoTask
  /\ UNCHANGED <<device, refused, requests, finished>>

\* The read fails: an exception, a timeout, a transport error.
Refused ==
  /\ task # NoTask
  /\ device.lossy \/ ~(Covered(task) \subseteq readable)
  /\ refused' = refused \cup (IF task.count = 1 THEN {task.start} ELSE {})
  /\ task' = NoTask
  /\ UNCHANGED <<device, captured, requests, finished>>
-----------------------------------------------------------------------------
(* What a scan may be asked for, whatever the strategy.                    *)

\* Every read asks for registers of the configured range only (ALGOS.md 1:
\* the range is inclusive).  Position arithmetic that wraps at the top of
\* the address space has broken this before.
ReadsStayInRange == task # NoTask => Covered(task) \subseteq ScanRange

\* A scan that ended has settled every register of its range: it captured
\* it, or the device refused to return it alone.  safe, smart and deep
\* promise this for any device; the failures of larger blocks settle nothing.
EveryAddressSettled == finished => ScanRange \subseteq captured \cup refused

\* On a device that answers every read it can, the capture of a finished
\* scan holds exactly the readable registers of the range.
CapturesWhatIsReadable ==
  finished /\ ~device.lossy => captured \cap ScanRange = readable \cap ScanRange

\* The promise of an exhaustive scan: it captures blocks of the range and ends
\* only when every register is captured, or missing: refused on its own.
Promise == INSTANCE RangeScan WITH
             First <- StartAddress, Last <- EndAddress, missing <- refused, concluded <- finished
ImplementsRangeScan == Promise!PromiseSpec

\* The scan ends, whatever the device does: no strategy asks for ever.
Terminates == <>finished
=============================================================================
