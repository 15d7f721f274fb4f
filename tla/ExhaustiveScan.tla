--------------------------- MODULE ExhaustiveScan ---------------------------
(***************************************************************************)
(* `client scan` with one of the strategies that settle every register of  *)
(* their range: safe, smart or deep, chosen by --algo.                     *)
(***************************************************************************)
EXTENDS ScanLoop

VARIABLES
  algo,                                               (* --algo            *)
  current, ladder, hadFailure, probe, probeAddr,      (* safeStrategy      *)
  queue, visited,                                     (* smartStrategy     *)
  phase, readableIntervals, failedIntervals, refinementQueue  (* deepStrategy *)

safeVars == <<current, ladder, hadFailure, probe, probeAddr>>
smartVars == <<queue, visited>>
deepVars == <<phase, readableIntervals, failedIntervals, refinementQueue>>
vars == <<algo, loopVars, safeVars, smartVars, deepVars>>

Safe == INSTANCE SafeScan
Smart == INSTANCE SmartScan
Deep == INSTANCE DeepScan

\* The fields of the strategies that were not chosen.
NoSafe ==
  /\ current = 0 /\ ladder = {} /\ hadFailure = FALSE /\ probe = "none" /\ probeAddr = 0
NoSmart == queue = {} /\ visited = {}
NoDeep == phase = 1 /\ readableIntervals = <<>> /\ failedIntervals = {} /\ refinementQueue = {}

TypeOK ==
  CASE algo = "safe" -> Safe!TypeOK /\ NoSmart /\ NoDeep
    [] algo = "smart" -> Smart!TypeOK /\ NoSafe /\ NoDeep
    [] algo = "deep" -> Deep!TypeOK /\ NoSafe
-----------------------------------------------------------------------------
\* newScanStrategy, and the Init of what it returns.
Init ==
  \/ algo = "safe" /\ Safe!Init /\ NoSmart /\ NoDeep
  \/ algo = "smart" /\ Smart!Init /\ NoSafe /\ NoDeep
  \/ algo = "deep" /\ Deep!Init /\ NoSafe

SafeStep == algo = "safe" /\ Safe!Next /\ UNCHANGED <<algo, smartVars, deepVars>>
SmartStep == algo = "smart" /\ Smart!Next /\ UNCHANGED <<algo, safeVars, deepVars>>
DeepStep == algo = "deep" /\ Deep!Next /\ UNCHANGED <<algo, safeVars>>

Next == SafeStep \/ SmartStep \/ DeepStep

Spec == Init /\ [][Next]_vars
\* The client's timeout ends every read, and nothing else can hold up the loop.
FairSpec == Spec /\ WF_vars(Next)
-----------------------------------------------------------------------------
\* The reads a scan costs stay within the worst case it announces
\* (printScanWorstCaseHint), with the probes of safe and the refinement of deep.
ReadsBounded ==
  CASE algo = "safe" -> Safe!ReadsBounded
    [] algo = "smart" -> Smart!ReadsBounded
    [] algo = "deep" -> Deep!ReadsBounded

\* deep reads every register again that was refused beside a block it captured.
EdgesAreRetried == Deep!EdgesAreRetried
=============================================================================
