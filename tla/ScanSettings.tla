---------------------------- MODULE ScanSettings ----------------------------
(***************************************************************************)
(* What a scan is configured with: the flags of `client scan` and the      *)
(* tables of block sizes of its strategies.                                *)
(***************************************************************************)
EXTENDS Integers, Sequences

CONSTANTS
  AddrMax,        (* last register address, 65535 in the program           *)
  MaxBlock,       (* most registers of one read, 125 in the program        *)
  StartAddress,   (* --start                                               *)
  EndAddress,     (* --end, inclusive                                      *)
  RequestCap,     (* bound: the request counter stops counting here        *)
  SafeSizes,      (* safeCandidateSizes: 125, 64, 32, 16, 8, 4, 2, 1       *)
  RefinementWindow, RefinementCounts, RefinementCap,  (* deep: 8, {1, 2, 4, 8}, 500 *)
  Step, StepHalfOffset,  (* --step, --step-half-offset                     *)
  SteppedSizes,   (* steppedExpandSizes: <<125, 64, 32, 16, 8, 4>>         *)
  Seeds,          (* what --seed-start and --seed-count may be            *)
  BoundarySizes   (* boundaryExpandSizes: <<1, 2, 4, ..., 64, 125>>        *)

\* What the validation of `client scan` lets through.
ASSUME ScanAssumption ==
  /\ AddrMax \in Nat
  /\ MaxBlock \in Nat \ {0, 1}  \* a probe may take two registers
  /\ StartAddress \in 0 .. AddrMax
  /\ EndAddress \in StartAddress .. AddrMax
  /\ RequestCap \in Nat

ASSUME SizesAssumption == SafeSizes \subseteq 1 .. MaxBlock /\ 1 \in SafeSizes

ASSUME RefinementAssumption ==
  /\ RefinementWindow \in Nat \ {0} /\ RefinementCap \in Nat
  /\ RefinementCounts \subseteq 1 .. MaxBlock /\ 1 \in RefinementCounts

ASSUME SteppedAssumption ==
  /\ Step \in 1 .. AddrMax
  /\ StepHalfOffset \in BOOLEAN
  /\ SteppedSizes \in Seq(1 .. MaxBlock)
  /\ \A i, j \in DOMAIN SteppedSizes : i < j => SteppedSizes[j] < SteppedSizes[i]

ASSUME BoundaryAssumption ==
  /\ Seeds \subseteq {s \in [start : 0 .. AddrMax, count : 1 .. MaxBlock] : s.start + s.count - 1 <= AddrMax}
  /\ BoundarySizes \in Seq(1 .. MaxBlock)
=============================================================================
