----------------------------- MODULE RangeScan ------------------------------
(***************************************************************************)
(* What an exhaustive scan promises, and nothing about how: it captures    *)
(* blocks inside the range and notes registers the device refuses on their *)
(* own, in any order, and it may end only when every register of the range *)
(* is one or the other.  SafeScan, SmartScan and DeepScan implement it.    *)
(***************************************************************************)
EXTENDS Integers

CONSTANTS First, Last  (* the range, inclusive *)

VARIABLES captured, missing, concluded

promiseVars == <<captured, missing, concluded>>

Wanted == First .. Last

PromiseInit ==
  /\ captured = {}
  /\ missing = {}
  /\ concluded = FALSE

\* A read of from..to returned its registers.
Capture ==
  /\ ~concluded
  /\ \E from, to \in Wanted : captured' = captured \cup (from .. to)
  /\ UNCHANGED <<missing, concluded>>

\* A read of the single register a failed.
GiveUp ==
  /\ ~concluded
  /\ \E a \in Wanted : missing' = missing \cup {a}
  /\ UNCHANGED <<captured, concluded>>

\* The scan reports its result.
Conclude ==
  /\ ~concluded
  /\ Wanted \subseteq captured \cup missing
  /\ concluded' = TRUE
  /\ UNCHANGED <<captured, missing>>

PromiseNext == Capture \/ GiveUp \/ Conclude

PromiseSpec == PromiseInit /\ [][PromiseNext]_promiseVars
=============================================================================
