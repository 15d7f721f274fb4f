--------------------------- MODULE RecordCommand ----------------------------
(***************************************************************************)
(* client record: send the requests of a recording plan every interval for *)
(* a while and record the answers to a capture.  A request that fails is   *)
(* skipped; the duration is looked at between two iterations only.         *)
(***************************************************************************)
EXTENDS Invocation

CONSTANTS
  PlanLength,      (* requests of the plan                                 *)
  Intervals,       (* choices of --interval                                *)
  Duration,        (* --duration                                           *)
  MaxIterations    (* bound: iterations, of a run without a pause          *)

ASSUME RecordAssumption ==
  /\ PlanLength \in Nat \ {0} /\ Duration \in Nat /\ MaxIterations \in Nat
  /\ Intervals \subseteq 0 .. Duration

VARIABLES
  interval,
  recordAt,     (* where the loop is *)
  now,          (* the clock; its unit is the unit of the interval *)
  wakeAt,       (* when the sleep ends *)
  next,         (* the request of the plan to send next *)
  iterations,
  blocks        (* blockCount *)

recordVars == <<interval, recordAt, now, wakeAt, next, iterations, blocks>>

(* A faulty form of RecordConnect: the fault the properties catch. *)
CaptureFirst ==
  /\ Collecting({"record"}) /\ recordAt = "connect"
  /\ capture = "none" /\ capture' = "open" /\ recordAt' = "capture"
  /\ UNCHANGED <<flags, stage, cancelled, outcome, link, requests, missed>>
  /\ UNCHANGED <<interval, now, wakeAt, next, iterations, blocks>>
-----------------------------------------------------------------------------
InitRecord ==
  /\ interval \in IF command = "record" THEN Intervals ELSE {0}
  /\ recordAt = "plan" /\ now = 0 /\ wakeAt = 0
  /\ next = 1 /\ iterations = 0 /\ blocks = 0

Recording(at) == Collecting({"record"}) /\ recordAt = at
Continue(at) == recordAt' = at /\ UNCHANGED <<flags, stage, cancelled, outcome, link, capture>>

TimePasses ==
  /\ Collecting({"record"}) /\ now < Duration
  /\ now' = now + 1
  /\ UNCHANGED <<invocationVars, interval, recordAt, wakeAt, next, iterations, blocks>>

\* The blocks file is read and parsed again, and must not be the output.
ReadPlan ==
  /\ Recording("plan")
  /\ \/ Continue("connect")
     \/ Collected(InvalidInput(Plain("other")), FALSE) /\ UNCHANGED recordAt
  /\ UNCHANGED <<requests, missed, interval, now, wakeAt, next, iterations, blocks>>

\* "Connecting first means that a device that cannot be reached leaves no
\* capture file behind."
RecordConnect ==
  /\ Recording("connect")
  /\ Connect
  /\ recordAt' = "capture"
  /\ UNCHANGED <<interval, now, wakeAt, next, iterations, blocks>>

RecordStart ==
  /\ Recording("capture")
  /\ StartCapture
  /\ recordAt' = "loop"
  /\ UNCHANGED <<interval, now, wakeAt, next, iterations, blocks>>

Iterate ==
  /\ Recording("loop")
  /\ IF now >= Duration THEN Collected(NoError, FALSE) /\ UNCHANGED <<recordAt, next>>
     ELSE iterations < MaxIterations /\ next' = 1 /\ Continue("send")
  /\ UNCHANGED <<requests, missed, interval, now, wakeAt, iterations, blocks>>

\* Only the capture and a cancellation end the run; anything else is skipped.
EndsRecording(err) == err.kind = "output" \/ cancelled

SendPlanRequest ==
  /\ Recording("send") /\ next <= PlanLength
  /\ \E err \in CallErrors \cup DialErrors \cup {NoError, Output(Plain("other"))} :
       /\ Sent(err)
       /\ IF err # NoError /\ EndsRecording(err)
          THEN Collected(err, FALSE) /\ UNCHANGED <<recordAt, next, blocks>>
          ELSE /\ next' = next + 1
               /\ blocks' = IF err = NoError THEN blocks + 1 ELSE blocks
               /\ Continue("send")
  /\ UNCHANGED <<interval, now, wakeAt, iterations>>

EndIteration ==
  /\ Recording("send") /\ next > PlanLength
  /\ iterations' = iterations + 1
  /\ wakeAt' = now + interval
  /\ Continue(IF interval > 0 THEN "sleep" ELSE "loop")
  /\ UNCHANGED <<requests, missed, interval, now, next, blocks>>

RecordSleep ==
  /\ Recording("sleep")
  /\ \/ now >= Min({wakeAt, Duration}) /\ Continue("loop")
     \/ cancelled /\ Collected(Plain("canceled"), FALSE) /\ UNCHANGED recordAt
  /\ UNCHANGED <<requests, missed, interval, now, wakeAt, next, iterations, blocks>>

Record == ReadPlan \/ RecordConnect \/ RecordStart \/ Iterate \/ SendPlanRequest
          \/ EndIteration \/ RecordSleep
=============================================================================
