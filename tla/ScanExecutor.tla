---------------------------- MODULE ScanExecutor ----------------------------
(***************************************************************************)
(* ScanAndRecord between the strategy and the device: it performs each     *)
(* task as one recorded read, may repeat a read that timed out once,       *)
(* reports to the strategy, keeps the statistics of the summary, waits,    *)
(* and at the end closes the capture.  The run may be cancelled any time.  *)
(*                                                                         *)
(* The strategy is any that ends (the *Scan modules); the read is an       *)
(* exchange with one attempt (module Exchange), reduced to its outcome.    *)
(***************************************************************************)
EXTENDS Integers

CONSTANTS
  Delayed,      (* --delay is not 0                                        *)
  RetryOnce,    (* --retry-timeout 1                                       *)
  MaxTasks      (* bound: tasks of the strategy                            *)

ASSUME ExecutorAssumption ==
  /\ Delayed \in BOOLEAN /\ RetryOnce \in BOOLEAN
  /\ MaxTasks \in Nat

VARIABLES
  step,          (* where the loop is                                      *)
  outcome,       (* of the latest read                                     *)
  retried,       (* retryAppliedDelay                                      *)
  stats,         (* ScanStats                                              *)
  cancelled,     (* the context is cancelled                               *)
  returned,      (* what ScanAndRecord returned                            *)
  tasks,         (* history: tasks handed out                              *)
  reported,      (* history: results the strategy was told                 *)
  reads,         (* history: reads performed                               *)
  repeats,       (* history: reads that repeated one                       *)
  recorded,      (* history: reads whose samples are in the capture        *)
  lost           (* history: the capture refused the samples of a read     *)

history == <<tasks, reported, reads, repeats, recorded, lost>>
vars == <<step, outcome, retried, stats, cancelled, returned, history>>

Outcomes == {"success", "exception", "timeout", "transport", "other", "writeFailed"}
Steps == {"next", "read", "result", "reread", "report", "wait", "close", "over"}
ScanStats == [total : 0 .. 2 * MaxTasks,
              success : 0 .. MaxTasks, fail : 0 .. MaxTasks,
              exception : 0 .. MaxTasks, timeout : 0 .. MaxTasks, transport : 0 .. MaxTasks]

TypeOK ==
  /\ step \in Steps
  /\ outcome \in Outcomes
  /\ retried \in BOOLEAN
  /\ stats \in ScanStats
  /\ cancelled \in BOOLEAN
  /\ returned \in {"none", "summary", "interrupted", "writeFailed"}
  /\ tasks \in 0 .. MaxTasks /\ reported \in 0 .. MaxTasks
  /\ reads \in 0 .. 2 * MaxTasks /\ repeats \in 0 .. MaxTasks
  /\ recorded \in 0 .. MaxTasks
  /\ lost \in BOOLEAN

(* Faulty forms of the definitions below: the faults the properties catch. *)
RetryUncounted == stats
RetryAsSuccess == [stats EXCEPT !.total = @ + 1, !.success = @ + 1]
AlwaysExamined == "result"
AbortLater(as) == step' = step /\ returned' = as
-----------------------------------------------------------------------------
Init ==
  /\ step = "next"
  /\ outcome = "success"
  /\ retried = FALSE
  /\ stats = [total |-> 0, success |-> 0, fail |-> 0, exception |-> 0, timeout |-> 0, transport |-> 0]
  /\ cancelled = FALSE
  /\ returned = "none"
  /\ tasks = 0 /\ reported = 0 /\ reads = 0 /\ repeats = 0 /\ recorded = 0
  /\ lost = FALSE

Cancel ==
  /\ ~cancelled
  /\ cancelled' = TRUE
  /\ UNCHANGED <<step, outcome, retried, stats, returned, history>>

\* strategy.Next() hands out a task ...
NextTask ==
  /\ step = "next" /\ tasks < MaxTasks
  /\ step' = "read"
  /\ retried' = FALSE
  /\ tasks' = tasks + 1
  /\ UNCHANGED <<outcome, stats, cancelled, returned,
                 reported, reads, repeats, recorded, lost>>

\* ... or it is done, and there is a summary.
LastTask ==
  /\ step = "next"
  /\ step' = "close" /\ returned' = "summary"
  /\ UNCHANGED <<outcome, retried, stats, cancelled, history>>

Abort(as) == step' = "close" /\ returned' = as

\* What a read can come to; once cancelled it is not sent and fails with the
\* error of the context, which is none of the outcomes counted separately.
PossibleOutcomes == IF cancelled THEN {"other"} ELSE Outcomes

\* A read that was repeated is not examined again.
AfterRead == IF step = "read" THEN "result" ELSE "report"

\* executeReadTask: one exchange, recorded when it succeeds.
Read ==
  /\ step \in {"read", "reread"}
  /\ outcome' \in PossibleOutcomes
  /\ step' = AfterRead
  /\ reads' = reads + 1
  /\ recorded' = recorded + (IF outcome' = "success" THEN 1 ELSE 0)
  /\ lost' = (lost \/ outcome' = "writeFailed")
  /\ UNCHANGED <<retried, stats, cancelled, returned, tasks, reported, repeats>>

\* A capture that cannot be written ends the scan.
IsLost(o) == o = "writeFailed"

WriteFailed ==
  /\ step = "result" /\ IsLost(outcome)
  /\ Abort("writeFailed")
  /\ UNCHANGED <<outcome, retried, stats, cancelled, history>>

\* The single repetition of a read that timed out or lost its connection.
MayRetry(o) == RetryOnce /\ o \in {"timeout", "transport"}
CountRetry == [stats EXCEPT !.total = @ + 1]

Retry ==
  /\ step = "result" /\ MayRetry(outcome)
  /\ stats' = CountRetry
  /\ IF Delayed /\ cancelled
     THEN Abort("interrupted") /\ UNCHANGED <<retried, repeats>>
     ELSE step' = "reread" /\ retried' = Delayed /\ repeats' = repeats + 1 /\ UNCHANGED returned
  /\ UNCHANGED <<outcome, cancelled, tasks, reported, reads, recorded, lost>>

NoRetry ==
  /\ step = "result" /\ ~IsLost(outcome) /\ ~MayRetry(outcome)
  /\ step' = "report"
  /\ UNCHANGED <<outcome, retried, stats, cancelled, returned, history>>

\* The statistics of a task whose last read came to o.
Counted(o) ==
  IF o = "success"
  THEN [stats EXCEPT !.total = @ + 1, !.success = @ + 1]
  ELSE [stats EXCEPT !.total = @ + 1, !.fail = @ + 1,
          !.exception = @ + (IF o = "exception" THEN 1 ELSE 0),
          !.timeout = @ + (IF o = "timeout" THEN 1 ELSE 0),
          !.transport = @ + (IF o = "transport" THEN 1 ELSE 0)]

\* strategy.OnResult and the statistics.
Report ==
  /\ step = "report"
  /\ stats' = Counted(outcome)
  /\ reported' = reported + 1
  /\ step' = IF retried THEN "next" ELSE "wait"
  /\ UNCHANGED <<outcome, retried, cancelled, returned, tasks, reads, repeats, recorded, lost>>

\* The delay after a read, skipped after a retry that had its own; a delay of
\* 0 does not look at the context.
WaitIsCut == Delayed /\ cancelled

Wait ==
  /\ step = "wait"
  /\ IF WaitIsCut THEN Abort("interrupted") ELSE step' = "next" /\ UNCHANGED returned
  /\ UNCHANGED <<outcome, retried, stats, cancelled, history>>

\* finishCapture: a capture that cannot be closed replaces the summary, not
\* an earlier error.
CloseCapture ==
  /\ step = "close"
  /\ step' = "over"
  /\ \/ UNCHANGED returned
     \/ returned = "summary" /\ returned' = "writeFailed"
  /\ UNCHANGED <<outcome, retried, stats, cancelled, history>>

Proceed == \/ NextTask \/ LastTask \/ Read \/ WriteFailed \/ Retry \/ NoRetry
           \/ Report \/ Wait \/ CloseCapture

Next == Cancel \/ Proceed

Spec == Init /\ [][Next]_vars
\* The strategy ends and so does every read: the executor is never stuck.
FairSpec == Spec /\ WF_vars(Proceed)
-----------------------------------------------------------------------------
\* Between two tasks the summary counts every read performed, one by one, and
\* each task once, as a success exactly when its read is in the capture.
SummaryAddsUp ==
  step \in {"next", "wait"} =>
    /\ stats.total = reads
    /\ stats.total = stats.success + stats.fail + repeats
    /\ stats.success = recorded
    /\ stats.success + stats.fail = tasks
    /\ stats.exception + stats.timeout + stats.transport <= stats.fail

\* "No retry storms": no task costs the device more than one repetition, and
\* the strategy hears of each task once, before it is asked for another.
OneResultPerTask ==
  /\ reported \in {tasks - 1, tasks}
  /\ step = "next" => reported = tasks
  /\ reads <= tasks + (IF RetryOnce THEN tasks ELSE 0)

\* "Failing to write a capture (capture_write_failed) exits 10": a scan some
\* read of which could not be recorded does not return a summary.
LostSampleIsFatal == returned = "summary" => ~lost

\* Whatever the device and the user do, ScanAndRecord returns.
Returns == <>(step = "over")
=============================================================================
