------------------------ MODULE ScanExecutor_proofs ------------------------
(***************************************************************************)
(* Proofs about the scan executor, for scans of any length, with or        *)
(* without a delay and a retry.                                            *)
(***************************************************************************)
EXTENDS ScanExecutor, TLAPS

Counters == {"total", "success", "fail", "exception", "timeout", "transport"}

CountsAreNumbers ==
  /\ tasks \in Nat /\ reported \in Nat /\ reads \in Nat /\ repeats \in Nat /\ recorded \in Nat
  /\ stats \in [total : Nat, success : Nat, fail : Nat, exception : Nat, timeout : Nat, transport : Nat]
  /\ step \in Steps

Between == {"next", "wait"}                          \* no task is at hand
AtTask == {"read", "result", "reread", "report"}
Running == Between \cup AtTask
Examined == {"result", "report"}                     \* its read is not counted yet

\* The strategy is behind by the task at hand.
TasksAreReported ==
  /\ reported \in {tasks - 1, tasks}
  /\ step \in Between => reported = tasks
  /\ step \in AtTask => reported = tasks - 1

\* What the statistics say, at every step of a task.
StatsFollow ==
  /\ stats.success + stats.fail = reported
  /\ stats.exception + stats.timeout + stats.transport <= stats.fail
  /\ step \in Running => stats.total = reported + repeats
  /\ step \in Between \cup {"read", "reread"} => reads = stats.total /\ recorded = stats.success
  /\ step \in Examined => /\ reads = stats.total + 1
                          /\ recorded = stats.success + (IF outcome = "success" THEN 1 ELSE 0)

\* The reads that n tasks may cost.
Allowance(n) == n + (IF RetryOnce THEN n ELSE 0)

ReadsAreAllowed ==
  /\ reads <= Allowance(tasks)
  /\ step = "read" => reads <= Allowance(tasks - 1)
  /\ step \in {"result", "reread"} => reads <= Allowance(tasks - 1) + 1
  /\ step = "reread" => RetryOnce

IInv == CountsAreNumbers /\ TasksAreReported /\ StatsFollow /\ ReadsAreAllowed
-----------------------------------------------------------------------------
LEMMA InitInv == Init => IInv
  BY ExecutorAssumption
     DEF Init, IInv, CountsAreNumbers, Steps, TasksAreReported, StatsFollow, ReadsAreAllowed,
         Between, AtTask, Running, Examined, Allowance

\* A report counts the task at hand once.
LEMMA ReportKeepsInv ==
  ASSUME IInv, Report
  PROVE  IInv'
<1>1. /\ step = "report" /\ step' \in Between
      /\ reported' = reported + 1 /\ tasks' = tasks /\ reads' = reads
      /\ repeats' = repeats /\ recorded' = recorded /\ stats' = Counted(outcome)
  BY DEF Report, Between
<1>2. /\ stats.total \in Nat /\ stats.success \in Nat /\ stats.fail \in Nat
      /\ stats.exception \in Nat /\ stats.timeout \in Nat /\ stats.transport \in Nat
      /\ stats = [total |-> stats.total, success |-> stats.success, fail |-> stats.fail,
                  exception |-> stats.exception, timeout |-> stats.timeout,
                  transport |-> stats.transport]
  BY DEF IInv, CountsAreNumbers
<1>3. /\ stats' \in [total : Nat, success : Nat, fail : Nat,
                     exception : Nat, timeout : Nat, transport : Nat]
      /\ stats'.total = stats.total + 1
      /\ stats'.success = stats.success + (IF outcome = "success" THEN 1 ELSE 0)
      /\ stats'.fail = stats.fail + (IF outcome = "success" THEN 0 ELSE 1)
      /\ stats'.exception + stats'.timeout + stats'.transport
           <= stats.exception + stats.timeout + stats.transport
              + (IF outcome = "success" THEN 0 ELSE 1)
  <2>1. CASE outcome = "success"
    <3>1. stats' = [total |-> stats.total + 1, success |-> stats.success + 1, fail |-> stats.fail,
                    exception |-> stats.exception, timeout |-> stats.timeout,
                    transport |-> stats.transport]
      BY <1>1, <1>2, <2>1 DEF Counted
    <3>2. QED
      BY <1>2, <2>1, <3>1
  <2>2. CASE outcome # "success"
    <3>1. stats' = [total |-> stats.total + 1, success |-> stats.success, fail |-> stats.fail + 1,
                    exception |-> stats.exception + (IF outcome = "exception" THEN 1 ELSE 0),
                    timeout |-> stats.timeout + (IF outcome = "timeout" THEN 1 ELSE 0),
                    transport |-> stats.transport + (IF outcome = "transport" THEN 1 ELSE 0)]
      BY <1>1, <1>2, <2>2 DEF Counted
    <3>2. QED
      BY <1>2, <2>2, <3>1
  <2>3. QED
    BY <2>1, <2>2
<1>4. stats.success + stats.fail = reported /\ stats.total = reported + repeats
      /\ reported = tasks - 1 /\ reads = stats.total + 1
      /\ recorded = stats.success + (IF outcome = "success" THEN 1 ELSE 0)
      /\ stats.exception + stats.timeout + stats.transport <= stats.fail
  BY <1>1 DEF IInv, TasksAreReported, StatsFollow, AtTask, Running, Examined
<1>5. CountsAreNumbers'
  BY <1>1, <1>3 DEF IInv, CountsAreNumbers, Between, Steps
<1>6. TasksAreReported'
  BY <1>1, <1>4, <1>5 DEF IInv, CountsAreNumbers, TasksAreReported, Between, AtTask
<1>7. StatsFollow'
  BY <1>1, <1>2, <1>3, <1>4 DEF IInv, CountsAreNumbers, StatsFollow, Between, Examined, Running, AtTask
<1>8. ReadsAreAllowed'
  BY <1>1 DEF IInv, ReadsAreAllowed, Between, Allowance
<1>9. QED
  BY <1>5, <1>6, <1>7, <1>8 DEF IInv

LEMMA StepInv == IInv /\ [Next]_vars => IInv'
<1> SUFFICES ASSUME IInv, [Next]_vars PROVE IInv'
  OBVIOUS
<1> USE ExecutorAssumption
    DEF IInv, CountsAreNumbers, Steps, TasksAreReported, StatsFollow, ReadsAreAllowed,
        Between, AtTask, Running, Examined, Allowance, history
<1>1. CASE Cancel
  BY <1>1 DEF Cancel
<1>2. CASE NextTask
  BY <1>2 DEF NextTask
<1>3. CASE LastTask
  BY <1>3 DEF LastTask
<1>4. CASE Read
  <2>1. CASE step = "read"
    BY <1>4, <2>1 DEF Read, AfterRead
  <2>2. CASE step = "reread"
    BY <1>4, <2>2 DEF Read, AfterRead
  <2>3. QED
    BY <1>4, <2>1, <2>2 DEF Read
<1>5. CASE WriteFailed
  BY <1>5 DEF WriteFailed, Abort
<1>6. CASE Retry
  <2>1. step = "result" /\ RetryOnce /\ outcome # "success"
    BY <1>6 DEF Retry, MayRetry
  <2>2. stats' = [stats EXCEPT !.total = @ + 1]
    BY <1>6 DEF Retry, CountRetry
  <2>3. CASE Delayed /\ cancelled
    BY <1>6, <2>1, <2>2, <2>3 DEF Retry, Abort
  <2>4. CASE ~(Delayed /\ cancelled)
    BY <1>6, <2>1, <2>2, <2>4 DEF Retry
  <2>5. QED
    BY <2>3, <2>4
<1>7. CASE NoRetry
  BY <1>7 DEF NoRetry
<1>8. CASE Report
  BY <1>8, ReportKeepsInv
<1>9. CASE Wait
  BY <1>9 DEF Wait, Abort
<1>10. CASE CloseCapture
  BY <1>10 DEF CloseCapture
<1>11. CASE UNCHANGED vars
  BY <1>11 DEF vars
<1>12. QED
  BY <1>1, <1>2, <1>3, <1>4, <1>5, <1>6, <1>7, <1>8, <1>9, <1>10, <1>11 DEF Next, Proceed
-----------------------------------------------------------------------------
\* However long a scan and whatever its reads come to, the summary counts the
\* reads, the retries and the tasks as they happened.
THEOREM StatsAreExact == Spec => []SummaryAddsUp
<1>1. IInv => SummaryAddsUp
  BY DEF IInv, CountsAreNumbers, TasksAreReported, StatsFollow, SummaryAddsUp, Between, Running
<1>2. QED
  BY <1>1, InitInv, StepInv, PTL DEF Spec

\* No scan repeats a read more than once, or asks for a task before the
\* strategy was told of the one before.
THEOREM TasksAreToldOnce == Spec => []OneResultPerTask
<1>1. IInv => OneResultPerTask
  BY DEF IInv, CountsAreNumbers, TasksAreReported, ReadsAreAllowed, OneResultPerTask, Between, Allowance
<1>2. QED
  BY <1>1, InitInv, StepInv, PTL DEF Spec
=============================================================================
