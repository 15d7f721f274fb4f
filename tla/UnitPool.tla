------------------------------ MODULE UnitPool ------------------------------
(***************************************************************************)
(* Asking every unit behind a gateway one question (client identify and    *)
(* client reportserverid): one after the other on one connection, or in    *)
(* parallel by workers with a connection each that take the units from a   *)
(* channel and send their results to another; a goroutine closes it when   *)
(* the last worker is done, and the collector returns the sorted results.  *)
(* The command may be cancelled at any time.                               *)
(***************************************************************************)
EXTENDS Integers, SequencesExt, FiniteSets

CONSTANTS
  UnitList,   (* the units of --unit: ParseUnitIDs sorts and deduplicates  *)
  Parallel    (* --parallel                                                *)

ASSUME PoolAssumption ==
  /\ UnitList \in Seq(1 .. 255) /\ UnitList # <<>>
  /\ \A i, j \in DOMAIN UnitList : i < j => UnitList[i] < UnitList[j]
  /\ Parallel \in Nat

VARIABLES
  serial,         (* the device is on a serial line, which carries one request *)
  main,           (* where the collector is                                *)
  clients,        (* connections that are open, one per worker             *)
  unitsCh,        (* the units nobody has taken yet                        *)
  worker,         (* where each worker is                                  *)
  unit,           (* the unit it took, or 0                                *)
  resultsCh,      (* results sent and not yet collected                    *)
  resultsClosed,  (* the results channel is closed                         *)
  units,          (* res.Units                                             *)
  cancelled,      (* the context is cancelled                              *)
  returned,       (* what the collector returned                           *)
  late            (* history: requests begun after the cancellation        *)

vars == <<serial, main, clients, unitsCh, worker, unit, resultsCh, resultsClosed,
          units, cancelled, returned, late>>

AllUnits == ToSet(UnitList)

UseParallel == Len(UnitList) > 1 /\ Parallel > 1 /\ ~serial
Size == IF ~UseParallel THEN 1
        ELSE IF Parallel < Len(UnitList) THEN Parallel ELSE Len(UnitList)
Workers == 1 .. Size

TypeOK ==
  /\ serial \in BOOLEAN
  /\ main \in {"open", "serve", "collect", "check", "returned"}
  /\ clients \subseteq Workers /\ Cardinality(clients) <= Len(UnitList)
  /\ IsSuffix(unitsCh, UnitList)
  /\ worker \in [Workers -> {"idle", "take", "look", "ask", "asking", "send", "gone"}]
  /\ unit \in [Workers -> AllUnits \cup {0}]
  /\ resultsCh \in Seq(AllUnits) /\ Len(resultsCh) <= Len(UnitList)
  /\ resultsClosed \in BOOLEAN
  /\ units \in Seq(AllUnits)
  /\ cancelled \in BOOLEAN
  /\ returned \in {"none", "result", "cancelled", "connectionError"}
  /\ late \in 0 .. Len(UnitList)

(* Faulty forms of the definitions below: the faults the properties catch. *)
AnyGone == \E w \in Workers : worker[w] = "gone"
NoneGone == \A w \in Workers : worker[w] # "gone"
SerialStops(w) == cancelled /\ ~UseParallel
KeepOpen(as) == IF as = "connectionError" THEN clients ELSE {}
-----------------------------------------------------------------------------
Init ==
  /\ serial \in BOOLEAN
  /\ main = "open"
  /\ clients = {}
  /\ unitsCh = UnitList
  /\ worker = [w \in Workers |-> "idle"]
  /\ unit = [w \in Workers |-> 0]
  /\ resultsCh = <<>> /\ resultsClosed = FALSE
  /\ units = <<>>
  /\ cancelled = FALSE
  /\ returned = "none"
  /\ late = 0

Cancel ==
  /\ ~cancelled
  /\ cancelled' = TRUE
  /\ UNCHANGED <<serial, main, clients, unitsCh, worker, unit, resultsCh, resultsClosed, units, returned, late>>

\* The deferred clean-up closes every client that was opened.
ClientsAfter(as) == {}

Return(as) ==
  /\ main' = "returned"
  /\ returned' = as
  /\ clients' = ClientsAfter(as)

\* openModbusClientPool: one client after the other; a failure closes those
\* that are open already.  Then the workers start (or the only one does).
OpenClient ==
  /\ main = "open" /\ Cardinality(clients) < Size
  /\ \/ /\ clients' = clients \cup {Cardinality(clients) + 1}
        /\ UNCHANGED <<main, returned>>
     \/ Return("connectionError")
  /\ UNCHANGED <<serial, unitsCh, worker, unit, resultsCh, resultsClosed, units, cancelled, late>>

StartWorkers ==
  /\ main = "open" /\ Cardinality(clients) = Size
  /\ main' = IF UseParallel THEN "collect" ELSE "serve"
  /\ worker' = [w \in Workers |-> "take"]
  /\ UNCHANGED <<serial, clients, unitsCh, unit, resultsCh, resultsClosed, units, cancelled, returned, late>>

Step(w, from, to) == worker[w] = from /\ worker' = [worker EXCEPT ![w] = to]

\* Take the next unit; all of them are in the channel from the start.
Take(w) ==
  /\ unitsCh # <<>>
  /\ Step(w, "take", "look")
  /\ unitsCh' = Tail(unitsCh)
  /\ unit' = [unit EXCEPT ![w] = Head(unitsCh)]
  /\ UNCHANGED <<serial, main, clients, resultsCh, resultsClosed, units, cancelled, returned, late>>

\* Before each unit look for a cancellation: the parallel workers then drain
\* the remaining units, the serial loop returns.
StopsHere(w) == cancelled

Look(w) ==
  /\ \/ ~StopsHere(w) /\ Step(w, "look", "ask") /\ UNCHANGED <<main, returned, clients>>
     \/ /\ StopsHere(w) /\ UseParallel
        /\ Step(w, "look", "take")
        /\ UNCHANGED <<main, returned, clients>>
     \/ /\ StopsHere(w) /\ ~UseParallel
        /\ Step(w, "look", "gone")
        /\ Return("cancelled")
  /\ UNCHANGED <<serial, unitsCh, unit, resultsCh, resultsClosed, units, cancelled, late>>

Ask(w) ==
  /\ Step(w, "ask", "asking")
  /\ late' = late + (IF cancelled THEN 1 ELSE 0)
  /\ UNCHANGED <<serial, main, clients, unitsCh, unit, resultsCh, resultsClosed, units, cancelled, returned>>

\* The device answers or refuses, or the request ends with its context.
Answer(w) ==
  /\ Step(w, "asking", "send")
  /\ UNCHANGED <<serial, main, clients, unitsCh, unit, resultsCh, resultsClosed, units, cancelled, returned, late>>

\* A parallel worker sends its result (the channel has room for all of them),
\* the serial loop appends it itself.
Deliver(w) ==
  /\ Step(w, "send", "take")
  /\ IF UseParallel
     THEN /\ Len(resultsCh) < Len(UnitList)
          /\ resultsCh' = Append(resultsCh, unit[w]) /\ UNCHANGED units
     ELSE units' = Append(units, unit[w]) /\ UNCHANGED resultsCh
  /\ UNCHANGED <<serial, main, clients, unitsCh, unit, resultsClosed, cancelled, returned, late>>

Go(w) ==
  /\ unitsCh = <<>>
  /\ Step(w, "take", "gone")
  /\ UNCHANGED <<serial, main, clients, unitsCh, unit, resultsCh, resultsClosed, units, cancelled, returned, late>>

\* wg.Wait(), then close the channel of the results.
AllGone == \A w \in Workers : worker[w] = "gone"

CloseResults ==
  /\ UseParallel /\ main = "collect"
  /\ AllGone /\ ~resultsClosed
  /\ resultsClosed' = TRUE
  /\ UNCHANGED <<serial, main, clients, unitsCh, worker, unit, resultsCh, units, cancelled, returned, late>>

Collect ==
  /\ main = "collect" /\ resultsCh # <<>>
  /\ resultsCh' = Tail(resultsCh)
  /\ units' = Append(units, Head(resultsCh))
  /\ UNCHANGED <<serial, main, clients, unitsCh, worker, unit, resultsClosed, cancelled, returned, late>>

CollectedAll ==
  /\ main = "collect" /\ resultsCh = <<>> /\ resultsClosed
  /\ main' = "check"
  /\ UNCHANGED <<serial, clients, unitsCh, worker, unit, resultsCh, resultsClosed, units, cancelled, returned, late>>

\* sort.Slice rearranges the results by their unit: each of them moves to one
\* place, and none comes before a smaller one.
Rearranged(rs) == {[i \in DOMAIN rs |-> rs[p[i]]] : p \in Bijection(DOMAIN rs, DOMAIN rs)}
Sorted(rs) == {s \in Rearranged(rs) : \A i, j \in DOMAIN s : i < j => s[i] <= s[j]}

\* The parallel collector looks for a cancellation once more, the serial loop
\* does not.
DropsResult == main = "check" /\ cancelled

Finish ==
  /\ main = "check" \/ (main = "serve" /\ AllGone)
  /\ IF DropsResult
     THEN Return("cancelled") /\ UNCHANGED units
     ELSE Return("result") /\ units' \in Sorted(units)
  /\ UNCHANGED <<serial, unitsCh, worker, unit, resultsCh, resultsClosed, cancelled, late>>

WorkerStep(w) ==
  w \in Workers /\ (Take(w) \/ Look(w) \/ Ask(w) \/ Answer(w) \/ Deliver(w) \/ Go(w))
MainStep == OpenClient \/ StartWorkers \/ CloseResults \/ Collect \/ CollectedAll \/ Finish

\* The command is over; any other state without a successor is a deadlock.
Terminated == main = "returned" /\ UNCHANGED vars

Next == Cancel \/ MainStep \/ (\E w \in DOMAIN UnitList : WorkerStep(w)) \/ Terminated

Spec == Init /\ [][Next]_vars
\* Every goroutine runs, and the client's timeout ends every request and dial.
FairSpec == Spec /\ WF_vars(MainStep) /\ \A w \in DOMAIN UnitList : WF_vars(WorkerStep(w))
-----------------------------------------------------------------------------
\* A result is complete: one entry for every unit asked for, sorted, whatever
\* order the answers came in; draining on cancellation never shortens it.
ResultIsComplete ==
  returned = "result" =>
    /\ \A i, j \in DOMAIN units : i < j => units[i] < units[j]
    /\ ToSet(units) = AllUnits

\* The results channel is closed only when no worker can send any more (a send
\* on a closed channel panics), no client is closed under a worker, and none
\* survives the command, also when opening the pool fails half way.
ClosedWhenQuiet ==
  /\ resultsClosed => \A w \in Workers : worker[w] = "gone"
  /\ \A w \in Workers : worker[w] \in {"ask", "asking"} => w \in clients
  /\ main = "returned" => clients = {}

\* "A cancelled context stops multi-unit collectors at the next unit": each
\* connection sees at most one more request.
CancelStopsAtNextUnit == late <= Size

\* The collector returns, and leaves no goroutine behind.
PoolDrains == <>(main = "returned" /\ (\A w \in Workers : worker[w] \in {"idle", "gone"}))
=============================================================================
