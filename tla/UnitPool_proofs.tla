-------------------------- MODULE UnitPool_proofs --------------------------
(***************************************************************************)
(* Proofs about the pool of clients behind identify and reportserverid,    *)
(* for any list of units and any --parallel.                               *)
(***************************************************************************)
EXTENDS UnitPool, FiniteSetTheorems, TLAPS

States == {"idle", "take", "look", "ask", "asking", "send", "gone"}
Asking == {w \in Workers : worker[w] = "ask"}
AtRest == \A w \in Workers : worker[w] \in {"idle", "gone"}

\* The connections and the workers, by where the collector is.
PhasesInv ==
  /\ worker \in [Workers -> States]
  /\ main \in {"open", "serve", "collect", "check", "returned"}
  /\ main = "open" => /\ \E k \in 0 .. Size : clients = 1 .. k
                      /\ \A w \in Workers : worker[w] = "idle"
  /\ main = "serve" => ~UseParallel
  /\ main \in {"serve", "collect", "check"} => clients = Workers
  /\ main = "check" => AllGone
  /\ main = "returned" => clients = {} /\ AtRest
  /\ resultsClosed => AllGone

\* A request begun late was begun by a worker that had looked in time, and a
\* worker does not look in time twice.
LateInv ==
  /\ cancelled \in BOOLEAN /\ late \in Nat
  /\ ~cancelled => late = 0
  /\ late + Cardinality(Asking) <= Size


\* The units nobody has taken, those a worker holds, those sent and those collected.
Waiting == ToSet(unitsCh)
Held == {w \in Workers : worker[w] \in {"look", "ask", "asking", "send"}}
InHand == {unit[w] : w \in Held}
Sent == ToSet(resultsCh)
Collected == ToSet(units)

Once(s) == \A i, j \in DOMAIN s : s[i] = s[j] => i = j

\* Nothing has been drained: only the parallel workers drain.
Undrained == UseParallel => cancelled = FALSE

\* No queue and no two workers have a unit twice.
OnceInv ==
  /\ unit \in [Workers -> AllUnits \cup {0}]
  /\ unitsCh \in Seq(AllUnits) /\ Once(unitsCh)
  /\ resultsCh \in Seq(AllUnits) /\ Once(resultsCh)
  /\ units \in Seq(AllUnits) /\ Once(units)
  /\ \A w \in Held : unit[w] \in AllUnits
  /\ \A v, w \in Held : unit[v] = unit[w] => v = w

\* Every unit is in one place at most, and until something is drained in one.
PlaceInv ==
  /\ Waiting \cap InHand = {} /\ Waiting \cap Sent = {} /\ Waiting \cap Collected = {}
  /\ InHand \cap Sent = {} /\ InHand \cap Collected = {} /\ Sent \cap Collected = {}
  /\ Undrained /\ main # "returned" => AllUnits = Waiting \cup InHand \cup Sent \cup Collected

\* The queues are empty when the collector and the workers pass on.
EmptyInv ==
  /\ main \in {"collect", "check"} => UseParallel
  /\ ~UseParallel => resultsCh = <<>>
  /\ main = "check" => resultsCh = <<>>
  /\ main # "returned" => returned = "none"
  /\ main # "returned" => \A w \in Workers : worker[w] = "gone" => unitsCh = <<>>

UnitsInv == OnceInv /\ PlaceInv /\ EmptyInv /\ ResultIsComplete

IInv == PhasesInv /\ LateInv /\ UnitsInv
-----------------------------------------------------------------------------
\* There is at least one worker, and exactly one without --parallel.
LEMMA SizeIsPositive == Size \in Nat \ {0} /\ (~UseParallel => Size = 1)
<1>1. Len(UnitList) \in Nat \ {0}
  BY PoolAssumption
<1>2. QED
  BY <1>1, PoolAssumption DEF Size, UseParallel

\* Any set of workers is finite and no larger than the pool.
LEMMA SomeWorkers == \A S \in SUBSET Workers : IsFiniteSet(S) /\ Cardinality(S) \in 0 .. Size
<1>1. IsFiniteSet(Workers) /\ Cardinality(Workers) = Size
  BY SizeIsPositive, FS_Interval DEF Workers
<1>2. QED
  BY <1>1, SizeIsPositive, FS_Subset, FS_CardinalityType

\* So are the workers about to ask.
LEMMA AskingIsSmall == IsFiniteSet(Asking) /\ Cardinality(Asking) \in 0 .. Size
  BY SomeWorkers DEF Asking

\* The pool keeps its size.
LEMMA SizeStays ==
  [Next]_vars => /\ serial' = serial /\ UseParallel' = UseParallel
                 /\ Size' = Size /\ Workers' = Workers
<1> SUFFICES ASSUME [Next]_vars PROVE serial' = serial
  BY DEF UseParallel, Size, Workers
<1>1. QED
  BY DEF Next, vars, Cancel, MainStep, OpenClient, StartWorkers, CloseResults, Collect,
    CollectedAll,
         Finish, WorkerStep, Take, Look, Ask, Answer, Deliver, Go, Terminated

\* A client more, or a failed dial that closes those opened so far.
LEMMA OpenClientKeepsInv ==
  ASSUME IInv, OpenClient, Workers' = Workers, Size' = Size
  PROVE  PhasesInv'
<1>1. PICK k \in 0 .. Size : clients = 1 .. k
  BY DEF IInv, PhasesInv, OpenClient
<1>2. Cardinality(clients) = k
  BY <1>1, FS_Interval, SizeIsPositive
<1>3. main = "open" /\ worker' = worker /\ resultsClosed' = resultsClosed
  BY DEF OpenClient
<1>4. CASE main' = main
  <2>1. clients' = clients \cup {k + 1} /\ k < Size
    BY <1>2, <1>3, <1>4 DEF OpenClient, Return
  <2>2. clients' = 1 .. (k + 1) /\ k + 1 \in 0 .. Size
    BY <1>1, <2>1, SizeIsPositive
  <2>3. QED
    BY <1>3, <1>4, <2>2 DEF IInv, PhasesInv, AllGone, AtRest
<1>5. CASE main' = "returned" /\ clients' = {}
  BY <1>3, <1>5 DEF IInv, PhasesInv, AllGone, AtRest
<1>6. QED
  BY <1>4, <1>5 DEF OpenClient, Return, ClientsAfter

\* Whatever a worker does, the collector knows where the workers are.
LEMMA WorkerKeepsInv ==
  ASSUME IInv, NEW w \in Workers, WorkerStep(w),
         Workers' = Workers, Size' = Size, UseParallel' = UseParallel
  PROVE  PhasesInv'
<1>1. /\ worker[w] \notin {"idle", "gone"} /\ main # "returned" /\ main # "open" /\ ~AllGone
      /\ resultsClosed' = resultsClosed
      /\ \E to \in States : worker' = [worker EXCEPT ![w] = to]
  BY DEF IInv, PhasesInv, AllGone, AtRest, WorkerStep, Take, Look, Ask, Answer, Deliver, Go,
    Step, States
<1>2. worker' \in [Workers -> States]
  BY <1>1 DEF IInv, PhasesInv
<1>3. main \in {"serve", "collect"} /\ ~resultsClosed /\ clients = Workers
  BY <1>1 DEF IInv, PhasesInv
<1>4. CASE main' = main /\ clients' = clients
  BY <1>1, <1>2, <1>3, <1>4 DEF IInv, PhasesInv
<1>5. CASE Look(w) /\ ~UseParallel /\ Step(w, "look", "gone") /\ Return("cancelled")
  <2>1. Workers = {w}
    BY <1>5, SizeIsPositive DEF Workers
  <2>2. worker'[w] = "gone"
    BY <1>5 DEF Step, IInv, PhasesInv
  <2>3. AtRest'
    BY <2>1, <2>2 DEF AtRest
  <2>4. QED
    BY <1>1, <1>2, <1>3, <1>5, <2>3 DEF Return, ClientsAfter, PhasesInv
<1>6. QED
  BY <1>4, <1>5 DEF WorkerStep, Take, Look, Ask, Answer, Deliver, Go

\* Every step keeps the collector and its workers in phase.
LEMMA PhasesStep == IInv /\ [Next]_vars => PhasesInv'
<1> SUFFICES ASSUME IInv, [Next]_vars PROVE PhasesInv'
  OBVIOUS
<1>1. UseParallel' = UseParallel /\ Size' = Size /\ Workers' = Workers
  BY SizeStays
<1>2. CASE OpenClient
  BY <1>1, <1>2, OpenClientKeepsInv
<1>3. CASE StartWorkers
  <2>1. PICK k \in 0 .. Size : clients = 1 .. k
    BY <1>3 DEF StartWorkers, IInv, PhasesInv
  <2>2. k = Size
    <3>1. Cardinality(clients) = k
      BY <2>1, FS_Interval, SizeIsPositive
    <3>2. QED
      BY <1>3, <3>1 DEF StartWorkers
  <2>3. clients = Workers
    BY <2>1, <2>2 DEF Workers
  <2>4. worker' \in [Workers -> States]
    BY <1>3 DEF StartWorkers, States
  <2>5. ~resultsClosed
    <3>1. 1 \in Workers
      BY SizeIsPositive DEF Workers
    <3>2. QED
      BY <1>3, <3>1 DEF StartWorkers, IInv, PhasesInv, AllGone
  <2>6. QED
    BY <1>1, <1>3, <2>3, <2>4, <2>5 DEF StartWorkers, PhasesInv
<1>4. CASE CloseResults
  BY <1>1, <1>4 DEF CloseResults, IInv, PhasesInv, AllGone, AtRest
<1>5. CASE Collect
  BY <1>1, <1>5 DEF Collect, IInv, PhasesInv, AllGone, AtRest
<1>6. CASE CollectedAll
  BY <1>1, <1>6 DEF CollectedAll, IInv, PhasesInv, AllGone, AtRest
<1>7. CASE Finish
  BY <1>1, <1>7 DEF Finish, Return, ClientsAfter, IInv, PhasesInv, AllGone, AtRest
<1>8. ASSUME NEW w \in DOMAIN UnitList, WorkerStep(w) PROVE PhasesInv'
  <2>1. w \in Workers
    BY <1>8 DEF WorkerStep
  <2>2. QED
    BY <1>1, <1>8, <2>1, WorkerKeepsInv
<1>9. CASE Cancel \/ Terminated \/ UNCHANGED vars
  BY <1>1, <1>9 DEF Cancel, Terminated, vars, IInv, PhasesInv, AllGone, AtRest
<1>10. QED
  BY <1>2, <1>3, <1>4, <1>5, <1>6, <1>7, <1>8, <1>9 DEF Next, MainStep
-----------------------------------------------------------------------------
\* While no more workers are about to ask and no request was begun late, the
\* bound holds on.
LEMMA FewerAsk ==
  ASSUME IInv, Workers' = Workers, Size' = Size, Asking' \subseteq Asking,
         late' = late, cancelled' \in BOOLEAN, cancelled' = FALSE => late = 0
  PROVE  LateInv'
<1>1. Cardinality(Asking') <= Cardinality(Asking) /\ Cardinality(Asking') \in Nat
  BY AskingIsSmall, FS_Subset, FS_CardinalityType
<1>2. late' \in Nat /\ late' + Cardinality(Asking') <= Size'
  BY <1>1, AskingIsSmall, SizeIsPositive DEF IInv, LateInv
<1>3. QED
  BY <1>2, Zenon DEF LateInv

\* Only a worker that finds no cancellation goes on to ask.
LEMMA LookKeepsLate ==
  ASSUME IInv, NEW w \in Workers, Look(w), Workers' = Workers, Size' = Size
  PROVE  LateInv'
<1>1. late' = late /\ cancelled' = cancelled /\ cancelled \in BOOLEAN
  BY DEF Look, IInv, LateInv
<1>2. CASE cancelled
  <2>1. worker' \in {[worker EXCEPT ![w] = "take"], [worker EXCEPT ![w] = "gone"]}
    BY <1>2 DEF Look, StopsHere, Step
  <2>2. Asking' \subseteq Asking
    BY <2>1 DEF Asking, IInv, PhasesInv
  <2>3. cancelled' # FALSE
    BY <1>1, <1>2, Zenon
  <2>4. QED
    BY <1>1, <2>2, <2>3, FewerAsk
<1>3. CASE ~cancelled
  <2>1. late = 0
    BY <1>3, Zenon DEF IInv, LateInv
  <2>2. Cardinality(Asking') \in 0 .. Size
    <3>1. Asking' \in SUBSET Workers
      BY DEF Asking
    <3>2. QED
      BY <3>1, SomeWorkers
  <2>3. late' \in Nat /\ late' + Cardinality(Asking') <= Size'
    BY <1>1, <2>1, <2>2, SizeIsPositive
  <2>4. ~cancelled' => late' = 0
    BY <1>1, <2>1, Zenon
  <2>5. cancelled' \in BOOLEAN
    BY <1>1
  <2>6. QED
    BY <2>3, <2>4, <2>5, Zenon DEF LateInv
<1>4. QED
  BY <1>2, <1>3

\* A late request uses up the look that allowed it.
LEMMA AskKeepsLate ==
  ASSUME IInv, NEW w \in Workers, Ask(w), Workers' = Workers, Size' = Size
  PROVE  LateInv'
<1>1. w \in Asking /\ Asking' = Asking \ {w}
  BY DEF Ask, Step, Asking, IInv, PhasesInv
<1>2. Cardinality(Asking') = Cardinality(Asking) - 1 /\ Cardinality(Asking) \in Nat
  BY <1>1, AskingIsSmall, FS_RemoveElement, FS_CardinalityType
<1>3. late \in Nat /\ late + Cardinality(Asking) <= Size /\ cancelled \in BOOLEAN
      /\ cancelled' = cancelled
  BY DEF Ask, IInv, LateInv
<1>4. CASE cancelled
  <2>1. late' = late + 1
    BY <1>4 DEF Ask
  <2>2. late' \in Nat /\ late' + Cardinality(Asking') <= Size'
    BY <1>2, <1>3, <2>1, SizeIsPositive
  <2>3. QED
    BY <1>3, <1>4, <2>2, Zenon DEF LateInv
<1>5. CASE ~cancelled
  <2>1. late' = late
    BY <1>3, <1>5 DEF Ask
  <2>2. late' \in Nat /\ late' + Cardinality(Asking') <= Size'
    BY <1>2, <1>3, <2>1, SizeIsPositive
  <2>3. ~cancelled' => late' = 0
    BY <1>3, <1>5, <2>1, Zenon DEF IInv, LateInv
  <2>4. QED
    BY <1>3, <2>2, <2>3, Zenon DEF LateInv
<1>6. QED
  BY <1>4, <1>5

\* Every step keeps the count of late requests bounded.
LEMMA LateStep == IInv /\ [Next]_vars => LateInv'
<1> SUFFICES ASSUME IInv, [Next]_vars PROVE LateInv'
  OBVIOUS
<1>1. Size' = Size /\ Workers' = Workers
  BY SizeStays
<1>2. cancelled \in BOOLEAN /\ (cancelled = FALSE => late = 0)
  BY Zenon DEF IInv, LateInv
<1>3. CASE Cancel
  <2>1. Asking' \subseteq Asking /\ late' = late
    BY <1>1, <1>3 DEF Cancel, Asking
  <2>2. cancelled' = TRUE
    BY <1>3 DEF Cancel
  <2>3. cancelled' \in BOOLEAN /\ (cancelled' = FALSE => late = 0)
    BY <2>2, Zenon
  <2>4. QED
    BY <1>1, <2>1, <2>3, FewerAsk
<1>4. ASSUME NEW w \in Workers, Take(w) \/ Answer(w) \/ Deliver(w) \/ Go(w) PROVE LateInv'
  <2>1. late' = late /\ cancelled' = cancelled
        /\ \E to \in {"look", "send", "take", "gone"} : worker' = [worker EXCEPT ![w] = to]
    BY <1>4 DEF Take, Answer, Deliver, Go, Step
  <2>2. Asking' \subseteq Asking
    BY <1>1, <2>1 DEF Asking, IInv, PhasesInv
  <2>3. QED
    BY <1>1, <1>2, <2>1, <2>2, FewerAsk
<1>5. CASE MainStep \/ Terminated \/ UNCHANGED vars
  <2>1. late' = late /\ cancelled' = cancelled
    BY <1>5 DEF MainStep, OpenClient, StartWorkers, CloseResults, Collect, CollectedAll,
      Finish, Terminated, vars
  <2>2. worker' \in {worker, [w \in Workers |-> "take"]}
    BY <1>5 DEF MainStep, OpenClient, StartWorkers, CloseResults, Collect, CollectedAll,
      Finish, Terminated, vars
  <2>3. Asking' \subseteq Asking
    BY <1>1, <2>2 DEF Asking
  <2>4. QED
    BY <1>1, <1>2, <2>1, <2>3, FewerAsk
<1>6. ASSUME NEW w \in DOMAIN UnitList, WorkerStep(w) PROVE LateInv'
  BY <1>1, <1>4, <1>6, LookKeepsLate, AskKeepsLate DEF WorkerStep
<1>7. QED
  BY <1>3, <1>5, <1>6 DEF Next
-----------------------------------------------------------------------------
\* The list of units is a sequence of integers.
LEMMA UnitsAreNumbers ==
  /\ DOMAIN UnitList = 1 .. Len(UnitList) /\ Len(UnitList) \in Nat
  /\ \A i \in DOMAIN UnitList : i \in Int /\ UnitList[i] \in Int
<1>1. ASSUME NEW T, NEW s \in Seq(T)
      PROVE  DOMAIN s = 1 .. Len(s) /\ Len(s) \in Nat /\ \A i \in DOMAIN s : s[i] \in T
  OBVIOUS
<1>2. UnitList \in Seq(1 .. 255)
  BY PoolAssumption
<1>3. /\ DOMAIN UnitList = 1 .. Len(UnitList) /\ Len(UnitList) \in Nat
      /\ \A i \in DOMAIN UnitList : UnitList[i] \in 1 .. 255
  BY <1>1, <1>2, Zenon
<1>4. \A i \in 1 .. Len(UnitList) : i \in Int
  OBVIOUS
<1>5. \A v \in 1 .. 255 : v \in Int
  OBVIOUS
<1>6. QED
  BY <1>3, <1>4, <1>5, Zenon

\* What a queue holds when its head is taken and when one is appended.
LEMMA TakeHead ==
  ASSUME NEW T, NEW s \in Seq(T), s # <<>>, Once(s)
  PROVE  /\ Head(s) \in ToSet(s) /\ ToSet(s) \subseteq T
         /\ Tail(s) \in Seq(T) /\ Once(Tail(s))
         /\ ToSet(Tail(s)) = ToSet(s) \ {Head(s)}
<1>1. Len(s) \in Nat \ {0} /\ DOMAIN s = 1 .. Len(s) /\ Head(s) = s[1]
  OBVIOUS
<1>2. /\ Tail(s) \in Seq(T) /\ DOMAIN Tail(s) = 1 .. (Len(s) - 1)
      /\ \A i \in 1 .. (Len(s) - 1) : Tail(s)[i] = s[i + 1]
  BY <1>1
<1>3. Once(Tail(s))
  BY <1>1, <1>2 DEF Once
<1>4. ASSUME NEW x \in ToSet(s), x # Head(s) PROVE x \in ToSet(Tail(s))
  <2>1. PICK i \in 1 .. Len(s) : x = s[i]
    BY <1>1, <1>4 DEF ToSet
  <2>2. i - 1 \in 1 .. (Len(s) - 1) /\ Tail(s)[i - 1] = x
    BY <1>1, <1>2, <1>4, <2>1
  <2>3. QED
    BY <1>2, <2>2 DEF ToSet
<1>5. ASSUME NEW x \in ToSet(Tail(s)) PROVE x \in ToSet(s) \ {Head(s)}
  <2>1. PICK i \in 1 .. (Len(s) - 1) : x = Tail(s)[i]
    BY <1>2, <1>5 DEF ToSet
  <2>2. x = s[i + 1] /\ i + 1 \in DOMAIN s /\ 1 \in DOMAIN s /\ i + 1 # 1
    BY <1>1, <1>2, <2>1
  <2>3. QED
    BY <1>1, <2>2 DEF ToSet, Once
<1>6. Head(s) \in ToSet(s) /\ ToSet(s) \subseteq T
  BY <1>1 DEF ToSet
<1>7. QED
  BY <1>2, <1>3, <1>4, <1>5, <1>6

\* What is appended is there, once if it was not there before.
LEMMA AppendOne ==
  ASSUME NEW T, NEW s \in Seq(T), NEW x \in T
  PROVE  /\ Append(s, x) \in Seq(T) /\ ToSet(Append(s, x)) = ToSet(s) \cup {x}
         /\ Once(s) /\ x \notin ToSet(s) => Once(Append(s, x))
<1> DEFINE t == Append(s, x)
<1>1. /\ t \in Seq(T) /\ Len(s) \in Nat /\ DOMAIN s = 1 .. Len(s) /\ DOMAIN t = 1 .. (Len(s) + 1)
      /\ \A i \in 1 .. Len(s) : t[i] = s[i]
      /\ t[Len(s) + 1] = x
  OBVIOUS
<1>2. \A i \in DOMAIN t : i \in DOMAIN s \/ i = Len(s) + 1
  BY <1>1
<1>3. Len(s) + 1 \in DOMAIN t /\ \A i \in DOMAIN s : i \in DOMAIN t
  BY <1>1
<1> HIDE DEF t
<1>4. ToSet(t) = ToSet(s) \cup {x}
  BY <1>1, <1>2, <1>3 DEF ToSet
<1>5. Once(s) /\ x \notin ToSet(s) => Once(t)
  BY <1>1, <1>2 DEF ToSet, Once
<1>6. QED
  BY <1>1, <1>4, <1>5 DEF t

\* Sorting keeps every result, once, and in ascending order.
LEMMA SortedKeeps ==
  ASSUME NEW s \in Seq(AllUnits), Once(s), NEW r \in Sorted(s)
  PROVE  /\ ToSet(r) = ToSet(s)
         /\ \A i, j \in DOMAIN r : i < j => r[i] < r[j]
         /\ r \in Seq(AllUnits) /\ Once(r)
<1>1. PICK p \in Bijection(DOMAIN s, DOMAIN s) : r = [i \in DOMAIN s |-> s[p[i]]]
  BY DEF Sorted, Rearranged
<1>2. /\ p \in [DOMAIN s -> DOMAIN s]
      /\ \A i, j \in DOMAIN s : p[i] = p[j] => i = j
      /\ \A k \in DOMAIN s : \E i \in DOMAIN s : p[i] = k
  BY <1>1 DEF Bijection, Injection, Surjection, IsInjective
<1>3. DOMAIN r = DOMAIN s /\ \A i \in DOMAIN s : r[i] = s[p[i]] /\ p[i] \in DOMAIN s
  BY <1>1, <1>2
<1>4. ToSet(r) = ToSet(s)
  BY <1>2, <1>3 DEF ToSet
<1>5. Once(r)
  BY <1>2, <1>3 DEF Once
<1>6. \A i, j \in DOMAIN r : i < j => r[i] <= r[j]
  BY DEF Sorted
<1>7. DOMAIN s = 1 .. Len(s) /\ Len(s) \in Nat /\ \A i \in DOMAIN s : s[i] \in AllUnits
  OBVIOUS
<1>8. ASSUME NEW x \in AllUnits PROVE x \in Int
  <2>1. PICK i \in DOMAIN UnitList : x = UnitList[i]
    BY DEF AllUnits, ToSet
  <2>2. QED
    BY <2>1, UnitsAreNumbers, Zenon
<1>9. ASSUME NEW i \in DOMAIN r, NEW j \in DOMAIN r, i < j PROVE r[i] < r[j]
  <2>1. r[i] <= r[j] /\ r[i] # r[j]
    BY <1>3, <1>5, <1>6, <1>7, <1>9 DEF Once
  <2>2. r[i] \in Int /\ r[j] \in Int
    BY <1>3, <1>7, <1>8
  <2>3. QED
    BY <2>1, <2>2
<1>10. r \in Seq(AllUnits)
  BY <1>1, <1>3, <1>7
<1>11. QED
  BY <1>4, <1>5, <1>9, <1>10

\* At first every unit waits in the channel.
LEMMA InitUnits == Init => UnitsInv
<1> SUFFICES ASSUME Init PROVE UnitsInv
  OBVIOUS
<1>1. Held = {} /\ InHand = {}
  BY DEF Init, Held, InHand
<1>2. UnitList \in Seq(AllUnits) /\ Once(UnitList)
  <2>1. /\ DOMAIN UnitList = 1 .. Len(UnitList) /\ Len(UnitList) \in Nat
        /\ \A i \in DOMAIN UnitList : i \in Int /\ UnitList[i] \in Int
    BY UnitsAreNumbers
  <2>2. Once(UnitList)
    <3>1. \A i, j \in DOMAIN UnitList : i < j => UnitList[i] < UnitList[j]
      BY PoolAssumption
    <3>2. ASSUME NEW i \in DOMAIN UnitList, NEW j \in DOMAIN UnitList,
                 UnitList[i] = UnitList[j]
          PROVE  i = j
      <4>1. i \in Int /\ j \in Int /\ UnitList[i] \in Int /\ UnitList[j] \in Int
        BY <2>1, Zenon
      <4>2. ~(i < j) /\ ~(j < i)
        BY <3>1, <3>2, <4>1
      <4>3. QED
        BY <4>1, <4>2
    <3>3. QED
      BY <3>2 DEF Once
  <2>3. \A i \in DOMAIN UnitList : UnitList[i] \in AllUnits
    BY DEF AllUnits, ToSet
  <2>4. UnitList \in Seq(AllUnits)
    <3>1. ASSUME NEW T, NEW s \in Seq(T), NEW V, \A i \in DOMAIN s : s[i] \in V PROVE s \in Seq(V)
      BY <3>1
    <3>2. QED
      BY <2>3, <3>1, PoolAssumption
  <2>5. QED
    BY <2>2, <2>4
<1>3. unitsCh = UnitList /\ resultsCh = <<>> /\ units = <<>>
  BY DEF Init
<1>4. Sent = {} /\ Collected = {} /\ Waiting = AllUnits /\ Once(<<>>)
  BY <1>3 DEF Sent, Collected, Waiting, AllUnits, ToSet, Once
<1>5. OnceInv
  BY <1>1, <1>2, <1>3, <1>4 DEF OnceInv, Init
<1>6. PlaceInv
  BY <1>1, <1>4 DEF PlaceInv
<1>7. EmptyInv /\ ResultIsComplete
  BY DEF Init, EmptyInv, ResultIsComplete
<1>8. QED
  BY <1>5, <1>6, <1>7 DEF UnitsInv

\* A step that moves no unit keeps them where they are.
LEMMA NothingMoves ==
  ASSUME OnceInv, PlaceInv, Workers' = Workers, Held' = Held, unit' = unit,
         unitsCh' = unitsCh, resultsCh' = resultsCh, units' = units,
         Undrained' /\ main' # "returned" => Undrained /\ main # "returned"
  PROVE  OnceInv' /\ PlaceInv'
<1>1. InHand' = InHand /\ Waiting' = Waiting /\ Sent' = Sent /\ Collected' = Collected
  BY DEF InHand, Waiting, Sent, Collected
<1>2. OnceInv'
  BY DEF OnceInv
<1>3. PlaceInv'
  BY <1>1 DEF PlaceInv
<1>4. QED
  BY <1>2, <1>3

\* The units in hand when one worker moves.
LEMMA HandMoves ==
  ASSUME IInv, NEW w \in Workers, NEW to \in States,
         worker' = [worker EXCEPT ![w] = to], Workers' = Workers
  PROVE  /\ to \in {"look", "ask", "asking", "send"} => Held' = Held \cup {w}
         /\ to \notin {"look", "ask", "asking", "send"} => Held' = Held \ {w}
         /\ w \in Held <=> worker[w] \in {"look", "ask", "asking", "send"}
<1>1. worker \in [Workers -> States]
  BY DEF IInv, PhasesInv
<1>2. QED
  BY <1>1 DEF Held

\* Taking a unit moves it from the channel into one hand.
LEMMA TakeKeepsUnits ==
  ASSUME IInv, NEW w \in Workers, Take(w), Workers' = Workers, UseParallel' = UseParallel
  PROVE  UnitsInv'
<1>1. PICK h : h = Head(unitsCh)
  OBVIOUS
<1>2. /\ h \in Waiting /\ h \in AllUnits /\ unitsCh' \in Seq(AllUnits) /\ Once(unitsCh')
      /\ Waiting' = Waiting \ {h}
  <2>1. PICK s : s = unitsCh
    OBVIOUS
  <2>2. s \in Seq(AllUnits) /\ s # <<>> /\ Once(s)
    BY <2>1 DEF Take, IInv, UnitsInv, OnceInv
  <2>3. /\ Head(s) \in ToSet(s) /\ ToSet(s) \subseteq AllUnits
        /\ Tail(s) \in Seq(AllUnits) /\ Once(Tail(s)) /\ ToSet(Tail(s)) = ToSet(s) \ {Head(s)}
    BY <2>2, TakeHead
  <2>4. unitsCh' = Tail(s)
    BY <2>1 DEF Take
  <2>5. QED
    BY <1>1, <2>1, <2>3, <2>4 DEF Waiting
<1>3. /\ worker[w] = "take" /\ worker' = [worker EXCEPT ![w] = "look"]
      /\ unit' = [unit EXCEPT ![w] = h]
      /\ resultsCh' = resultsCh /\ units' = units /\ main' = main /\ returned' = returned
         /\ cancelled' = cancelled
  BY <1>1 DEF Take, Step
<1>4. Held' = Held \cup {w} /\ w \notin Held
  BY <1>3, HandMoves DEF States
<1>5. unit \in [Workers -> AllUnits \cup {0}] /\ \A v \in Held : v \in Workers
  BY DEF IInv, UnitsInv, OnceInv, Held
<1>6. unit' \in [Workers -> AllUnits \cup {0}] /\ unit'[w] = h /\ \A v \in Held : unit'[v] = unit[v]
  BY <1>2, <1>3, <1>4, <1>5
<1>7. InHand' = InHand \cup {h}
  BY <1>4, <1>6 DEF InHand
<1>8. \A v \in Held : unit[v] # h
  BY <1>2 DEF IInv, UnitsInv, PlaceInv, InHand
<1>9. OnceInv'
  BY <1>2, <1>3, <1>4, <1>6, <1>8 DEF IInv, UnitsInv, OnceInv
<1>10. Sent' = Sent /\ Collected' = Collected /\ (Undrained' <=> Undrained)
  BY <1>3 DEF Sent, Collected, Undrained
<1>11. PlaceInv'
  BY <1>2, <1>3, <1>7, <1>10 DEF IInv, UnitsInv, PlaceInv
<1>12. EmptyInv'
  BY <1>3 DEF Take, IInv, PhasesInv, AtRest, UnitsInv, EmptyInv
<1>13. ResultIsComplete'
  BY <1>3 DEF IInv, UnitsInv, ResultIsComplete
<1>14. QED
  BY <1>9, <1>11, <1>12, <1>13 DEF UnitsInv

\* A worker that finds a cancellation drains the unit it took.
LEMMA LookKeepsUnits ==
  ASSUME IInv, NEW w \in Workers, Look(w), Workers' = Workers, UseParallel' = UseParallel
  PROVE  UnitsInv'
<1>1. /\ worker[w] = "look" /\ unit' = unit /\ unitsCh' = unitsCh /\ resultsCh' = resultsCh
      /\ units' = units /\ cancelled' = cancelled
  BY DEF Look, Step
<1>2. main # "returned"
  BY <1>1 DEF IInv, PhasesInv, AtRest
<1>3. ResultIsComplete'
  <2>1. returned' # "result"
    BY <1>2 DEF Look, Return, IInv, UnitsInv, EmptyInv
  <2>2. QED
    BY <2>1 DEF ResultIsComplete
<1>4. Sent' = Sent /\ Collected' = Collected /\ Waiting' = Waiting /\ (Undrained' <=> Undrained)
  BY <1>1 DEF Sent, Collected, Waiting, Undrained
<1>5. CASE ~StopsHere(w) /\ Step(w, "look", "ask") /\ main' = main /\ returned' = returned
  <2>1. Held' = Held
    <3>1. worker' = [worker EXCEPT ![w] = "ask"] /\ "ask" \in States
      BY <1>5 DEF Step, States
    <3>2. QED
      BY <1>1, <3>1, HandMoves
  <2>2. EmptyInv'
    BY <1>1, <1>5 DEF Step, IInv, PhasesInv, UnitsInv, EmptyInv
  <2>3. QED
    BY <1>1, <1>3, <1>4, <1>5, <2>1, <2>2, NothingMoves DEF IInv, UnitsInv
<1>6. ASSUME NEW to \in {"take", "gone"}, worker' = [worker EXCEPT ![w] = to],
             ~(Undrained' /\ main' # "returned"), EmptyInv'
      PROVE  UnitsInv'
  <2>1. Held' = Held \ {w}
    BY <1>6, HandMoves DEF States
  <2>2. InHand' \subseteq InHand
    BY <1>1, <2>1 DEF InHand
  <2>3. OnceInv'
    BY <1>1, <2>1 DEF IInv, UnitsInv, OnceInv
  <2>4. PlaceInv'
    BY <1>4, <1>6, <2>2 DEF IInv, UnitsInv, PlaceInv
  <2>5. QED
    BY <1>3, <1>6, <2>3, <2>4 DEF UnitsInv
<1>7. CASE StopsHere(w) /\ UseParallel /\ Step(w, "look", "take") /\ main' = main
           /\ returned' = returned
  <2>1. ~Undrained'
    BY <1>1, <1>7, Zenon DEF Undrained, StopsHere
  <2>2. EmptyInv'
    BY <1>1, <1>7 DEF Step, IInv, PhasesInv, UnitsInv, EmptyInv
  <2>3. QED
    BY <1>6, <1>7, <2>1, <2>2 DEF Step
<1>8. CASE ~UseParallel /\ Step(w, "look", "gone") /\ Return("cancelled")
  <2>1. EmptyInv'
    BY <1>1, <1>8 DEF Return, IInv, UnitsInv, EmptyInv
  <2>2. QED
    BY <1>6, <1>8, <2>1 DEF Step, Return
<1>9. QED
  BY <1>5, <1>7, <1>8 DEF Look

\* Delivering a unit moves it from the hand to the results.
LEMMA DeliverKeepsUnits ==
  ASSUME IInv, NEW w \in Workers, Deliver(w), Workers' = Workers, UseParallel' = UseParallel
  PROVE  UnitsInv'
<1>1. PICK u : u = unit[w]
  OBVIOUS
<1>2. /\ worker[w] = "send" /\ worker' = [worker EXCEPT ![w] = "take"]
      /\ unit' = unit /\ unitsCh' = unitsCh /\ main' = main /\ returned' = returned
         /\ cancelled' = cancelled
  BY DEF Deliver, Step
<1>3. Held' = Held \ {w} /\ w \in Held
  BY <1>2, HandMoves DEF States
<1>4. u \in AllUnits /\ u \in InHand /\ u \notin Sent /\ u \notin Collected
  BY <1>1, <1>3 DEF IInv, UnitsInv, OnceInv, PlaceInv, InHand
<1>5. \A v \in Held : unit[v] = u => v = w
  BY <1>1, <1>3 DEF IInv, UnitsInv, OnceInv
<1>6. InHand' = InHand \ {u}
  BY <1>1, <1>2, <1>3, <1>5 DEF InHand
<1>7. Waiting' = Waiting /\ (Undrained' <=> Undrained)
  BY <1>2 DEF Waiting, Undrained
<1>8. main # "returned" /\ main # "check"
  BY <1>2 DEF IInv, PhasesInv, AtRest, AllGone
<1>9. \A v \in Workers : worker'[v] = "gone" => worker[v] = "gone"
  BY <1>2 DEF IInv, PhasesInv
<1>10. CASE UseParallel
  <2>1. resultsCh' = Append(resultsCh, u) /\ units' = units
    BY <1>1, <1>10 DEF Deliver
  <2>2. resultsCh' \in Seq(AllUnits) /\ Sent' = Sent \cup {u} /\ Once(resultsCh')
    <3>1. PICK s : s = resultsCh
      OBVIOUS
    <3>2. s \in Seq(AllUnits) /\ Once(s) /\ u \notin ToSet(s)
      BY <1>4, <3>1 DEF IInv, UnitsInv, OnceInv, Sent
    <3>3. Append(s, u) \in Seq(AllUnits) /\ ToSet(Append(s, u)) = ToSet(s) \cup {u}
          /\ Once(Append(s, u))
      BY <1>4, <3>2, AppendOne
    <3>4. QED
      BY <2>1, <3>1, <3>3 DEF Sent
  <2>3. OnceInv'
    BY <1>2, <1>3, <2>1, <2>2 DEF IInv, UnitsInv, OnceInv
  <2>4. Collected' = Collected
    BY <2>1 DEF Collected
  <2>5. PlaceInv'
    BY <1>2, <1>4, <1>6, <1>7, <2>2, <2>4 DEF IInv, UnitsInv, PlaceInv
  <2>6. EmptyInv'
    BY <1>2, <1>8, <1>9, <1>10 DEF IInv, UnitsInv, EmptyInv
  <2>7. ResultIsComplete'
    BY <1>2, <2>1 DEF IInv, UnitsInv, ResultIsComplete
  <2>8. QED
    BY <2>3, <2>5, <2>6, <2>7 DEF UnitsInv
<1>11. CASE ~UseParallel
  <2>1. units' = Append(units, u) /\ resultsCh' = resultsCh
    BY <1>1, <1>11 DEF Deliver
  <2>2. units' \in Seq(AllUnits) /\ Collected' = Collected \cup {u} /\ Once(units')
    <3>1. PICK s : s = units
      OBVIOUS
    <3>2. s \in Seq(AllUnits) /\ Once(s) /\ u \notin ToSet(s)
      BY <1>4, <3>1 DEF IInv, UnitsInv, OnceInv, Collected
    <3>3. Append(s, u) \in Seq(AllUnits) /\ ToSet(Append(s, u)) = ToSet(s) \cup {u}
          /\ Once(Append(s, u))
      BY <1>4, <3>2, AppendOne
    <3>4. QED
      BY <2>1, <3>1, <3>3 DEF Collected
  <2>3. OnceInv'
    BY <1>2, <1>3, <2>1, <2>2 DEF IInv, UnitsInv, OnceInv
  <2>4. Sent' = Sent
    BY <2>1 DEF Sent
  <2>5. PlaceInv'
    BY <1>2, <1>4, <1>6, <1>7, <2>2, <2>4 DEF IInv, UnitsInv, PlaceInv
  <2>6. EmptyInv'
    BY <1>2, <1>8, <1>9, <1>11, <2>1 DEF IInv, UnitsInv, EmptyInv
  <2>7. returned # "result"
    BY <1>8 DEF IInv, LateInv, UnitsInv, EmptyInv
  <2>8. ResultIsComplete'
    BY <1>2, <2>7 DEF ResultIsComplete
  <2>9. QED
    BY <2>3, <2>5, <2>6, <2>8 DEF UnitsInv
<1>12. QED
  BY <1>10, <1>11

\* Collecting moves it from the channel into the result.
LEMMA CollectKeepsUnits ==
  ASSUME IInv, Collect, Workers' = Workers, UseParallel' = UseParallel
  PROVE  UnitsInv'
<1>1. PICK h : h = Head(resultsCh)
  OBVIOUS
<1>2. /\ h \in Sent /\ h \in AllUnits /\ resultsCh' \in Seq(AllUnits) /\ Once(resultsCh')
      /\ Sent' = Sent \ {h}
  <2>1. PICK s : s = resultsCh
    OBVIOUS
  <2>2. s \in Seq(AllUnits) /\ s # <<>> /\ Once(s)
    BY <2>1 DEF Collect, IInv, UnitsInv, OnceInv
  <2>3. /\ Head(s) \in ToSet(s) /\ ToSet(s) \subseteq AllUnits
        /\ Tail(s) \in Seq(AllUnits) /\ Once(Tail(s)) /\ ToSet(Tail(s)) = ToSet(s) \ {Head(s)}
    BY <2>2, TakeHead
  <2>4. resultsCh' = Tail(s)
    BY <2>1 DEF Collect
  <2>5. QED
    BY <1>1, <2>1, <2>3, <2>4 DEF Sent
<1>3. h \notin Collected
  BY <1>2 DEF IInv, UnitsInv, PlaceInv
<1>4. units' \in Seq(AllUnits) /\ Collected' = Collected \cup {h} /\ Once(units')
  <2>1. PICK s : s = units
    OBVIOUS
  <2>2. s \in Seq(AllUnits) /\ Once(s) /\ h \notin ToSet(s)
    BY <1>3, <2>1 DEF IInv, UnitsInv, OnceInv, Collected
  <2>3. Append(s, h) \in Seq(AllUnits) /\ ToSet(Append(s, h)) = ToSet(s) \cup {h}
        /\ Once(Append(s, h))
    BY <1>2, <2>2, AppendOne
  <2>4. units' = Append(s, h)
    BY <1>1, <2>1 DEF Collect
  <2>5. QED
    BY <2>1, <2>3, <2>4 DEF Collected
<1>5. /\ worker' = worker /\ unit' = unit /\ unitsCh' = unitsCh /\ main = "collect" /\ main' = main
      /\ returned' = returned /\ cancelled' = cancelled
  BY DEF Collect
<1>6. Held' = Held /\ InHand' = InHand /\ Waiting' = Waiting /\ (Undrained' <=> Undrained)
  BY <1>5 DEF Held, InHand, Waiting, Undrained
<1>7. OnceInv'
  BY <1>2, <1>4, <1>5, <1>6 DEF IInv, UnitsInv, OnceInv
<1>8. PlaceInv'
  BY <1>2, <1>3, <1>4, <1>5, <1>6 DEF IInv, UnitsInv, PlaceInv
<1>9. EmptyInv'
  BY <1>5 DEF IInv, UnitsInv, EmptyInv
<1>10. returned # "result"
  BY <1>5 DEF IInv, UnitsInv, EmptyInv
<1>11. ResultIsComplete'
  BY <1>5, <1>10 DEF ResultIsComplete
<1>12. QED
  BY <1>7, <1>8, <1>9, <1>11 DEF UnitsInv

\* When the collector returns a result the units are all collected.
LEMMA FinishKeepsUnits ==
  ASSUME IInv, Finish, Workers' = Workers, UseParallel' = UseParallel
  PROVE  UnitsInv'
<1>1. /\ unit' = unit /\ unitsCh' = unitsCh /\ resultsCh' = resultsCh /\ worker' = worker
      /\ cancelled' = cancelled /\ main' = "returned" /\ main \in {"serve", "check"}
  BY DEF Finish, Return
<1>2. AllGone
  BY DEF Finish, IInv, PhasesInv
<1>3. Waiting' = Waiting /\ Sent' = Sent /\ Held' = Held /\ InHand' = InHand
  BY <1>1 DEF Waiting, Sent, Held, InHand
<1>4. EmptyInv'
  BY <1>1 DEF IInv, UnitsInv, EmptyInv
<1>5. CASE DropsResult
  <2>1. units' = units /\ returned' = "cancelled"
    BY <1>5 DEF Finish, Return
  <2>2. OnceInv' /\ PlaceInv'
    BY <1>1, <1>3, <2>1, NothingMoves DEF IInv, UnitsInv
  <2>3. QED
    BY <1>4, <2>1, <2>2 DEF UnitsInv, ResultIsComplete
<1>6. CASE ~DropsResult
  <2>1. units' \in Sorted(units)
    BY <1>6 DEF Finish
  <2>2. PICK r, s : r = units' /\ s = units
    OBVIOUS
  <2>3. /\ ToSet(r) = ToSet(s) /\ r \in Seq(AllUnits) /\ Once(r)
        /\ \A i, j \in DOMAIN r : i < j => r[i] < r[j]
    <3>1. s \in Seq(AllUnits) /\ Once(s) /\ r \in Sorted(s)
      BY <2>1, <2>2 DEF IInv, UnitsInv, OnceInv
    <3>2. QED
      BY <3>1, SortedKeeps
  <2>4. Collected' = Collected
    BY <2>2, <2>3 DEF Collected
  <2>5. OnceInv'
    BY <1>1, <1>3, <2>2, <2>3 DEF IInv, UnitsInv, OnceInv
  <2>6. PlaceInv'
    BY <1>1, <1>3, <2>4 DEF IInv, UnitsInv, PlaceInv
  <2>7. 1 \in Workers
    BY SizeIsPositive DEF Workers
  <2>8. unitsCh = <<>> /\ resultsCh = <<>>
    <3>1. unitsCh = <<>>
      BY <1>1, <1>2, <2>7 DEF AllGone, IInv, UnitsInv, EmptyInv
    <3>2. resultsCh = <<>>
      BY <1>1 DEF IInv, PhasesInv, UnitsInv, EmptyInv
    <3>3. QED
      BY <3>1, <3>2
  <2>9. Waiting = {} /\ Sent = {} /\ InHand = {}
    BY <1>2, <2>8 DEF Waiting, Sent, InHand, Held, AllGone, ToSet
  <2>10. Undrained
    <3>1. CASE main = "serve"
      BY <3>1 DEF Undrained, IInv, PhasesInv
    <3>2. CASE main = "check"
      <4>1. cancelled = FALSE
        BY <1>6, <3>2, Zenon DEF DropsResult, IInv, LateInv
      <4>2. QED
        BY <4>1 DEF Undrained
    <3>3. QED
      BY <1>1, <3>1, <3>2
  <2>11. AllUnits = Collected
    BY <1>1, <2>9, <2>10 DEF IInv, UnitsInv, PlaceInv
  <2>12. ResultIsComplete'
    BY <2>2, <2>3, <2>4, <2>11 DEF ResultIsComplete, Collected
  <2>13. QED
    BY <1>4, <2>5, <2>6, <2>12 DEF UnitsInv
<1>7. QED
  BY <1>5, <1>6

\* Whoever moves, the units stay where they belong.
LEMMA UnitsStep == IInv /\ [Next]_vars => UnitsInv'
<1> SUFFICES ASSUME IInv, [Next]_vars PROVE UnitsInv'
  OBVIOUS
<1>1. UseParallel' = UseParallel /\ Size' = Size /\ Workers' = Workers
  BY SizeStays
<1>2. CASE Cancel
  <2>1. Held' = Held
    BY <1>1, <1>2 DEF Cancel, Held
  <2>2. Undrained' => Undrained
    BY <1>1, <1>2, Zenon DEF Cancel, Undrained
  <2>3. OnceInv' /\ PlaceInv'
    BY <1>1, <1>2, <2>1, <2>2, NothingMoves DEF Cancel, IInv, UnitsInv
  <2>4. EmptyInv' /\ ResultIsComplete'
    BY <1>1, <1>2 DEF Cancel, IInv, UnitsInv, EmptyInv, ResultIsComplete
  <2>5. QED
    BY <2>3, <2>4 DEF UnitsInv
<1>3. CASE OpenClient \/ StartWorkers \/ CloseResults \/ CollectedAll
  <2>1. /\ unit' = unit /\ unitsCh' = unitsCh /\ resultsCh' = resultsCh /\ units' = units
           /\ cancelled' = cancelled
        /\ main # "returned" /\ returned' # "result"
    BY <1>3 DEF OpenClient, StartWorkers, CloseResults, CollectedAll, Return, IInv, UnitsInv,
      EmptyInv
  <2>2. Held' = Held
    BY <1>1, <1>3 DEF OpenClient, StartWorkers, CloseResults, CollectedAll, Held, IInv, PhasesInv
  <2>3. Undrained' <=> Undrained
    BY <1>1, <2>1 DEF Undrained
  <2>4. OnceInv' /\ PlaceInv'
    BY <1>1, <2>1, <2>2, <2>3, NothingMoves DEF IInv, UnitsInv
  <2>5. EmptyInv'
    BY <1>1, <1>3, <2>1 DEF OpenClient, StartWorkers, CloseResults, CollectedAll, Return, IInv,
      PhasesInv, UnitsInv, EmptyInv
  <2>6. QED
    BY <2>1, <2>4, <2>5 DEF UnitsInv, ResultIsComplete
<1>4. CASE Collect
  BY <1>1, <1>4, CollectKeepsUnits
<1>5. CASE Finish
  BY <1>1, <1>5, FinishKeepsUnits
<1>6. ASSUME NEW w \in Workers, Ask(w) \/ Answer(w) \/ Go(w) PROVE UnitsInv'
  <2>1. /\ unit' = unit /\ unitsCh' = unitsCh /\ resultsCh' = resultsCh /\ units' = units
           /\ cancelled' = cancelled
        /\ main' = main /\ returned' = returned
    BY <1>6 DEF Ask, Answer, Go
  <2>2. PICK to \in {"asking", "send", "gone"} :
          /\ worker' = [worker EXCEPT ![w] = to]
          /\ to = "gone" => worker[w] = "take" /\ unitsCh = <<>>
          /\ to # "gone" => worker[w] \in {"ask", "asking"}
    BY <1>6 DEF Ask, Answer, Go, Step
  <2>3. Held' = Held
    <3>1. to \in States
      BY <2>2 DEF States
    <3>2. /\ to \in {"look", "ask", "asking", "send"} => Held' = Held \cup {w}
          /\ to \notin {"look", "ask", "asking", "send"} => Held' = Held \ {w}
          /\ w \in Held <=> worker[w] \in {"look", "ask", "asking", "send"}
      BY <1>1, <2>2, <3>1, HandMoves
    <3>3. to = "gone" => w \notin Held
      BY <2>2, <3>2
    <3>4. to # "gone" => w \in Held
      BY <2>2, <3>2
    <3>5. QED
      BY <2>2, <3>2, <3>3, <3>4
  <2>4. Undrained' <=> Undrained
    BY <1>1, <2>1 DEF Undrained
  <2>5. OnceInv' /\ PlaceInv'
    BY <1>1, <2>1, <2>3, <2>4, NothingMoves DEF IInv, UnitsInv
  <2>6. EmptyInv'
    BY <1>1, <2>1, <2>2 DEF IInv, PhasesInv, UnitsInv, EmptyInv
  <2>7. QED
    BY <2>1, <2>5, <2>6 DEF IInv, UnitsInv, ResultIsComplete
<1>7. ASSUME NEW w \in DOMAIN UnitList, WorkerStep(w) PROVE UnitsInv'
  BY <1>1, <1>6, <1>7, TakeKeepsUnits, LookKeepsUnits, DeliverKeepsUnits DEF WorkerStep
<1>8. CASE Terminated \/ UNCHANGED vars
  <2>1. vars' = vars
    BY <1>8 DEF Terminated
  <2>2. Held' = Held /\ (Undrained' <=> Undrained)
    BY <1>1, <2>1 DEF vars, Held, Undrained
  <2>3. OnceInv' /\ PlaceInv'
    BY <1>1, <2>1, <2>2, NothingMoves DEF vars, IInv, UnitsInv
  <2>4. EmptyInv' /\ ResultIsComplete'
    BY <1>1, <2>1 DEF vars, IInv, UnitsInv, EmptyInv, ResultIsComplete
  <2>5. QED
    BY <2>3, <2>4 DEF UnitsInv
<1>9. QED
  BY <1>2, <1>3, <1>4, <1>5, <1>7, <1>8 DEF Next, MainStep

\* The invariant holds before the first client is opened.
LEMMA InitInv == Init => IInv
<1> SUFFICES ASSUME Init PROVE IInv
  OBVIOUS
<1>1. PhasesInv
  <2>1. \E k \in 0 .. Size : clients = 1 .. k
    BY SizeIsPositive DEF Init
  <2>2. QED
    BY <2>1 DEF Init, PhasesInv, States
<1>2. LateInv
  <2>1. late = 0 /\ cancelled = FALSE
    BY DEF Init
  <2>2. late + Cardinality(Asking) <= Size /\ late \in Nat
    BY <2>1, AskingIsSmall, SizeIsPositive
  <2>3. cancelled \in BOOLEAN
    BY <2>1, Zenon
  <2>4. QED
    BY <2>1, <2>2, <2>3, Zenon DEF LateInv
<1>3. QED
  BY <1>1, <1>2, InitUnits DEF IInv
-----------------------------------------------------------------------------
\* The invariant of the pool holds in every behaviour.
THEOREM Invariant == Spec => []IInv
<1>1. IInv /\ [Next]_vars => IInv'
  BY PhasesStep, LateStep, UnitsStep DEF IInv
<1>2. QED
  BY <1>1, InitInv, PTL DEF Spec

\* However many units and connections: the channel of the results is closed
\* after its last sender, no connection is closed under a worker that uses it,
\* and none outlives the command.
THEOREM ClosesInOrder == Spec => []ClosedWhenQuiet
<1>1. IInv => ClosedWhenQuiet
  BY DEF IInv, PhasesInv, ClosedWhenQuiet, AllGone, AtRest
<1>2. QED
  BY <1>1, Invariant, PTL

\* Whatever the list of units and the interleaving of the workers, a result
\* that is returned has every unit once, in order.
THEOREM ResultsAreComplete == Spec => []ResultIsComplete
<1>1. IInv => ResultIsComplete
  BY DEF IInv, UnitsInv
<1>2. QED
  BY <1>1, Invariant, PTL

\* After a cancellation no connection begins more than one request.
THEOREM CancellationStops == Spec => []CancelStopsAtNextUnit
<1>1. IInv => CancelStopsAtNextUnit
  BY AskingIsSmall, SizeIsPositive DEF IInv, LateInv, CancelStopsAtNextUnit
<1>2. QED
  BY <1>1, Invariant, PTL
=============================================================================
