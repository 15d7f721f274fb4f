----------------------------- MODULE Discovery ------------------------------
(***************************************************************************)
(* discover: one goroutine walks the subnets and queues every host it has  *)
(* not seen, Parallel workers take hosts from the queue and ask each for a *)
(* register; whoever answers, if only with an exception, is a device.  A   *)
(* worker that sees the cancelled context leaves with the host it took,    *)
(* and the producer then gives up the rest of each subnet.  A /0, which    *)
(* --force-large-scan lets through, is walked for ever.                    *)
(***************************************************************************)
EXTENDS Invocation, Subnets, Functions

CONSTANTS
  SubnetLists,    (* choices of --subnets: sequences of subnets            *)
  DeviceSets,     (* choices of the hosts that answer                      *)
  Parallel,
  Rank            (* the place of each address among the sorted devices    *)

\* The addresses of a list are all IPv4, sorted as numbers, or all IPv6, sorted
\* as texts; no two have one text.
ASSUME DiscoveryAssumption ==
  /\ Parallel \in Nat \ {0}
  /\ \A l \in SubnetLists : l \in Seq(Cidrs)
  /\ Rank \in [Addresses -> Nat]
  /\ \A a, b \in Addresses : Rank[a] = Rank[b] => a = b

VARIABLES
  subnets, answering,
  at,          (* where the producer is: [subnet, host] *)
  seen,
  jobs,        (* the channel *)
  worker,      (* the host each worker asks, or Idle or Left *)
  probes,      (* history: how often each host was asked *)
  raw          (* the devices, as they were found *)

discoveryVars == <<subnets, answering, at, seen, jobs, worker, probes, raw>>
poolVars == <<subnets, answering>>

Workers == 1 .. Parallel
Capacity == Parallel * 4
Idle == -2
Left == -3

(* A faulty form of Unseen: a host two subnets share is queued twice. *)
AlwaysUnseen(host) == host \in Addresses
Unseen(host) == host \notin seen

(* A faulty form of Drained: the producer does not close the channel. *)
NeverDrained == FALSE
-----------------------------------------------------------------------------
\* The first host of a subnet, or nothing after the last subnet.
StartOf(i) == [subnet |-> i, host |-> IF i <= Len(subnets) THEN FirstHost(subnets[i]) ELSE NoHost]

InitDiscovery ==
  /\ subnets \in IF command = "discover" THEN SubnetLists ELSE {<<>>}
  /\ answering \in IF command = "discover" THEN DeviceSets ELSE {{}}
  /\ at = StartOf(1) /\ seen = {} /\ jobs = <<>>
  /\ worker = [w \in Workers |-> Idle]
  /\ probes = [a \in Addresses |-> 0] /\ raw = <<>>

Discovering == Collecting({"discover"})
Closed == at.subnet > Len(subnets)
Drained == jobs = <<>> /\ Closed

Advanced ==
  LET next == NextHost(subnets[at.subnet], at.host)
  IN  IF next = NoHost THEN StartOf(at.subnet + 1) ELSE [at EXCEPT !.host = next]

\* The walk of one host.  The select picks either case when both are ready.
Produce ==
  /\ Discovering /\ ~Closed
  /\ seen' = seen \cup {at.host}
  /\ \/ ~Unseen(at.host) /\ at' = Advanced /\ UNCHANGED jobs
     \/ Unseen(at.host) /\ Len(jobs) < Capacity /\ jobs' = Append(jobs, at.host) /\ at' = Advanced
     \/ Unseen(at.host) /\ cancelled /\ at' = StartOf(at.subnet + 1) /\ UNCHANGED jobs
  /\ UNCHANGED <<invocationVars, poolVars, worker, probes, raw>>

TakeJob(w) ==
  /\ Discovering /\ worker[w] = Idle
  /\ \/ /\ jobs # <<>>
        /\ jobs' = Tail(jobs)
        /\ worker' = [worker EXCEPT ![w] = IF cancelled THEN Left ELSE Head(jobs)]
     \/ /\ Drained
        /\ worker' = [worker EXCEPT ![w] = Left] /\ UNCHANGED jobs
  /\ UNCHANGED <<invocationVars, poolVars, at, seen, probes, raw>>

\* A read that the signal cuts short is no answer.
ProbeHost(w) ==
  /\ Discovering /\ worker[w] \in Addresses
  /\ probes' = [probes EXCEPT ![worker[w]] = @ + 1]
  /\ worker' = [worker EXCEPT ![w] = Idle]
  /\ \/ worker[w] \in answering /\ raw' = Append(raw, worker[w])
     \/ (worker[w] \notin answering \/ cancelled) /\ UNCHANGED raw
  /\ UNCHANGED <<invocationVars, poolVars, at, seen, jobs>>

\* sort.Slice rearranges the devices in the order of their addresses or texts.
Rearranged(found) == {[i \in DOMAIN found |-> found[p[i]]] : p \in Bijection(DOMAIN found, DOMAIN found)}
Sorted(found) == {s \in Rearranged(found) : \A i, j \in DOMAIN s : i < j => Rank[s[i]] <= Rank[s[j]]}

\* wg.Wait, the sort, and the file of --output, which may not be writable.
EndDiscovery ==
  /\ Discovering /\ \A w \in Workers : worker[w] = Left
  /\ \E err \in {NoError, Output(Plain("other"))} : Collected(err, FALSE)
  /\ raw' \in Sorted(raw)
  /\ UNCHANGED <<requests, missed, poolVars, at, seen, jobs, worker, probes>>

Discover == Produce \/ (\E w \in Workers : TakeJob(w) \/ ProbeHost(w)) \/ EndDiscovery
=============================================================================
