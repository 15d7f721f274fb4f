------------------------------- MODULE Replay -------------------------------
(***************************************************************************)
(* The data core of a virtual device: what a capture answers as of a       *)
(* replay time, and the mapping of elapsed time to replay time.  A device  *)
(* keeps only the points where a value changes.                            *)
(*                                                                         *)
(* A sample is a record with the time at it was taken, its target, its     *)
(* function fc, whether it is an exception response, and                   *)
(*   for FC01-04: the first address and the values,                        *)
(*   for FC43:    the conformity level and the objects of one page,        *)
(*   otherwise:   the request req and the response resp.                   *)
(* Samples are in the order of the file, which may differ from their times.*)
(***************************************************************************)
EXTENDS Integers, SequencesExt

CONSTANTS
  AddrMax,      (* last address                                            *)
  Objects,      (* objects of the device identification                    *)
  Requests,     (* requests of the functions kept per request              *)
  Unrecorded    (* no value                                                *)

ASSUME ReplayAssumption == AddrMax \in Nat

Tables == 1 .. 4          (* FC01-04, kept per address *)
Identity == 43            (* FC43/14, kept per object  *)

(* Faulty forms of the definitions below: the faults the properties catch. *)
ChangedEver(pts, at, v) == \A i \in DOMAIN pts : pts[i].v # v
FileOrder(samples, i, j) == i < j
PlayForEver(clock, elapsed) == FALSE
-----------------------------------------------------------------------------
(* Building a device.                                                      *)

\* appendPoint, and its copies for responses, conformity and objects: a value
\* that did not change is dropped, the earlier point already holds.
Changed(pts, at, v) == pts = <<>> \/ Last(pts).v # v
AppendPoint(pts, at, v) ==
  IF Changed(pts, at, v) THEN Append(pts, [at |-> at, v |-> v]) ELSE pts

NoDevice ==
  [ addrs |-> [fc \in Tables |-> [a \in 0 .. AddrMax |-> <<>>]],
    reqs |-> [r \in Requests |-> <<>>],
    objs |-> [o \in Objects |-> <<>>],
    conf |-> <<>> ]

\* Device.add and addIdentity.
AddSample(d, s) ==
  IF s.fc \in Tables
  THEN [d EXCEPT !.addrs[s.fc] =
          [a \in 0 .. AddrMax |->
             IF a \in s.start .. s.start + Len(s.values) - 1
             THEN AppendPoint(d.addrs[s.fc][a], s.at, s.values[a - s.start + 1])
             ELSE d.addrs[s.fc][a]]]
  ELSE IF s.fc = Identity
  THEN [d EXCEPT !.conf = AppendPoint(d.conf, s.at, s.conf),
                 !.objs = [o \in Objects |->
                             IF o \in DOMAIN s.objects
                             THEN AppendPoint(d.objs[o], s.at, s.objects[o])
                             ELSE d.objs[o]]]
  ELSE [d EXCEPT !.reqs[s.req] = AppendPoint(d.reqs[s.req], s.at, s.resp)]

\* The stable sort by time.
TimeOrder(samples, i, j) ==
  samples[i].at < samples[j].at \/ (samples[i].at = samples[j].at /\ i < j)

Hosted(samples, target) ==
  {i \in DOMAIN samples : samples[i].target = target /\ ~samples[i].exception}

\* The latest and the earliest of some samples.
Latest(samples, S) == CHOOSE i \in S : \A j \in S \ {i} : TimeOrder(samples, j, i)
Earliest(samples, S) == CHOOSE i \in S : \A j \in S \ {i} : TimeOrder(samples, i, j)

\* The hosted samples are added in order, so the latest of them last.
Build(samples, target) ==
  LET built[S \in SUBSET Hosted(samples, target)] ==
        IF S = {} THEN NoDevice
        ELSE AddSample(built[S \ {Latest(samples, S)}], samples[Latest(samples, S)])
  IN  built[Hosted(samples, target)]
-----------------------------------------------------------------------------
(* Answering as of a time.  before is "hold" or "absent", --before-first.  *)

Later(pts, t) == {i \in DOMAIN pts : pts[i].at > t}

\* index: the entry before the first later one, 0 when there is none.
Index(pts, t, before) ==
  LET i == IF Later(pts, t) = {} THEN Len(pts) ELSE Min(Later(pts, t)) - 1
  IN IF i = 0 /\ pts # <<>> /\ before = "hold" THEN 1 ELSE i

ValueAt(pts, t, before) ==
  LET i == Index(pts, t, before) IN IF i = 0 THEN Unrecorded ELSE pts[i].v

\* Lookup: every address on its own.
Lookup(d, fc, start, qty, t, before) ==
  [i \in 1 .. qty |-> ValueAt(d.addrs[fc][start + i - 1], t, before)]

HasFunction(d, fc) ==
  CASE fc \in Tables -> \E a \in 0 .. AddrMax : d.addrs[fc][a] # <<>>
    [] fc = Identity -> \E o \in Objects : d.objs[o] # <<>>
    [] OTHER -> \E r \in Requests : r.fc = fc /\ d.reqs[r] # <<>>

Identification(d, t, before) ==
  LET known == {o \in Objects : ValueAt(d.objs[o], t, before) # Unrecorded}
  IN [ok |-> known # {},
      conf |-> ValueAt(d.conf, t, before),
      objects |-> [o \in known |-> ValueAt(d.objs[o], t, before)]]
-----------------------------------------------------------------------------
\* Clock.At: the position in the window [from, to) after the elapsed time, at
\* speed num / den ticks per unit of time; after loops rounds (0: for ever) the
\* time stays at the end of the window.  A position is a fraction of den.
Played(clock, elapsed) == elapsed * clock.num
Span(clock) == (clock.to - clock.from) * clock.den
RoundsOver(clock, elapsed) ==
  clock.loops > 0 /\ Played(clock, elapsed) >= clock.loops * Span(clock)

ClockAt(clock, elapsed) ==
  IF elapsed = 0 THEN clock.from
  ELSE IF clock.to <= clock.from \/ RoundsOver(clock, elapsed) THEN clock.to
  ELSE clock.from + (Played(clock, elapsed) % Span(clock)) \div clock.den
=============================================================================
