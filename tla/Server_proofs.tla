--------------------------- MODULE Server_proofs ---------------------------
(***************************************************************************)
(* Proofs about serving a capture, for any capture, any number of clients  *)
(* and any requests: an answer is the sample-and-hold of the capture at    *)
(* one instant, the replay time keeps its pace, and the summary of a run   *)
(* accounts for all requests.                                              *)
(***************************************************************************)
EXTENDS Server, FiniteSetTheorems, WellFoundedInduction, TLAPS

\* A set of natural numbers has a least element.
LEMMA LeastElement ==
  ASSUME NEW S, S \subseteq Nat, S # {}
  PROVE  \E n \in S : \A m \in S : n <= m
<1>1. PICK n \in S : \A m \in S : <<m, n>> \notin OpToRel(<, Nat)
  BY NatLessThanWellFounded, WFMin
<1>2. \A m \in S : ~(m < n)
  BY <1>1 DEF OpToRel
<1>3. QED
  BY <1>2

\* Induction over the natural numbers, for a set.
LEMMA SetInduction ==
  ASSUME NEW T, 0 \in T, \A n \in Nat : n \in T => n + 1 \in T
  PROVE  Nat \subseteq T
<1> SUFFICES ASSUME Nat \ T # {} PROVE FALSE
  OBVIOUS
<1>1. PICK n \in Nat \ T : \A m \in Nat \ T : n <= m
  <2>1. Nat \ T \subseteq Nat
    OBVIOUS
  <2>2. QED
    BY <2>1, LeastElement
<1>2. n # 0 /\ n - 1 \in Nat
  BY <1>1
<1>3. n - 1 \in T
  BY <1>1, <1>2
<1>4. (n - 1) + 1 \in T
  BY <1>2, <1>3
<1>5. QED
  BY <1>1, <1>2, <1>4
-----------------------------------------------------------------------------
(* The order of the samples.                                               *)

\* Samples are numbered, and have times.
Timed(samples, S) == \A i \in S : i \in Int /\ samples[i].at \in Int

IsLatest(samples, S, i) == i \in S /\ \A j \in S \ {i} : TimeOrder(samples, j, i)
IsEarliest(samples, S, i) == i \in S /\ \A j \in S \ {i} : TimeOrder(samples, i, j)

\* There is one latest sample at most.
LEMMA LatestIs ==
  ASSUME NEW samples, NEW S, Timed(samples, S), NEW i, IsLatest(samples, S, i)
  PROVE  Latest(samples, S) = i
<1>1. \A k \in S : (\A j \in S \ {k} : TimeOrder(samples, j, k)) => k = i
  BY DEF Timed, IsLatest, TimeOrder
<1>2. QED
  BY <1>1, Zenon DEF Latest, IsLatest

\* And one earliest.
LEMMA EarliestIs ==
  ASSUME NEW samples, NEW S, Timed(samples, S), NEW i, IsEarliest(samples, S, i)
  PROVE  Earliest(samples, S) = i
<1>1. \A k \in S : (\A j \in S \ {k} : TimeOrder(samples, k, j)) => k = i
  BY DEF Timed, IsEarliest, TimeOrder
<1>2. QED
  BY <1>1, Zenon DEF Earliest, IsEarliest

\* Some samples have a latest one.
LEMMA LatestExists ==
  ASSUME NEW samples, NEW m \in Nat, NEW S, S \subseteq 1 .. m, S # {}, Timed(samples, S)
  PROVE  \E i \in S : IsLatest(samples, S, i)
<1> DEFINE T == {n \in Nat : S \cap 1 .. n # {} => \E i \in S : IsLatest(samples, S \cap 1 .. n, i)}
<1>1. 0 \in T
  OBVIOUS
<1>2. ASSUME NEW n \in Nat, n \in T PROVE n + 1 \in T
  <2> DEFINE before == S \cap 1 .. n
             all == S \cap 1 .. n + 1
  <2>1. CASE n + 1 \notin S
    <3>1. all = before
      BY <2>1
    <3>2. QED
      BY <1>2, <3>1
  <2>2. CASE n + 1 \in S /\ before = {}
    <3>1. all = {n + 1}
      BY <2>2
    <3>2. IsLatest(samples, all, n + 1)
      BY <3>1 DEF IsLatest
    <3>3. QED
      BY <2>2, <3>2
  <2>3. CASE n + 1 \in S /\ before # {}
    <3>1. all = before \cup {n + 1} /\ before \subseteq S /\ n + 1 \notin before
      BY <2>3
    <3>2. PICK i \in S : IsLatest(samples, before, i)
      BY <1>2, <2>3
    <3> HIDE DEF before, all
    <3>3. CASE TimeOrder(samples, i, n + 1)
      <4>1. IsLatest(samples, all, n + 1)
        BY <2>3, <3>1, <3>2, <3>3 DEF IsLatest, Timed, TimeOrder
      <4>2. QED
        BY <2>3, <4>1 DEF all
    <3>4. CASE ~TimeOrder(samples, i, n + 1)
      <4>1. TimeOrder(samples, n + 1, i)
        BY <2>3, <3>1, <3>2, <3>4 DEF IsLatest, Timed, TimeOrder
      <4>2. IsLatest(samples, all, i)
        BY <3>1, <3>2, <4>1 DEF IsLatest
      <4>3. QED
        BY <4>2 DEF all
    <3>5. QED
      BY <3>3, <3>4
  <2>4. QED
    BY <2>1, <2>2, <2>3
<1>3. m \in T
  <2> HIDE DEF T
  <2>1. QED
    BY <1>1, <1>2, SetInduction
<1>4. S \cap 1 .. m = S
  OBVIOUS
<1>5. QED
  BY <1>3, <1>4
-----------------------------------------------------------------------------
(* The points of a value.                                                  *)

Upto(samples, S, t) == {i \in S : samples[i].at <= t}
PointsOf(val) == [at : Int, v : {val[i] : i \in DOMAIN val}]

\* The points are those up to a time and those after it, and the last of the
\* former has the value of the latest sample up to then.
HoldsAt(samples, pts, S, val, t) ==
  \E n \in 0 .. Len(pts) :
    /\ \A k \in 1 .. n : pts[k].at <= t
    /\ \A k \in n + 1 .. Len(pts) : pts[k].at > t
    /\ n = 0 => Upto(samples, S, t) = {}
    /\ n > 0 => \E i : IsLatest(samples, Upto(samples, S, t), i) /\ pts[n].v = val[i]

\* The points keep, at every time, the value of the latest of the samples S;
\* the first of them that of the earliest sample.
Tracks(samples, pts, S, val) ==
  /\ pts \in Seq(PointsOf(val))
  /\ S = {} => pts = <<>>
  /\ S # {} => pts # <<>> /\ \E i : IsEarliest(samples, S, i) /\ pts[1].v = val[i]
  /\ \A k \in 1 .. Len(pts) : \E i \in S : pts[k].at = samples[i].at
  /\ \A t \in Int : HoldsAt(samples, pts, S, val, t)

\* No samples, no points.
LEMMA NothingTracked ==
  ASSUME NEW samples, NEW val
  PROVE  Tracks(samples, <<>>, {}, val)
<1>1. \A t \in Int : HoldsAt(samples, <<>>, {}, val, t)
  BY DEF HoldsAt, Upto
<1>2. QED
  BY <1>1 DEF Tracks

\* Points are times and values.
LEMMA TrackedPoints ==
  ASSUME NEW samples, NEW S, NEW val, NEW pts, Tracks(samples, pts, S, val)
  PROVE  /\ pts \in Seq(PointsOf(val)) /\ Len(pts) \in Nat /\ DOMAIN pts = 1 .. Len(pts)
         /\ \A k \in 1 .. Len(pts) : pts[k].at \in Int
<1>1. pts \in Seq(PointsOf(val))
  BY DEF Tracks
<1>2. /\ Len(pts) \in Nat /\ DOMAIN pts = 1 .. Len(pts)
      /\ \A k \in 1 .. Len(pts) : pts[k] \in PointsOf(val)
  BY <1>1
<1>3. \A p \in PointsOf(val) : p.at \in Int
  BY DEF PointsOf
<1>4. QED
  BY <1>1, <1>2, <1>3

\* The next sample: its value becomes a point, unless it is the last one's.
LEMMA NextSampleTracked ==
  ASSUME NEW samples, NEW S, NEW i, i \notin S, Timed(samples, S \cup {i}),
         \A j \in S : TimeOrder(samples, j, i),
         NEW val, S \cup {i} \subseteq DOMAIN val,
         NEW pts, Tracks(samples, pts, S, val)
  PROVE  Tracks(samples, AppendPoint(pts, samples[i].at, val[i]), S \cup {i}, val)
<1> DEFINE all == S \cup {i}
           point == [at |-> samples[i].at, v |-> val[i]]
           new == AppendPoint(pts, samples[i].at, val[i])
           P == PointsOf(val)
<1>1. /\ pts \in Seq(P) /\ Len(pts) \in Nat
      /\ \A k \in 1 .. Len(pts) : pts[k].at \in Int
  BY TrackedPoints
<1>2. point \in P /\ samples[i].at \in Int /\ i \in Int
  BY DEF PointsOf, Timed
<1>3. \A j \in S : samples[j].at \in Int /\ samples[j].at <= samples[i].at
  BY DEF Timed, TimeOrder
<1>4. \A k \in 1 .. Len(pts) : pts[k].at <= samples[i].at
  BY <1>1, <1>3 DEF Tracks
\* Up to a time before the new sample nothing changes, from then on it is the latest.
<1>5. ASSUME NEW t \in Int
      PROVE  IF samples[i].at <= t THEN IsLatest(samples, Upto(samples, all, t), i)
             ELSE Upto(samples, all, t) = Upto(samples, S, t)
  BY <1>2 DEF Upto, IsLatest
<1>6. \E j : /\ IsEarliest(samples, all, j)
             /\ S # {} => IsEarliest(samples, S, j) /\ pts[1].v = val[j]
             /\ S = {} => j = i
  <2>1. CASE S = {}
    BY <2>1 DEF IsEarliest
  <2>2. CASE S # {}
    <3>1. PICK j : IsEarliest(samples, S, j) /\ pts[1].v = val[j]
      BY <2>2 DEF Tracks
    <3>2. IsEarliest(samples, all, j)
      BY <3>1 DEF IsEarliest
    <3>3. QED
      BY <2>2, <3>1, <3>2
  <2>3. QED
    BY <2>1, <2>2
<1>7. CASE ~Changed(pts, samples[i].at, val[i])
  <2>1. new = pts /\ pts # <<>> /\ pts[Len(pts)].v = val[i] /\ Len(pts) >= 1
    BY <1>1, <1>7 DEF AppendPoint, Changed, Last
  <2>2. S # {}
    BY <2>1 DEF Tracks
  <2>3. ASSUME NEW t \in Int PROVE HoldsAt(samples, pts, all, val, t)
    <3>1. CASE samples[i].at <= t
      <4>1. IsLatest(samples, Upto(samples, all, t), i)
        BY <1>5, <3>1
      <4>2. \A k \in 1 .. Len(pts) : pts[k].at <= t
        BY <1>1, <1>2, <1>4, <3>1
      <4>3. /\ Len(pts) \in 0 .. Len(pts) /\ Len(pts) # 0
            /\ \A k \in Len(pts) + 1 .. Len(pts) : pts[k].at > t
        BY <1>1, <2>1
      <4> HIDE DEF all
      <4>4. QED
        BY <2>1, <4>1, <4>2, <4>3, Zenon DEF HoldsAt
    <3>2. CASE ~(samples[i].at <= t)
      <4>1. Upto(samples, all, t) = Upto(samples, S, t)
        BY <1>5, <3>2
      <4>2. HoldsAt(samples, pts, S, val, t)
        BY DEF Tracks
      <4>3. QED
        BY <4>1, <4>2, Zenon DEF HoldsAt
    <3>3. QED
      BY <3>1, <3>2
  <2>4. \E j : IsEarliest(samples, all, j) /\ pts[1].v = val[j]
    BY <1>6, <2>2
  <2>5. \A k \in 1 .. Len(pts) : \E j \in all : pts[k].at = samples[j].at
    BY DEF Tracks
  <2>6. QED
    BY <1>1, <2>1, <2>3, <2>4, <2>5 DEF Tracks
<1>8. CASE Changed(pts, samples[i].at, val[i])
  <2>1. new = Append(pts, point)
    BY <1>8 DEF AppendPoint
  <2>2. /\ new \in Seq(P) /\ Len(new) = Len(pts) + 1 /\ new # <<>>
        /\ new[Len(pts) + 1] = point
        /\ \A k \in 1 .. Len(pts) : new[k] = pts[k]
    <3> HIDE DEF point, P, new
    <3>1. QED
      BY <1>1, <1>2, <2>1
  <2>3. ASSUME NEW t \in Int PROVE HoldsAt(samples, new, all, val, t)
    <3>1. CASE samples[i].at <= t
      <4>1. IsLatest(samples, Upto(samples, all, t), i)
        BY <1>5, <3>1
      <4>2. \A k \in 1 .. Len(new) : new[k].at <= t
        BY <1>1, <1>2, <1>4, <2>2, <3>1
      <4>3. new[Len(new)].v = val[i] /\ Len(new) # 0 /\ Len(new) \in 0 .. Len(new)
        BY <1>1, <2>2
      <4>4. \A k \in Len(new) + 1 .. Len(new) : new[k].at > t
        BY <1>1, <2>2
      <4> HIDE DEF new, all
      <4>5. QED
        BY <4>1, <4>2, <4>3, <4>4, Zenon DEF HoldsAt
    <3>2. CASE ~(samples[i].at <= t)
      <4>1. Upto(samples, all, t) = Upto(samples, S, t)
        BY <1>5, <3>2
      <4>2. HoldsAt(samples, pts, S, val, t)
        BY DEF Tracks
      <4>3. PICK n \in 0 .. Len(pts) :
              /\ \A k \in 1 .. n : pts[k].at <= t
              /\ \A k \in n + 1 .. Len(pts) : pts[k].at > t
              /\ n = 0 => Upto(samples, S, t) = {}
              /\ n > 0 => \E j : IsLatest(samples, Upto(samples, S, t), j) /\ pts[n].v = val[j]
        BY <4>2, Zenon DEF HoldsAt
      <4> HIDE DEF new
      <4>4. n \in 0 .. Len(new) /\ \A k \in 1 .. n : new[k].at <= t
        BY <1>1, <2>2, <4>3
      <4>5. \A k \in n + 1 .. Len(new) : new[k].at > t
        BY <1>1, <1>2, <2>2, <3>2, <4>3
      <4>6. n > 0 => new[n] = pts[n]
        BY <1>1, <2>2, <4>3
      <4>7. n > 0 => \E j : IsLatest(samples, Upto(samples, all, t), j) /\ new[n].v = val[j]
        BY <4>1, <4>3, <4>6, Zenon
      <4>8. n = 0 => Upto(samples, all, t) = {}
        BY <4>1, <4>3, Zenon
      <4>9. QED
        BY <4>4, <4>5, <4>7, <4>8, Zenon DEF HoldsAt
    <3>3. QED
      BY <3>1, <3>2
  <2>4. \E j : IsEarliest(samples, all, j) /\ new[1].v = val[j]
    <3>1. CASE S = {}
      <4>1. Len(pts) = 0 /\ new[1] = point
        BY <1>1, <2>2, <3>1 DEF Tracks
      <4>2. QED
        BY <1>6, <3>1, <4>1
    <3>2. CASE S # {}
      <4>1. new[1] = pts[1]
        BY <1>1, <2>2, <3>2 DEF Tracks
      <4>2. QED
        BY <1>6, <3>2, <4>1
    <3>3. QED
      BY <3>1, <3>2
  <2>5. \A k \in 1 .. Len(new) : \E j \in all : new[k].at = samples[j].at
    <3>1. \A k \in 1 .. Len(pts) : \E j \in all : new[k].at = samples[j].at
      BY <2>2 DEF Tracks
    <3>2. new[Len(pts) + 1].at = samples[i].at /\ i \in all
      BY <2>2
    <3>3. QED
      BY <1>1, <2>2, <3>1, <3>2
  <2>6. QED
    BY <2>2, <2>3, <2>4, <2>5 DEF Tracks
<1>9. QED
  BY <1>7, <1>8

\* What is held at a time, of the samples of a value.
HeldOf(samples, S, val, t, before) ==
  IF Upto(samples, S, t) # {} THEN val[Latest(samples, Upto(samples, S, t))]
  ELSE IF S # {} /\ before = "hold" THEN val[Earliest(samples, S)]
  ELSE Unrecorded

\* The search for the point before the first later one finds what is held.
LEMMA ValueIsHeld ==
  ASSUME NEW samples, NEW S, Timed(samples, S), NEW val, NEW pts, Tracks(samples, pts, S, val),
         NEW t \in Int, NEW before
  PROVE  ValueAt(pts, t, before) = HeldOf(samples, S, val, t, before)
<1>1. /\ pts \in Seq(PointsOf(val)) /\ Len(pts) \in Nat
      /\ \A k \in 1 .. Len(pts) : pts[k].at \in Int
      /\ DOMAIN pts = 1 .. Len(pts)
  BY TrackedPoints
<1>2. HoldsAt(samples, pts, S, val, t)
  BY DEF Tracks
<1>3. PICK n \in 0 .. Len(pts) :
        /\ \A k \in 1 .. n : pts[k].at <= t
        /\ \A k \in n + 1 .. Len(pts) : pts[k].at > t
        /\ n = 0 => Upto(samples, S, t) = {}
        /\ n > 0 => \E j : IsLatest(samples, Upto(samples, S, t), j) /\ pts[n].v = val[j]
  BY <1>2, Zenon DEF HoldsAt
<1>4. Later(pts, t) = n + 1 .. Len(pts)
  BY <1>1, <1>3 DEF Later
<1>5. (IF Later(pts, t) = {} THEN Len(pts) ELSE Min(Later(pts, t)) - 1) = n
  <2>1. CASE n = Len(pts)
    <3>1. n + 1 .. Len(pts) = {}
      BY <1>1, <2>1
    <3>2. QED
      BY <1>4, <2>1, <3>1
  <2>2. CASE n < Len(pts)
    <3>1. n + 1 \in Later(pts, t) /\ \A k \in Later(pts, t) : k \in Int /\ n + 1 <= k
      BY <1>1, <1>3, <1>4, <2>2
    <3>2. Min(Later(pts, t)) = n + 1
      BY <3>1 DEF Min
    <3>3. Later(pts, t) # {} /\ n \in Int
      BY <3>1
    <3>4. QED
      BY <3>2, <3>3
  <2>3. n = Len(pts) \/ n < Len(pts)
    <3>1. Len(pts) \in Nat /\ n \in 0 .. Len(pts)
      BY <1>1, <1>3
    <3> HIDE <1>1, <1>3
    <3>2. QED
      BY <3>1
  <2>4. QED
    BY <2>1, <2>2, <2>3
<1>6. Index(pts, t, before) = IF n = 0 /\ pts # <<>> /\ before = "hold" THEN 1 ELSE n
  BY <1>5, Zenon DEF Index
<1>7. Timed(samples, Upto(samples, S, t))
  BY DEF Timed, Upto
<1>8. CASE n > 0
  <2>1. PICK j : IsLatest(samples, Upto(samples, S, t), j) /\ pts[n].v = val[j]
    BY <1>3, <1>8
  <2>2. Latest(samples, Upto(samples, S, t)) = j /\ Upto(samples, S, t) # {}
    BY <1>7, <2>1, LatestIs DEF IsLatest
  <2>3. Index(pts, t, before) = n /\ n # 0
    BY <1>6, <1>8
  <2>4. QED
    BY <2>1, <2>2, <2>3, Zenon DEF ValueAt, HeldOf
<1>9. CASE n = 0 /\ S # {} /\ before = "hold"
  <2>1. PICK j : IsEarliest(samples, S, j) /\ pts[1].v = val[j]
    BY <1>9 DEF Tracks
  <2>2. Earliest(samples, S) = j /\ pts # <<>>
    BY <1>9, <2>1, EarliestIs DEF Tracks
  <2>3. Index(pts, t, before) = 1 /\ 1 # 0
    BY <1>6, <1>9, <2>2
  <2>4. QED
    BY <1>3, <1>9, <2>1, <2>2, <2>3, Zenon DEF ValueAt, HeldOf
<1>10. CASE n = 0 /\ ~(S # {} /\ before = "hold")
  <2>1. Index(pts, t, before) = 0
    BY <1>6, <1>10 DEF Tracks
  <2>2. QED
    BY <1>3, <1>10, <2>1, Zenon DEF ValueAt, HeldOf
<1>11. QED
  BY <1>3, <1>8, <1>9, <1>10
-----------------------------------------------------------------------------
(* The device of a capture.                                                *)

\* The samples of an address, an object and a request, and their values.
AddressSamples(samples, H, fc, a) ==
  {i \in H : /\ samples[i].fc = fc
             /\ a \in samples[i].start .. samples[i].start + Len(samples[i].values) - 1}
AddressValues(samples, H, fc, a) ==
  [i \in AddressSamples(samples, H, fc, a) |-> samples[i].values[a - samples[i].start + 1]]
ObjectSamples(samples, H, o) == {i \in H : samples[i].fc = Identity /\ o \in DOMAIN samples[i].objects}
ObjectValues(samples, H, o) == [i \in ObjectSamples(samples, H, o) |-> samples[i].objects[o]]
RequestSamples(samples, H, r) ==
  {i \in H : samples[i].fc \notin Tables \cup {Identity} /\ samples[i].req = r}
RequestValues(samples, H, r) == [i \in RequestSamples(samples, H, r) |-> samples[i].resp]

\* A device tracks, for each of them, those among the samples S of H.
DeviceTracks(samples, H, d, S) ==
  /\ DOMAIN d = {"addrs", "reqs", "objs", "conf"}
  /\ DOMAIN d.addrs = Tables /\ DOMAIN d.reqs = Requests
  /\ \A fc \in Tables, a \in 0 .. AddrMax :
       Tracks(samples, d.addrs[fc][a],
              S \cap AddressSamples(samples, H, fc, a), AddressValues(samples, H, fc, a))
  /\ \A o \in Objects :
       Tracks(samples, d.objs[o], S \cap ObjectSamples(samples, H, o), ObjectValues(samples, H, o))
  /\ \A r \in Requests :
       Tracks(samples, d.reqs[r], S \cap RequestSamples(samples, H, r), RequestValues(samples, H, r))

\* A sample that is the latest becomes part of what is tracked, if it belongs there.
LEMMA SampleTracked ==
  ASSUME NEW samples, NEW S, NEW i, i \notin S, Timed(samples, S \cup {i}),
         \A j \in S : TimeOrder(samples, j, i),
         NEW Own, NEW val, DOMAIN val = Own,
         NEW pts, Tracks(samples, pts, S \cap Own, val),
         NEW new, new = IF i \in Own THEN AppendPoint(pts, samples[i].at, val[i]) ELSE pts
  PROVE  Tracks(samples, new, (S \cup {i}) \cap Own, val)
<1>1. CASE i \in Own
  <2>1. (S \cup {i}) \cap Own = (S \cap Own) \cup {i}
    BY <1>1
  <2>2. /\ i \notin S \cap Own /\ Timed(samples, (S \cap Own) \cup {i})
        /\ \A j \in S \cap Own : TimeOrder(samples, j, i)
        /\ (S \cap Own) \cup {i} \subseteq DOMAIN val
    BY <1>1 DEF Timed
  <2>3. Tracks(samples, AppendPoint(pts, samples[i].at, val[i]), (S \cap Own) \cup {i}, val)
    BY <2>2, NextSampleTracked
  <2>4. QED
    BY <1>1, <2>1, <2>3, Zenon
<1>2. CASE i \notin Own
  <2>1. (S \cup {i}) \cap Own = S \cap Own
    BY <1>2
  <2>2. QED
    BY <1>2, <2>1, Zenon
<1>3. QED
  BY <1>1, <1>2

\* A device with the latest sample added.
LEMMA AddSampleTracks ==
  ASSUME NEW samples, NEW H, NEW S, NEW i \in H, i \notin S, S \subseteq H, Timed(samples, H),
         \A j \in S : TimeOrder(samples, j, i),
         NEW d, DeviceTracks(samples, H, d, S), SampleTyped(samples[i])
  PROVE  DeviceTracks(samples, H, AddSample(d, samples[i]), S \cup {i})
<1> DEFINE s == samples[i]
           new == AddSample(d, s)
<1>1. i \notin S /\ Timed(samples, S \cup {i}) /\ \A j \in S : TimeOrder(samples, j, i)
  BY DEF Timed
<1>2. Identity \notin Tables
  BY DEF Identity, Tables
\* Each kind of sample changes the points of its own kind only.
<1>3. /\ DOMAIN new = {"addrs", "reqs", "objs", "conf"}
      /\ DOMAIN new.addrs = Tables /\ DOMAIN new.reqs = Requests
      /\ \A fc \in Tables, a \in 0 .. AddrMax :
           new.addrs[fc][a] = IF i \in AddressSamples(samples, H, fc, a)
                              THEN AppendPoint(d.addrs[fc][a], s.at, AddressValues(samples, H, fc, a)[i])
                              ELSE d.addrs[fc][a]
      /\ \A o \in Objects :
           new.objs[o] = IF i \in ObjectSamples(samples, H, o)
                         THEN AppendPoint(d.objs[o], s.at, ObjectValues(samples, H, o)[i])
                         ELSE d.objs[o]
      /\ \A r \in Requests :
           new.reqs[r] = IF i \in RequestSamples(samples, H, r)
                         THEN AppendPoint(d.reqs[r], s.at, RequestValues(samples, H, r)[i])
                         ELSE d.reqs[r]
  <2> USE DEF DeviceTracks
  <2>1. CASE s.fc \in Tables
    <3> DEFINE row == [a \in 0 .. AddrMax |->
                         IF a \in s.start .. s.start + Len(s.values) - 1
                         THEN AppendPoint(d.addrs[s.fc][a], s.at, s.values[a - s.start + 1])
                         ELSE d.addrs[s.fc][a]]
    <3>1. new = [d EXCEPT !.addrs[s.fc] = row]
      BY <2>1, Zenon DEF AddSample
    <3>2. \A a \in 0 .. AddrMax :
            row[a] = IF i \in AddressSamples(samples, H, s.fc, a)
                     THEN AppendPoint(d.addrs[s.fc][a], s.at, AddressValues(samples, H, s.fc, a)[i])
                     ELSE d.addrs[s.fc][a]
      BY DEF AddressSamples, AddressValues
    <3> HIDE DEF row, new
    <3>3. /\ DOMAIN new = DOMAIN d /\ new.reqs = d.reqs /\ new.objs = d.objs
          /\ DOMAIN new.addrs = Tables /\ new.addrs[s.fc] = row
          /\ \A fc \in Tables : fc # s.fc => new.addrs[fc] = d.addrs[fc]
      BY <2>1, <3>1
    <3>4. /\ \A fc \in Tables, a \in 0 .. AddrMax :
               fc # s.fc => i \notin AddressSamples(samples, H, fc, a)
          /\ \A o : i \notin ObjectSamples(samples, H, o)
          /\ \A r : i \notin RequestSamples(samples, H, r)
      BY <1>2, <2>1 DEF AddressSamples, ObjectSamples, RequestSamples
    <3>5. QED
      BY <2>1, <3>2, <3>3, <3>4, Zenon
  <2>2. CASE s.fc = Identity
    <3> DEFINE merged == [o \in Objects |-> IF o \in DOMAIN s.objects
                                           THEN AppendPoint(d.objs[o], s.at, s.objects[o])
                                           ELSE d.objs[o]]
    <3>1. new = [d EXCEPT !.conf = AppendPoint(d.conf, s.at, s.conf), !.objs = merged]
      BY <1>2, <2>2, Zenon DEF AddSample
    <3>2. \A o \in Objects :
            merged[o] = IF i \in ObjectSamples(samples, H, o)
                        THEN AppendPoint(d.objs[o], s.at, ObjectValues(samples, H, o)[i])
                        ELSE d.objs[o]
      BY <2>2 DEF ObjectSamples, ObjectValues
    <3> HIDE DEF merged, new
    <3>3. DOMAIN new = DOMAIN d /\ new.reqs = d.reqs /\ new.objs = merged /\ new.addrs = d.addrs
      BY <3>1
    <3>4. /\ \A fc \in Tables, a \in 0 .. AddrMax : i \notin AddressSamples(samples, H, fc, a)
          /\ \A r : i \notin RequestSamples(samples, H, r)
      BY <1>2, <2>2 DEF AddressSamples, RequestSamples
    <3>5. QED
      BY <3>2, <3>3, <3>4, Zenon
  <2>3. CASE s.fc \notin Tables \cup {Identity}
    <3>1. new = [d EXCEPT !.reqs[s.req] = AppendPoint(d.reqs[s.req], s.at, s.resp)]
      BY <2>3, Zenon DEF AddSample
    <3>2. s.req \in Requests
      BY <2>3 DEF SampleTyped
    <3> HIDE DEF new
    <3>3. /\ DOMAIN new = DOMAIN d /\ new.objs = d.objs /\ new.addrs = d.addrs
             /\ DOMAIN new.reqs = Requests
          /\ new.reqs[s.req] = AppendPoint(d.reqs[s.req], s.at, s.resp)
          /\ \A r \in Requests : r # s.req => new.reqs[r] = d.reqs[r]
      BY <3>1, <3>2
    <3>4. /\ \A fc \in Tables, a \in 0 .. AddrMax : i \notin AddressSamples(samples, H, fc, a)
          /\ \A o : i \notin ObjectSamples(samples, H, o)
      BY <2>3 DEF AddressSamples, ObjectSamples
    <3>5. /\ \A r : i \in RequestSamples(samples, H, r) <=> r = s.req
          /\ RequestValues(samples, H, s.req)[i] = s.resp
      BY <2>3 DEF RequestSamples, RequestValues
    <3>6. QED
      BY <3>3, <3>4, <3>5, Zenon
  <2>4. QED
    BY <2>1, <2>2, <2>3
<1> HIDE DEF new
<1>4. ASSUME NEW fc \in Tables, NEW a \in 0 .. AddrMax
      PROVE  Tracks(samples, new.addrs[fc][a], (S \cup {i}) \cap AddressSamples(samples, H, fc, a),
                    AddressValues(samples, H, fc, a))
  <2>1. PICK Own, val : Own = AddressSamples(samples, H, fc, a)
        /\ val = AddressValues(samples, H, fc, a)
    OBVIOUS
  <2>2. DOMAIN val = Own /\ Tracks(samples, d.addrs[fc][a], S \cap Own, val)
    BY <2>1 DEF DeviceTracks, AddressValues
  <2>3. new.addrs[fc][a] = IF i \in Own THEN AppendPoint(d.addrs[fc][a], samples[i].at, val[i])
                           ELSE d.addrs[fc][a]
    BY <1>3, <2>1, Zenon
  <2>4. Tracks(samples, new.addrs[fc][a], (S \cup {i}) \cap Own, val)
    BY <1>1, <2>2, <2>3, SampleTracked
  <2>5. QED
    BY <2>1, <2>4, Zenon
<1>5. ASSUME NEW o \in Objects
      PROVE  Tracks(samples, new.objs[o], (S \cup {i}) \cap ObjectSamples(samples, H, o),
                    ObjectValues(samples, H, o))
  <2>1. PICK Own, val : Own = ObjectSamples(samples, H, o) /\ val = ObjectValues(samples, H, o)
    OBVIOUS
  <2>2. DOMAIN val = Own /\ Tracks(samples, d.objs[o], S \cap Own, val)
    BY <2>1 DEF DeviceTracks, ObjectValues
  <2>3. new.objs[o] = IF i \in Own THEN AppendPoint(d.objs[o], samples[i].at, val[i]) ELSE d.objs[o]
    BY <1>3, <2>1, Zenon
  <2>4. Tracks(samples, new.objs[o], (S \cup {i}) \cap Own, val)
    BY <1>1, <2>2, <2>3, SampleTracked
  <2>5. QED
    BY <2>1, <2>4, Zenon
<1>6. ASSUME NEW r \in Requests
      PROVE  Tracks(samples, new.reqs[r], (S \cup {i}) \cap RequestSamples(samples, H, r),
                    RequestValues(samples, H, r))
  <2>1. PICK Own, val : Own = RequestSamples(samples, H, r) /\ val = RequestValues(samples, H, r)
    OBVIOUS
  <2>2. DOMAIN val = Own /\ Tracks(samples, d.reqs[r], S \cap Own, val)
    BY <2>1 DEF DeviceTracks, RequestValues
  <2>3. new.reqs[r] = IF i \in Own THEN AppendPoint(d.reqs[r], samples[i].at, val[i]) ELSE d.reqs[r]
    BY <1>3, <2>1, Zenon
  <2>4. Tracks(samples, new.reqs[r], (S \cup {i}) \cap Own, val)
    BY <1>1, <2>2, <2>3, SampleTracked
  <2>5. QED
    BY <2>1, <2>4, Zenon
<1>7. QED
  BY <1>3, <1>4, <1>5, <1>6, Zenon DEF DeviceTracks, new

\* A new device tracks no samples.
LEMMA NoDeviceTracks ==
  ASSUME NEW samples, NEW H
  PROVE  DeviceTracks(samples, H, NoDevice, {})
<1>1. /\ DOMAIN NoDevice = {"addrs", "reqs", "objs", "conf"}
      /\ DOMAIN NoDevice.addrs = Tables /\ DOMAIN NoDevice.reqs = Requests
      /\ \A fc \in Tables, a \in 0 .. AddrMax : NoDevice.addrs[fc][a] = <<>>
      /\ \A o \in Objects : NoDevice.objs[o] = <<>>
      /\ \A r \in Requests : NoDevice.reqs[r] = <<>>
  BY DEF NoDevice
<1>2. \A Own : {} \cap Own = {}
  OBVIOUS
<1>3. QED
  BY <1>1, <1>2, NothingTracked, Zenon DEF DeviceTracks

\* Some samples, one after the other: all but the latest and then the latest.
Builds(samples, D, f) ==
  f = [S \in D |-> IF S = {} THEN NoDevice
                   ELSE AddSample(f[S \ {Latest(samples, S)}], samples[Latest(samples, S)])]

\* The loop builds a device, and it tracks the hosted samples.
LEMMA BuildTracks ==
  ASSUME NEW samples, NEW target, Len(samples) \in Nat, DOMAIN samples = 1 .. Len(samples),
         \A i \in DOMAIN samples : samples[i].at \in Int /\ SampleTyped(samples[i])
  PROVE  DeviceTracks(samples, Hosted(samples, target), Build(samples, target), Hosted(samples, target))
<1> DEFINE H == Hosted(samples, target)
           D(n) == {S \in SUBSET H : Cardinality(S) <= n}
           T == {n \in Nat : \E f : Builds(samples, D(n), f)}
<1>1. H \subseteq 1 .. Len(samples) /\ IsFiniteSet(H) /\ Timed(samples, H)
  <2>1. H \subseteq 1 .. Len(samples)
    BY DEF Hosted
  <2>2. IsFiniteSet(1 .. Len(samples))
    BY FS_Interval
  <2>3. QED
    BY <2>1, <2>2, FS_Subset DEF Timed
<1> DEFINE Rest(S) == S \ {Latest(samples, S)}
<1>2. \A S \in SUBSET H :
        /\ Cardinality(S) \in Nat
        /\ S = {} <=> Cardinality(S) = 0
        /\ S # {} => /\ Rest(S) \in SUBSET H /\ Cardinality(Rest(S)) = Cardinality(S) - 1
                     /\ IsLatest(samples, S, Latest(samples, S))
  <2> TAKE S \in SUBSET H
  <2>1. IsFiniteSet(S) /\ Cardinality(S) \in Nat
    BY <1>1, FS_Subset, FS_CardinalityType
  <2>2. S = {} <=> Cardinality(S) = 0
    BY <2>1, FS_EmptySet
  <2>3. ASSUME S # {} PROVE IsLatest(samples, S, Latest(samples, S))
    <3>1. S \subseteq 1 .. Len(samples) /\ Timed(samples, S)
      BY <1>1 DEF Timed
    <3>2. PICK i \in S : IsLatest(samples, S, i)
      BY <2>3, <3>1, LatestExists
    <3>3. QED
      BY <3>1, <3>2, LatestIs
  <2>4. QED
    BY <2>1, <2>2, <2>3, FS_RemoveElement DEF IsLatest
<1> HIDE DEF H
<1>3. 0 \in T
  <2> DEFINE f == [S \in D(0) |-> NoDevice]
  <2>1. ASSUME NEW S \in D(0) PROVE S = {}
    <3>1. S \in SUBSET H /\ Cardinality(S) <= 0
      OBVIOUS
    <3> HIDE DEF Rest
    <3>2. Cardinality(S) = 0
      BY <1>2, <3>1
    <3>3. QED
      BY <1>2, <3>1, <3>2
  <2>2. Builds(samples, D(0), f)
    <3> HIDE DEF D
    <3>1. QED
      BY <2>1, Zenon DEF Builds
  <2> HIDE DEF f, D
  <2>3. QED
    BY <2>2
<1>4. ASSUME NEW n \in Nat, n \in T PROVE n + 1 \in T
  <2>1. PICK f : Builds(samples, D(n), f)
    BY <1>4
  <2> DEFINE next(S, g) == IF S = {} THEN NoDevice
                           ELSE AddSample(g[S \ {Latest(samples, S)}], samples[Latest(samples, S)])
             g == [S \in D(n + 1) |-> next(S, f)]
  <2>2. ASSUME NEW S \in D(n + 1), S # {}
        PROVE  Rest(S) \in D(n) /\ Rest(S) \in D(n + 1)
    <3>1. S \in SUBSET H /\ Cardinality(S) <= n + 1 /\ n \in Nat
      OBVIOUS
    <3> HIDE DEF Rest
    <3>2. Rest(S) \in SUBSET H /\ Cardinality(Rest(S)) <= n /\ Cardinality(Rest(S)) <= n + 1
      BY <1>2, <2>2, <3>1
    <3>3. QED
      BY <3>2
  <2>3. ASSUME NEW S \in D(n + 1), S # {}
        PROVE  g[S \ {Latest(samples, S)}] = f[S \ {Latest(samples, S)}]
    <3>1. PICK R : R = S \ {Latest(samples, S)}
      OBVIOUS
    <3>2. R \in D(n) /\ R \in D(n + 1)
      BY <2>2, <2>3, <3>1
    <3>3. f[R] = next(R, f)
      <4> HIDE DEF D
      <4>1. QED
        BY <2>1, <3>2, Zenon DEF Builds
    <3>4. g[R] = next(R, f)
      <4> HIDE DEF D, next
      <4>1. QED
        BY <3>2
    <3>5. QED
      BY <3>1, <3>3, <3>4
  <2>4. \A S \in D(n + 1) : next(S, f) = next(S, g)
    <3> HIDE DEF D, g
    <3>1. QED
      BY <2>3, Zenon
  <2>5. g = [S \in D(n + 1) |-> next(S, g)]
    <3>1. PICK h : h = g
      OBVIOUS
    <3>2. h = [S \in D(n + 1) |-> next(S, f)] /\ \A S \in D(n + 1) : next(S, f) = next(S, h)
      BY <2>4, <3>1, Zenon
    <3> HIDE DEF D, next, g
    <3>3. h = [S \in D(n + 1) |-> next(S, h)]
      BY <3>2
    <3>4. QED
      BY <3>1, <3>3, Zenon
  <2>6. Builds(samples, D(n + 1), g)
    <3> HIDE DEF D, g
    <3>1. QED
      BY <2>5, Zenon DEF Builds
  <2> HIDE DEF g, D
  <2>7. QED
    BY <2>6
<1>5. PICK N \in Nat : N = Cardinality(H)
  BY <1>2
<1>6. N \in T
  <2> HIDE DEF T
  <2>1. QED
    BY <1>3, <1>4, SetInduction
<1>7. D(N) = SUBSET H
  BY <1>1, <1>5, FS_Subset
<1>8. \E f : Builds(samples, SUBSET H, f)
  <2> HIDE DEF D
  <2>1. QED
    BY <1>6, <1>7
<1>9. PICK built : built = CHOOSE f : Builds(samples, SUBSET H, f)
  OBVIOUS
<1>10. Builds(samples, SUBSET H, built)
  BY <1>8, <1>9, Zenon
<1>11. Build(samples, target) = built[H]
  BY <1>9, Zenon DEF Build, Builds, H
<1>12. \A S \in SUBSET H :
         built[S] = IF S = {} THEN NoDevice
                    ELSE AddSample(built[S \ {Latest(samples, S)}], samples[Latest(samples, S)])
  BY <1>10, Zenon DEF Builds
<1> DEFINE P == {n \in Nat :
                   \A S \in SUBSET H : Cardinality(S) = n => DeviceTracks(samples, H, built[S], S)}
<1>13. 0 \in P
  <2> SUFFICES ASSUME NEW S \in SUBSET H, Cardinality(S) = 0 PROVE DeviceTracks(samples, H, built[S], S)
    OBVIOUS
  <2>1. S = {}
    <3> HIDE DEF Rest
    <3>1. QED
      BY <1>2
  <2>2. built[S] = NoDevice
    BY <1>12, <2>1, Zenon
  <2>3. QED
    BY <2>1, <2>2, NoDeviceTracks, Zenon
<1>14. ASSUME NEW n \in Nat, n \in P PROVE n + 1 \in P
  <2> SUFFICES ASSUME NEW S \in SUBSET H, Cardinality(S) = n + 1
               PROVE  DeviceTracks(samples, H, built[S], S)
    OBVIOUS
  <2>1. S # {} /\ Cardinality(Rest(S)) = n /\ IsLatest(samples, S, Latest(samples, S))
    <3> HIDE DEF Rest
    <3>1. Cardinality(S) \in Nat /\ Cardinality(S) # 0
      BY <1>2
    <3>2. S # {}
      BY <1>2, <3>1
    <3>3. Cardinality(Rest(S)) = Cardinality(S) - 1 /\ IsLatest(samples, S, Latest(samples, S))
      BY <1>2, <3>2
    <3>4. QED
      BY <3>2, <3>3
  <2>2. PICK i, R : i = Latest(samples, S) /\ R = S \ {i}
    OBVIOUS
  <2>3. /\ i \in S /\ S = R \cup {i} /\ i \notin R /\ R \in SUBSET H /\ Cardinality(R) = n
        /\ \A j \in R : TimeOrder(samples, j, i)
    BY <2>1, <2>2 DEF IsLatest
  <2>4. DeviceTracks(samples, H, built[R], R)
    BY <1>14, <2>3
  <2>5. built[S] = AddSample(built[R], samples[i])
    BY <1>12, <2>1, <2>2, Zenon
  <2>6. i \in H /\ R \subseteq H /\ SampleTyped(samples[i])
    BY <1>1, <2>3
  <2>7. DeviceTracks(samples, H, AddSample(built[R], samples[i]), R \cup {i})
    BY <1>1, <2>3, <2>4, <2>6, AddSampleTracks
  <2>8. QED
    BY <2>3, <2>5, <2>7, Zenon
<1>15. N \in P
  <2> HIDE DEF P
  <2>1. QED
    BY <1>13, <1>14, SetInduction
<1>16. DeviceTracks(samples, H, built[H], H)
  BY <1>5, <1>15
<1>17. QED
  BY <1>11, <1>16, Zenon DEF H
-----------------------------------------------------------------------------
(* What a device answers, from the samples.                                *)

\* Of the samples H, those of one value are S, and its points track them.
Numbered(H) == \E m \in Nat : H \subseteq 1 .. m
TracksAll(samples, H, S, pts, val) ==
  Numbered(H) /\ Timed(samples, H) /\ S \subseteq H /\ Tracks(samples, pts, H \cap S, val)
\* The points tell what is held, and that is the value of one of the samples.
TellsHeld(samples, S, pts, val, t, before) ==
  /\ ValueAt(pts, t, before) = HeldOf(samples, S, val, t, before)
  /\ Upto(samples, S, t) # {} => Latest(samples, Upto(samples, S, t)) \in S
  /\ S # {} => Earliest(samples, S) \in S

\* Points that track their samples tell what is held.
LEMMA TrackedValue ==
  ASSUME NEW samples, NEW H, NEW S, NEW pts, NEW val, TracksAll(samples, H, S, pts, val),
         NEW t \in Int, NEW before
  PROVE  TellsHeld(samples, S, pts, val, t, before)
<1> USE DEF TracksAll
<1> PICK m \in Nat : H \subseteq 1 .. m
  BY DEF Numbered
<1>1. H \cap S = S /\ S \subseteq 1 .. m /\ Timed(samples, S)
  BY DEF Timed
<1>2. Tracks(samples, pts, S, val)
  BY <1>1, Zenon
<1>3. Upto(samples, S, t) \subseteq 1 .. m /\ Timed(samples, Upto(samples, S, t))
      /\ Upto(samples, S, t) \subseteq S
  BY <1>1 DEF Timed, Upto
<1>4. ASSUME Upto(samples, S, t) # {} PROVE Latest(samples, Upto(samples, S, t)) \in S
  <2>1. PICK U : U = Upto(samples, S, t)
    OBVIOUS
  <2>2. PICK i \in U : IsLatest(samples, U, i)
    BY <1>3, <1>4, <2>1, LatestExists
  <2>3. Latest(samples, U) = i
    BY <1>3, <2>1, <2>2, LatestIs
  <2>4. QED
    BY <1>3, <2>1, <2>2, <2>3
<1>5. ASSUME S # {} PROVE Earliest(samples, S) \in S
  <2>1. PICK i : IsEarliest(samples, S, i)
    BY <1>2, <1>5 DEF Tracks
  <2>2. QED
    BY <1>1, <2>1, EarliestIs DEF IsEarliest
<1>6. QED
  BY <1>1, <1>2, <1>4, <1>5, ValueIsHeld DEF TellsHeld

\* What Prepare has built, and that it has refused what cannot be served.
Supported == \A i \in DOMAIN capture.samples : capture.samples[i].fc \in capture.supported
BuiltDevice(u) == Supported /\ devices[u] = Build(capture.samples, served[u])

\* A capture is a list of samples with times, and typed ones if it is served.
LEMMA CaptureFacts ==
  ASSUME capture \in Captures
  PROVE  /\ Len(capture.samples) \in Nat /\ DOMAIN capture.samples = 1 .. Len(capture.samples)
         /\ \A i \in DOMAIN capture.samples : capture.samples[i].at \in Nat
         /\ capture.end \in Int
         /\ Supported => \A i \in DOMAIN capture.samples : SampleTyped(capture.samples[i])
<1>1. CaptureTyped(capture)
  BY ServerAssumption
<1>2. QED
  BY <1>1 DEF CaptureTyped, Supported

\* A device that was built tracks all samples of its target.
LEMMA DeviceFacts ==
  ASSUME capture \in Captures, NEW u, BuiltDevice(u)
  PROVE  LET H == Hosted(capture.samples, served[u])
         IN  /\ H \subseteq 1 .. Len(capture.samples) /\ Len(capture.samples) \in Nat
             /\ Timed(capture.samples, H)
             /\ DeviceTracks(capture.samples, H, devices[u], H)
<1>1. PICK samples, target : samples = capture.samples /\ target = served[u]
  OBVIOUS
<1>2. /\ Len(samples) \in Nat /\ DOMAIN samples = 1 .. Len(samples)
      /\ \A i \in DOMAIN samples : samples[i].at \in Int /\ SampleTyped(samples[i])
  BY <1>1, CaptureFacts DEF BuiltDevice
<1>3. DeviceTracks(samples, Hosted(samples, target), Build(samples, target), Hosted(samples, target))
  BY <1>2, BuildTracks
<1>4. Hosted(samples, target) \subseteq 1 .. Len(samples) /\ Timed(samples, Hosted(samples, target))
  BY <1>2 DEF Hosted, Timed
<1>5. QED
  BY <1>1, <1>2, <1>3, <1>4, Zenon DEF BuiltDevice

\* The values of a device are what its target's samples hold.
LEMMA AddressHeld ==
  ASSUME capture \in Captures, NEW u, BuiltDevice(u),
         NEW fc \in Tables, NEW a \in 0 .. AddrMax, NEW t \in Int
  PROVE  ValueAt(devices[u].addrs[fc][a], t, config.before) = HeldAddress(u, fc, a, t)
<1>1. PICK samples, H, d :
        samples = capture.samples /\ H = Hosted(capture.samples, served[u]) /\ d = devices[u]
  OBVIOUS
<1>2. PICK S, val : S = AddressSamples(samples, H, fc, a) /\ val = AddressValues(samples, H, fc, a)
  OBVIOUS
<1>3. Numbered(H)
  BY <1>1, DeviceFacts DEF Numbered
<1>4. Timed(samples, H) /\ DeviceTracks(samples, H, d, H)
  BY <1>1, DeviceFacts, Zenon
<1>5. S \subseteq H
  BY <1>2 DEF AddressSamples
<1>6. PICK pts, before : pts = d.addrs[fc][a] /\ before = config.before
  OBVIOUS
<1>7. Tracks(samples, pts, H \cap S, val)
  BY <1>2, <1>4, <1>6, Zenon DEF DeviceTracks
<1>8. TracksAll(samples, H, S, pts, val)
  BY <1>3, <1>4, <1>5, <1>7, Zenon DEF TracksAll
<1>9. TellsHeld(samples, S, pts, val, t, before)
  BY <1>8, TrackedValue
<1> DEFINE value(i) == samples[i].values[a - samples[i].start + 1]
<1>10. \A i \in S : val[i] = value(i)
  BY <1>2 DEF AddressValues
<1>11. {i \in SamplesOf(u, fc) :
          a \in capture.samples[i].start ..
                  capture.samples[i].start + Len(capture.samples[i].values) - 1} = S
  BY <1>1, <1>2 DEF SamplesOf, AddressSamples
<1>12. HeldAddress(u, fc, a, t) =
         IF Upto(samples, S, t) # {} THEN value(Latest(samples, Upto(samples, S, t)))
         ELSE IF S # {} /\ config.before = "hold" THEN value(Earliest(samples, S))
         ELSE Unrecorded
  BY <1>1, <1>11, Zenon DEF HeldAddress, Held, Upto
<1>13. QED
  BY <1>1, <1>6, <1>9, <1>10, <1>12, Zenon DEF HeldOf, TellsHeld

\* The value of an object of the identification.
LEMMA ObjectHeld ==
  ASSUME capture \in Captures, NEW u, BuiltDevice(u), NEW o \in Objects, NEW t \in Int
  PROVE  ValueAt(devices[u].objs[o], t, config.before) = HeldObject(u, o, t)
<1>1. PICK samples, H, d :
        samples = capture.samples /\ H = Hosted(capture.samples, served[u]) /\ d = devices[u]
  OBVIOUS
<1>2. PICK S, val : S = ObjectSamples(samples, H, o) /\ val = ObjectValues(samples, H, o)
  OBVIOUS
<1>3. Numbered(H)
  BY <1>1, DeviceFacts DEF Numbered
<1>4. Timed(samples, H) /\ DeviceTracks(samples, H, d, H)
  BY <1>1, DeviceFacts, Zenon
<1>5. S \subseteq H
  BY <1>2 DEF ObjectSamples
<1>6. PICK pts, before : pts = d.objs[o] /\ before = config.before
  OBVIOUS
<1>7. Tracks(samples, pts, H \cap S, val)
  BY <1>2, <1>4, <1>6, Zenon DEF DeviceTracks
<1>8. TracksAll(samples, H, S, pts, val)
  BY <1>3, <1>4, <1>5, <1>7, Zenon DEF TracksAll
<1>9. TellsHeld(samples, S, pts, val, t, before)
  BY <1>8, TrackedValue
<1>10. \A i \in S : val[i] = samples[i].objects[o]
  BY <1>2 DEF ObjectValues
<1>11. {i \in SamplesOf(u, Identity) : o \in DOMAIN capture.samples[i].objects} = S
  BY <1>1, <1>2 DEF SamplesOf, ObjectSamples
<1>12. HeldObject(u, o, t) =
         IF Upto(samples, S, t) # {} THEN samples[Latest(samples, Upto(samples, S, t))].objects[o]
         ELSE IF S # {} /\ config.before = "hold" THEN samples[Earliest(samples, S)].objects[o]
         ELSE Unrecorded
  BY <1>1, <1>11, Zenon DEF HeldObject, Held, Upto
<1>13. QED
  BY <1>1, <1>6, <1>9, <1>10, <1>12, Zenon DEF HeldOf, TellsHeld

\* The response to a request of another function.
LEMMA ResponseHeld ==
  ASSUME capture \in Captures, NEW r, BuiltDevice(r.unit), r.fc \notin Tables \cup {Identity},
         r.req \in Requests, r.req.fc = r.fc, NEW t \in Int
  PROVE  ValueAt(devices[r.unit].reqs[r.req], t, config.before) = HeldResponse(r.unit, r, t)
<1>1. PICK samples, H, d, q : /\ samples = capture.samples
      /\ H = Hosted(capture.samples, served[r.unit])
                              /\ d = devices[r.unit] /\ q = r.req
  OBVIOUS
<1>2. PICK S, val : S = RequestSamples(samples, H, q) /\ val = RequestValues(samples, H, q)
  OBVIOUS
<1>3. Numbered(H)
  BY <1>1, DeviceFacts DEF Numbered
<1>4. Timed(samples, H) /\ DeviceTracks(samples, H, d, H)
  BY <1>1, DeviceFacts, Zenon
<1>5. S \subseteq H
  BY <1>2 DEF RequestSamples
<1>6. PICK pts, before : pts = d.reqs[q] /\ before = config.before
  OBVIOUS
<1>7. Tracks(samples, pts, H \cap S, val)
  BY <1>1, <1>2, <1>4, <1>6, Zenon DEF DeviceTracks
<1>8. TracksAll(samples, H, S, pts, val)
  BY <1>3, <1>4, <1>5, <1>7, Zenon DEF TracksAll
<1>9. TellsHeld(samples, S, pts, val, t, before)
  BY <1>8, TrackedValue
<1>10. \A i \in S : val[i] = samples[i].resp
  BY <1>2 DEF RequestValues
<1>11. {i \in SamplesOf(r.unit, r.fc) : capture.samples[i].req = r.req} = S
  <2>1. \A i \in H : i \in DOMAIN samples /\ SampleTyped(samples[i])
    BY <1>1, CaptureFacts DEF BuiltDevice, Hosted
  <2>2. \A i \in H : samples[i].fc \notin Tables \cup {Identity} => samples[i].req.fc = samples[i].fc
    BY <2>1 DEF SampleTyped
  <2>3. QED
    BY <1>1, <1>2, <2>2 DEF SamplesOf, RequestSamples
<1>12. HeldResponse(r.unit, r, t) =
         IF Upto(samples, S, t) # {} THEN samples[Latest(samples, Upto(samples, S, t))].resp
         ELSE IF S # {} /\ config.before = "hold" THEN samples[Earliest(samples, S)].resp
         ELSE Unrecorded
  BY <1>1, <1>11, Zenon DEF HeldResponse, Held, Upto
<1>13. QED
  BY <1>1, <1>6, <1>9, <1>10, <1>12, Zenon DEF HeldOf, TellsHeld

\* An answer without data.
LEMMA AbsentHasNoData ==
  ASSUME NEW d, NEW fc, NEW qty, config.missing = "zero" => fc \notin Tables
  PROVE  Absent(d, fc, qty).kind # "data"
  BY DEF Absent, Data, Silent, Exception

\* A function the capture does not have holds no value at all.
LEMMA NothingHeld ==
  ASSUME NEW d, NEW fc \in Tables, ~HasFunction(d, fc), NEW a \in 0 .. AddrMax, NEW t, NEW before
  PROVE  ValueAt(d.addrs[fc][a], t, before) = Unrecorded
<1>1. ~ \E x \in 0 .. AddrMax : d.addrs[fc][x] # <<>>
  <2>1. fc # Identity
    BY DEF Tables, Identity
  <2>2. QED
    BY <2>1, Zenon DEF HasFunction
<1>2. d.addrs[fc][a] = <<>>
  BY <1>1
<1>3. Index(<<>>, t, before) = 0
  BY DEF Index, Later
<1>4. QED
  BY <1>2, <1>3, Zenon DEF ValueAt

Blocks(r) == r.fc \in Tables /\ r.start \in Nat /\ r.qty \in Nat /\ r.start + r.qty - 1 <= AddrMax

\* The answer to a read of a block is what the samples hold of each address.
LEMMA ValuesHeld ==
  ASSUME capture \in Captures, config \in Configs, NEW r, BuiltDevice(r.unit), Blocks(r), NEW t \in Int
  PROVE  LET answer == ValuesAnswer(devices[r.unit], r, t)
             held == [i \in 1 .. r.qty |-> HeldAddress(r.unit, r.fc, r.start + i - 1, t)]
         IN  IF Unrecorded \notin Range(held) \/ config.missing = "zero"
             THEN answer = Data(ZeroFilled(held))
             ELSE answer.kind # "data"
<1>1. PICK d, u, fc, start, qty, missing, before :
        /\ d = devices[r.unit] /\ u = r.unit /\ fc = r.fc /\ start = r.start /\ qty = r.qty
        /\ missing = config.missing /\ before = config.before
  OBVIOUS
<1>2. fc \in Tables /\ qty \in Nat /\ \A i \in 1 .. qty : start + i - 1 \in 0 .. AddrMax
  BY <1>1, ReplayAssumption DEF Blocks
<1> DEFINE vals == [i \in 1 .. qty |-> ValueAt(d.addrs[fc][start + i - 1], t, before)]
           held == [i \in 1 .. qty |-> HeldAddress(u, fc, start + i - 1, t)]
           answer == ValuesAnswer(devices[r.unit], r, t)
<1>3. vals = held
  <2>1. \A i \in 1 .. qty :
          ValueAt(d.addrs[fc][start + i - 1], t, before) = HeldAddress(u, fc, start + i - 1, t)
    BY <1>1, <1>2, AddressHeld, Zenon
  <2>2. QED
    BY <2>1, Zenon
<1>4. answer = IF \A i \in DOMAIN vals : vals[i] # Unrecorded THEN Data(vals)
               ELSE IF missing = "zero" /\ HasFunction(d, fc) THEN Data(ZeroFilled(vals))
               ELSE Absent(d, fc, qty)
  <2>1. Lookup(d, r.fc, r.start, r.qty, t, config.before) = vals
    BY <1>1, Zenon DEF Lookup
  <2> HIDE DEF vals
  <2>2. QED
    BY <1>1, <2>1, Zenon DEF ValuesAnswer
<1>5. DOMAIN held = 1 .. qty
  OBVIOUS
<1>6. (\A i \in DOMAIN held : held[i] # Unrecorded) <=> Unrecorded \notin Range(held)
  <2> HIDE DEF held
  <2>1. QED
    BY DEF Range
<1>7. CASE Unrecorded \notin Range(held)
  <2>1. ZeroFilled(held) = held
    <3>1. \A i \in DOMAIN held : (IF held[i] = Unrecorded THEN 0 ELSE held[i]) = held[i]
      BY <1>6, <1>7
    <3>2. held = [i \in DOMAIN held |-> held[i]]
      OBVIOUS
    <3> HIDE DEF held
    <3>3. QED
      BY <3>1, <3>2, Zenon DEF ZeroFilled
  <2> HIDE DEF held, vals, answer
  <2>2. answer = Data(held)
    BY <1>3, <1>4, <1>6, <1>7, Zenon
  <2>3. QED
    BY <1>1, <1>7, <2>1, <2>2, Zenon DEF held, answer
<1>8. CASE Unrecorded \in Range(held) /\ missing # "zero"
  <2> HIDE DEF held, vals, answer
  <2>1. answer = Absent(d, fc, qty)
    BY <1>3, <1>4, <1>6, <1>8, Zenon
  <2>2. answer.kind # "data"
    BY <1>1, <1>8, <2>1, AbsentHasNoData
  <2>3. QED
    BY <1>1, <1>8, <2>2, Zenon DEF held, answer
<1>9. CASE Unrecorded \in Range(held) /\ missing = "zero" /\ HasFunction(d, fc)
  <2> HIDE DEF held, vals, answer
  <2>1. answer = Data(ZeroFilled(held))
    BY <1>3, <1>4, <1>6, <1>9, Zenon
  <2>2. QED
    BY <1>1, <1>9, <2>1, Zenon DEF held, answer
<1>10. CASE Unrecorded \in Range(held) /\ missing = "zero" /\ ~HasFunction(d, fc)
  <2>1. \A i \in 1 .. qty : vals[i] = Unrecorded
    BY <1>2, <1>10, NothingHeld
  <2>2. ZeroFilled(held) = [i \in 1 .. qty |-> 0]
    <3>1. \A i \in 1 .. qty : held[i] = Unrecorded
      BY <1>3, <2>1
    <3> HIDE DEF held
    <3>2. \A i \in DOMAIN held : (IF held[i] = Unrecorded THEN 0 ELSE held[i]) = 0
      BY <1>5, <3>1
    <3>3. QED
      BY <1>5, <3>2, Zenon DEF ZeroFilled
  <2> HIDE DEF held, vals, answer
  <2>3. answer = Absent(d, fc, qty)
    BY <1>3, <1>4, <1>6, <1>10, Zenon
  <2>4. answer = Data(ZeroFilled(held))
    BY <1>1, <1>2, <1>10, <2>2, <2>3, Zenon DEF Absent
  <2>5. QED
    BY <1>1, <1>10, <2>4, Zenon DEF held, answer
<1>11. QED
  BY <1>7, <1>8, <1>9, <1>10

IdentityHolds(answer, held) ==
  LET known == {o \in Objects : held[o] # Unrecorded}
  IN  IF known = {} THEN answer.kind # "data"
      ELSE answer.kind = "data" /\ answer.value.objects = [o \in known |-> held[o]]

\* The identification is what the samples hold of each object.
LEMMA IdentityHeld ==
  ASSUME capture \in Captures, NEW u, BuiltDevice(u), NEW t \in Int
  PROVE  IdentityHolds(IdentityAnswer(devices[u], t), [o \in Objects |-> HeldObject(u, o, t)])
<1>1. PICK d, before : d = devices[u] /\ before = config.before
  OBVIOUS
<1> DEFINE held == [o \in Objects |-> HeldObject(u, o, t)]
           known == {o \in Objects : held[o] # Unrecorded}
           found == {o \in Objects : ValueAt(d.objs[o], t, before) # Unrecorded}
           id == Identification(d, t, before)
           answer == IdentityAnswer(devices[u], t)
<1>2. \A o \in Objects : ValueAt(d.objs[o], t, before) = held[o]
  BY <1>1, ObjectHeld
<1>3. found = known
  <2> HIDE DEF held
  <2>1. QED
    BY <1>2
<1>4. [o \in found |-> ValueAt(d.objs[o], t, before)] = [o \in known |-> held[o]]
  <2>1. \A o \in found : ValueAt(d.objs[o], t, before) = held[o]
    BY <1>2
  <2> HIDE DEF held, known, found
  <2>2. QED
    BY <1>3, <2>1, Zenon
<1>5. (id.ok <=> known # {}) /\ id.objects = [o \in known |-> held[o]]
  <2>1. id = [ok |-> found # {}, conf |-> ValueAt(d.conf, t, before),
              objects |-> [o \in found |-> ValueAt(d.objs[o], t, before)]]
    BY Zenon DEF Identification
  <2>2. PICK objects : objects = [o \in found |-> ValueAt(d.objs[o], t, before)]
    OBVIOUS
  <2>3. (id.ok <=> found # {}) /\ id.objects = objects
    <3> HIDE DEF found, id
    <3>1. QED
      BY <2>1, <2>2
  <2>4. QED
    BY <1>3, <1>4, <2>2, <2>3, Zenon
<1>6. answer = IF id.ok THEN Data(id) ELSE Absent(d, Identity, 0)
  BY <1>1, Zenon DEF IdentityAnswer
<1> HIDE DEF held, known, found, id, answer
<1>7. CASE known = {}
  <2>1. Identity \notin Tables
    BY DEF Identity, Tables
  <2>2. answer.kind # "data"
    BY <1>5, <1>6, <1>7, <2>1, AbsentHasNoData
  <2>3. QED
    BY <1>7, <2>2, Zenon DEF IdentityHolds, held, known, answer
<1>8. CASE known # {}
  <2>1. answer = Data(id)
    BY <1>5, <1>6, <1>8, Zenon
  <2>2. answer.kind = "data" /\ answer.value = id
    BY <2>1 DEF Data
  <2>3. QED
    BY <1>5, <1>8, <2>2, Zenon DEF IdentityHolds, held, known, answer
<1>9. QED
  BY <1>7, <1>8

\* The response to any other request is what the samples of it hold.
LEMMA AnyResponseHeld ==
  ASSUME capture \in Captures, NEW r, BuiltDevice(r.unit), r.fc \notin Tables \cup {Identity},
         r.req \in Requests, r.req.fc = r.fc, NEW t \in Int
  PROVE  LET answer == ResponseAnswer(devices[r.unit], r, t)
             held == HeldResponse(r.unit, r, t)
         IN  IF held \in {Unrecorded, "short", "inconsistent"} THEN answer.kind # "data"
             ELSE answer = Data(held)
<1>1. PICK d, before, held : /\ d = devices[r.unit] /\ before = config.before
                             /\ held = HeldResponse(r.unit, r, t)
  OBVIOUS
<1>2. ValueAt(d.reqs[r.req], t, before) = held
  BY <1>1, ResponseHeld, Zenon
<1>3. PICK answer : answer = ResponseAnswer(d, r, t)
  OBVIOUS
<1>4. answer = IF held \in {Unrecorded, "short"} THEN Absent(d, r.fc, 0)
               ELSE IF held = "inconsistent" THEN Exception("ServerDeviceFailure")
               ELSE Data(held)
  BY <1>1, <1>2, <1>3, Zenon DEF ResponseAnswer
<1>5. Absent(d, r.fc, 0).kind # "data"
  BY AbsentHasNoData
<1>6. Exception("ServerDeviceFailure").kind # "data"
  BY DEF Exception
<1>7. IF held \in {Unrecorded, "short", "inconsistent"} THEN answer.kind # "data"
      ELSE answer = Data(held)
  BY <1>4, <1>5, <1>6
<1>8. QED
  BY <1>1, <1>3, <1>7, Zenon

\* Every answer holds the latest of the samples.
LEMMA AnswerIsHeld ==
  ASSUME capture \in Captures, config \in Configs, NEW r \in Asked, ~NotServed(r),
         r.unit \in DOMAIN devices, BuiltDevice(r.unit), NEW t \in Int
  PROVE  AnswerHolds(r, t, Answer(r, t))
<1>1. RequestTyped(r)
  BY ServerAssumption DEF NotServed
<1>2. CASE r.fc \in Tables
  <2>1. r.fc # Identity
    BY <1>2 DEF Tables, Identity
  <2>2. Answer(r, t) = ValuesAnswer(devices[r.unit], r, t)
    BY <1>2, <2>1, Zenon DEF Answer
  <2>3. Blocks(r)
    BY <1>1, <1>2 DEF RequestTyped, Blocks
  <2>4. QED
    BY <1>2, <2>1, <2>2, <2>3, ValuesHeld, Zenon DEF AnswerHolds
<1>3. CASE r.fc = Identity
  <2>1. r.fc \notin Tables
    BY <1>3 DEF Tables, Identity
  <2>2. Answer(r, t) = IdentityAnswer(devices[r.unit], t)
    BY <1>3, <2>1, Zenon DEF Answer
  <2>3. IdentityHolds(Answer(r, t), [o \in Objects |-> HeldObject(r.unit, o, t)])
    BY <2>2, IdentityHeld, Zenon
  <2>4. QED
    BY <1>3, <2>1, <2>3, Zenon DEF AnswerHolds, IdentityHolds
<1>4. CASE r.fc \notin Tables \cup {Identity}
  <2>1. r.fc \notin Tables /\ r.fc # Identity
    BY <1>4
  <2>2. Answer(r, t) = ResponseAnswer(devices[r.unit], r, t)
    BY <2>1, Zenon DEF Answer
  <2>3. r.req \in Requests /\ r.req.fc = r.fc
    BY <1>1, <1>4 DEF RequestTyped
  <2>4. QED
    BY <1>4, <2>1, <2>2, <2>3, AnyResponseHeld, Zenon DEF AnswerHolds
<1>5. QED
  BY <1>2, <1>3, <1>4
-----------------------------------------------------------------------------
(* The clock.                                                              *)

\* Quotient and remainder.
LEMMA Division ==
  ASSUME NEW s \in Nat \ {0}, NEW x \in Nat
  PROVE  /\ x \div s \in Nat /\ x % s \in 0 .. s - 1
         /\ x = (x \div s) * s + (x % s)
  OBVIOUS

\* A quotient reaches a number of times s when x does.
LEMMA QuotientReaches ==
  ASSUME NEW s \in Nat \ {0}, NEW x \in Nat, NEW k \in Nat
  PROVE  x \div s >= k <=> x >= k * s
<1>1. PICK q, r : q = x \div s /\ r = x % s
  OBVIOUS
<1>2. q \in Nat /\ r \in 0 .. s - 1 /\ x = q * s + r
  BY <1>1, Division
<1>3. CASE q >= k
  <2>1. q * s >= k * s
    BY <1>2, <1>3
  <2>2. q * s \in Nat /\ k * s \in Nat
    BY <1>2
  <2>3. x >= k * s
    BY <1>2, <2>1, <2>2
  <2>4. QED
    BY <1>1, <1>3, <2>3
<1>4. CASE q + 1 <= k
  <2>1. (q + 1) * s <= k * s
    BY <1>2, <1>4
  <2>2. (q + 1) * s = q * s + s /\ q * s \in Nat /\ k * s \in Nat
    BY <1>2
  <2>3. x < k * s
    BY <1>2, <2>1, <2>2
  <2>4. QED
    BY <1>1, <1>2, <1>4, <2>2, <2>3
<1>5. QED
  BY <1>2, <1>3, <1>4

\* A clock on a window that is not turned round.
ClockTyped(clock) ==
  /\ clock.from \in Nat /\ clock.to \in Nat /\ clock.from <= clock.to
  /\ clock.num \in Nat /\ clock.den \in Nat \ {0} /\ clock.loops \in Nat

\* A window with room: the position is in it and the rounds are counted.
LEMMA ClockInWindow ==
  ASSUME NEW clock, ClockTyped(clock), clock.from < clock.to, NEW e \in Nat
  PROVE  LET x == Played(clock, e)
             s == Span(clock)
         IN  /\ x \in Nat /\ s \in Nat \ {0}
             /\ RoundsOver(clock, e) <=> clock.loops > 0 /\ x \div s >= clock.loops
             /\ ClockAt(clock, e) = IF RoundsOver(clock, e) THEN clock.to
                                    ELSE clock.from + (x % s) \div clock.den
             /\ (x % s) \div clock.den \in 0 .. clock.to - clock.from - 1
<1>1. PICK from, to, num, den, loops :
        from = clock.from /\ to = clock.to /\ num = clock.num /\ den = clock.den
        /\ loops = clock.loops
  OBVIOUS
<1>2. from \in Nat /\ to \in Nat /\ num \in Nat /\ den \in Nat \ {0} /\ loops \in Nat /\ from < to
  BY <1>1 DEF ClockTyped
<1>3. PICK x, s : x = Played(clock, e) /\ s = Span(clock)
  OBVIOUS
<1>4. x = e * num /\ s = (to - from) * den
  BY <1>1, <1>3 DEF Played, Span
<1>5. x \in Nat
  BY <1>2, <1>4
<1>6. s \in Nat \ {0}
  <2>1. PICK w \in Nat \ {0} : w = to - from
    BY <1>2
  <2>2. w * den \in Nat /\ w * den >= 1
    BY <1>2, <2>1
  <2>3. QED
    BY <1>4, <2>1, <2>2
<1>7. RoundsOver(clock, e) <=> loops > 0 /\ x \div s >= loops
  <2>1. RoundsOver(clock, e) <=> loops > 0 /\ x >= loops * s
    BY <1>1, <1>3, Zenon DEF RoundsOver
  <2>2. QED
    BY <1>2, <1>5, <1>6, <2>1, QuotientReaches
<1>8. (x % s) \div den \in 0 .. to - from - 1
  <2>1. PICK p : p = x % s
    OBVIOUS
  <2>2. p \in Nat /\ p < s
    BY <1>5, <1>6, <2>1, Division
  <2>3. PICK w \in Nat \ {0} : w = to - from
    BY <1>2
  <2>4. s = w * den /\ w * den \in Nat
    BY <1>2, <1>4, <2>3
  <2>5. ~(p >= w * den)
    BY <2>2, <2>4, <1>6
  <2>6. ~(p \div den >= w) /\ p \div den \in Nat
    BY <1>2, <2>2, <2>3, <2>5, QuotientReaches, Division
  <2>7. p \div den \in 0 .. w - 1
    BY <2>3, <2>6
  <2>8. QED
    BY <2>1, <2>3, <2>7
<1>9. ClockAt(clock, e) = IF RoundsOver(clock, e) THEN to ELSE from + (x % s) \div den
  <2>1. ~(to <= from)
    BY <1>2
  <2>2. CASE e # 0
    BY <1>1, <1>3, <2>1, <2>2, Zenon DEF ClockAt
  <2>3. CASE e = 0
    <3>1. x = 0 /\ ClockAt(clock, e) = from
      BY <1>1, <1>2, <1>4, <2>3 DEF ClockAt
    <3>2. 0 % s = 0 /\ 0 \div s = 0 /\ 0 \div den = 0
      BY <1>2, <1>6
    <3>3. ~RoundsOver(clock, e) /\ (x % s) \div den = 0
      BY <1>2, <1>7, <3>1, <3>2
    <3>4. QED
      BY <1>2, <3>1, <3>3
  <2>4. QED
    BY <2>2, <2>3
<1>10. QED
  BY <1>1, <1>3, <1>5, <1>6, <1>7, <1>8, <1>9, Zenon

\* The end of a capture is the declared one or the time of the latest sample.
LEMMA EndIs ==
  ASSUME capture \in Captures
  PROVE  CaptureEnd \in Nat
<1>1. PICK samples, n, end :
        /\ samples = capture.samples /\ n = Len(capture.samples) /\ end = capture.end
  OBVIOUS
<1>2. n \in Nat /\ DOMAIN samples = 1 .. n /\ end \in Int /\ \A i \in 1 .. n : samples[i].at \in Nat
  BY <1>1, CaptureFacts
<1> DEFINE times == {samples[i].at : i \in DOMAIN samples} \cup {0}
<1>3. \E x \in times : x \in Nat /\ \A y \in times : y \in Nat /\ x >= y
  <2>1. CASE n = 0
    <3>1. times = {0}
      BY <1>2, <2>1
    <3>2. QED
      BY <3>1
  <2>2. CASE n # 0
    <3>1. Timed(samples, 1 .. n) /\ 1 .. n # {}
      BY <1>2, <2>2 DEF Timed
    <3>2. PICK i \in 1 .. n : IsLatest(samples, 1 .. n, i)
      BY <1>2, <3>1, LatestExists
    <3>3. \A j \in 1 .. n : samples[j].at <= samples[i].at
      BY <1>2, <3>2 DEF IsLatest, TimeOrder
    <3>4. QED
      BY <1>2, <3>2, <3>3
  <2>3. QED
    BY <2>1, <2>2
<1>4. Max(times) \in Nat
  <2> HIDE DEF times
  <2>1. QED
    BY <1>3 DEF Max
<1>5. CaptureEnd = IF end >= 0 THEN end ELSE Max(times)
  BY <1>1 DEF CaptureEnd
<1>6. QED
  BY <1>2, <1>4, <1>5

\* The clock of a server, and the time it tells.
LEMMA ClockIs ==
  ASSUME capture \in Captures, config \in Configs
  PROVE  ClockTyped(Clock) /\ Clock.num = config.num /\ Clock.den = config.den
<1>1. PICK end \in Nat : end = CaptureEnd
  BY EndIs
<1>2. PICK from, num, den, loops :
        from = config.from /\ num = config.num /\ den = config.den /\ loops = config.loops
  OBVIOUS
<1>3. from \in Nat /\ num \in Nat /\ den \in Nat \ {0} /\ loops \in Nat
  BY <1>2, ServerAssumption
<1>4. PICK first : first = Least(from, end)
  OBVIOUS
<1>5. first \in Nat /\ first <= end
  BY <1>1, <1>3, <1>4 DEF Least
<1>6. Clock = [from |-> first, to |-> end, num |-> num, den |-> den, loops |-> loops]
  BY <1>1, <1>2, <1>4, Zenon DEF Clock
<1>7. QED
  BY <1>1, <1>2, <1>3, <1>5, <1>6 DEF ClockTyped

\* The replay time is a time.
LEMMA NowIs ==
  ASSUME capture \in Captures, config \in Configs, elapsed \in Nat
  PROVE  Now \in Int
<1>1. PICK clock, e : clock = Clock /\ e = elapsed
  OBVIOUS
<1>2. ClockTyped(clock) /\ e \in Nat
  BY <1>1, ClockIs
<1>3. ClockAt(clock, e) \in Int
  <2>1. PICK from, to, at : from = clock.from /\ to = clock.to
        /\ at = (Played(clock, e) % Span(clock)) \div clock.den
    OBVIOUS
  <2>2. from \in Nat /\ to \in Nat /\ from <= to
    BY <1>2, <2>1 DEF ClockTyped
  <2>3. CASE from < to
    <3>1. /\ at \in 0 .. to - from - 1
          /\ ClockAt(clock, e) = IF RoundsOver(clock, e) THEN to ELSE from + at
      BY <1>2, <2>1, <2>3, ClockInWindow, Zenon
    <3>2. from + at \in Int
      BY <2>2, <3>1
    <3>3. QED
      BY <2>2, <3>1, <3>2
  <2>4. CASE ~(from < to)
    <3>1. to <= from
      BY <2>2, <2>4
    <3>2. ClockAt(clock, e) = IF e = 0 THEN from ELSE to
      BY <2>1, <3>1, Zenon DEF ClockAt
    <3>3. QED
      BY <2>2, <3>2
  <2>5. QED
    BY <2>3, <2>4
<1>4. clock.from \in Int
  BY <1>2 DEF ClockTyped
<1>5. QED
  BY <1>1, <1>3, <1>4, Zenon DEF Now

\* The pace over one tick.
LEMMA PaceIsKept ==
  ASSUME NEW den \in Nat \ {0}, NEW num \in Nat, NEW p \in Nat
  PROVE  LET advance == ((p + num) \div den - p \div den) * den
         IN  advance > num - den /\ advance < num + den
<1>1. PICK a, b, v, w : a = p \div den /\ b = (p + num) \div den /\ v = p % den
      /\ w = (p + num) % den
  OBVIOUS
<1>2. p + num \in Nat
  OBVIOUS
<1>3. /\ a \in Nat /\ b \in Nat /\ v \in 0 .. den - 1 /\ w \in 0 .. den - 1
      /\ p = a * den + v /\ p + num = b * den + w
  BY <1>1, <1>2, Division
<1>4. (b - a) * den = b * den - a * den /\ a * den \in Nat /\ b * den \in Nat
  BY <1>3
<1>5. (b - a) * den = num + v - w
  BY <1>3, <1>4
<1>6. (b - a) * den > num - den /\ (b - a) * den < num + den
  BY <1>3, <1>5
<1>7. QED
  BY <1>1, <1>6

\* ClockKeepsPace for one clock: the time goes from now to next, in the rounds
\* before and after.
RoundOf(clock, e) == IF Span(clock) = 0 THEN 0 ELSE Played(clock, e) \div Span(clock)
Pace(clock, now, next, before, after) ==
  LET advance == (next - now) * clock.den
  IN  /\ next \in clock.from .. clock.to
      /\ IF clock.loops > 0 /\ after >= clock.loops
         THEN next = clock.to
         ELSE /\ clock.from < clock.to => next < clock.to
              /\ after = before /\ clock.from < clock.to =>
                   advance > clock.num - clock.den /\ advance < clock.num + clock.den

\* One tick of a clock.
LEMMA TickKeepsPace ==
  ASSUME NEW clock, ClockTyped(clock), NEW e \in Nat
  PROVE  Pace(clock, ClockAt(clock, e), ClockAt(clock, e + 1), RoundOf(clock, e), RoundOf(clock, e + 1))
<1>1. PICK from, to, num, den, loops, s, x, y, now, next :
        /\ from = clock.from /\ to = clock.to /\ num = clock.num /\ den = clock.den
           /\ loops = clock.loops
        /\ s = Span(clock) /\ x = Played(clock, e) /\ y = Played(clock, e + 1)
        /\ now = ClockAt(clock, e) /\ next = ClockAt(clock, e + 1)
  OBVIOUS
<1>2. from \in Nat /\ to \in Nat /\ from <= to /\ num \in Nat /\ den \in Nat \ {0} /\ loops \in Nat
  BY <1>1 DEF ClockTyped
<1> DEFINE round(z) == IF s = 0 THEN 0 ELSE z \div s
           Goal == /\ next \in from .. to
                   /\ IF loops > 0 /\ round(y) >= loops
                      THEN next = to
                      ELSE /\ from < to => next < to
                           /\ round(y) = round(x) /\ from < to =>
                                (next - now) * den > num - den /\ (next - now) * den < num + den
<1>3. CASE ~(from < to)
  <2>1. from = to
    BY <1>2, <1>3
  <2>2. e + 1 # 0 /\ to <= from
    BY <1>2, <2>1
  <2>3. next = to
    BY <1>1, <2>2, Zenon DEF ClockAt
  <2>4. QED
    <3>1. next \in from .. to
      BY <1>2, <2>1, <2>3
    <3>2. Goal
      BY <1>3, <2>3, <3>1, Zenon
    <3>3. QED
      BY <1>1, <3>2, Zenon DEF Pace, RoundOf
<1>4. CASE from < to
  <2>1. PICK over, overNext : over = RoundsOver(clock, e) /\ overNext = RoundsOver(clock, e + 1)
    OBVIOUS
  <2>2. /\ x \in Nat /\ s \in Nat \ {0} /\ (over <=> loops > 0 /\ x \div s >= loops)
        /\ now = IF over THEN to ELSE from + (x % s) \div den
        /\ (x % s) \div den \in 0 .. to - from - 1
    BY <1>1, <1>4, <2>1, ClockInWindow, Zenon
  <2>3. /\ y \in Nat /\ (overNext <=> loops > 0 /\ y \div s >= loops)
        /\ next = IF overNext THEN to ELSE from + (y % s) \div den
        /\ (y % s) \div den \in 0 .. to - from - 1
    <3>1. e + 1 \in Nat
      OBVIOUS
    <3>2. QED
      BY <1>1, <1>4, <2>1, <3>1, ClockInWindow, Zenon
  <2>4. PICK a, b : a = (x % s) \div den /\ b = (y % s) \div den
    OBVIOUS
  <2>5. y = x + num
    <3>1. x = e * num /\ y = (e + 1) * num
      BY <1>1 DEF Played
    <3>2. (e + 1) * num = e * num + num
      BY <1>2
    <3>3. QED
      BY <3>1, <3>2
  <2>6. round(x) = x \div s /\ round(y) = y \div s
    BY <2>2
  <2>7. next \in from .. to
    BY <1>2, <1>4, <2>3, <2>4
  <2>8. CASE overNext
    <3>1. loops > 0 /\ round(y) >= loops /\ next = to
      BY <2>3, <2>6, <2>8
    <3>2. Goal
      BY <2>7, <3>1, Zenon
    <3>3. QED
      BY <1>1, <3>2, Zenon DEF Pace, RoundOf
  <2>9. CASE ~overNext
    <3>1. next = from + b /\ b \in 0 .. to - from - 1
      BY <2>3, <2>4, <2>9
    <3>2. next < to
      BY <1>2, <3>1
    <3>3. ASSUME round(y) = round(x)
          PROVE  (next - now) * den > num - den /\ (next - now) * den < num + den
      <4>1. y \div s = x \div s
        BY <2>6, <3>3, Zenon
      <4>2. ~over
        BY <2>2, <2>3, <2>9, <4>1
      <4>3. now = from + a /\ a \in 0 .. to - from - 1
        BY <2>2, <2>4, <4>2
      <4>4. PICK p, q, r : p = x % s /\ q = x \div s /\ r = y % s
        OBVIOUS
      <4>5. x \in Nat /\ y \in Nat /\ s \in Nat \ {0} /\ q = y \div s
        BY <2>2, <2>3, <4>1, <4>4
      <4>6. /\ p \in Nat /\ q \in Nat /\ r \in Nat /\ q * s \in Nat
            /\ x = q * s + p /\ y = q * s + r
        <5>1. x \div s \in Nat /\ x % s \in 0 .. s - 1 /\ x = (x \div s) * s + (x % s)
          BY <4>5, Division
        <5>2. y \div s \in Nat /\ y % s \in 0 .. s - 1 /\ y = (y \div s) * s + (y % s)
          BY <4>5, Division
        <5>3. x = q * s + p /\ y = q * s + r
          BY <4>4, <4>5, <5>1, <5>2, Zenon
        <5>4. QED
          BY <4>4, <4>5, <5>1, <5>2, <5>3
      <4>7. y % s = p + num
        BY <1>2, <2>5, <4>4, <4>5, <4>6
      <4>8. b = (p + num) \div den /\ a = p \div den
        BY <2>4, <4>4, <4>7
      <4>9. next - now = b - a
        BY <1>2, <3>1, <4>3
      <4>10. QED
        BY <1>2, <4>6, <4>8, <4>9, PaceIsKept
    <3>4. ~(loops > 0 /\ round(y) >= loops)
      BY <2>3, <2>6, <2>9
    <3>5. Goal
      BY <2>7, <3>2, <3>3, <3>4, Zenon
    <3>6. QED
      BY <1>1, <3>5, Zenon DEF Pace, RoundOf
  <2>10. QED
    BY <2>8, <2>9
<1>5. QED
  BY <1>3, <1>4
-----------------------------------------------------------------------------
(* The answers.                                                            *)

\* An answer with the kind of a silent one is the silent one.
Plain(answer) == answer.kind = "silent" => answer = Silent

\* The answer for what is not recorded, with --missing silence none.
LEMMA AbsentIsPlain ==
  ASSUME NEW d, NEW fc, NEW qty
  PROVE  /\ Plain(Absent(d, fc, qty))
         /\ config.missing = "silence" => Absent(d, fc, qty) = Silent
  BY DEF Plain, Absent, Data, Silent, Exception

\* Under --missing silence the requests that are not answered are those counted
\* as unrecorded, for each of the three kinds of functions.
LEMMA ValuesAnswers ==
  ASSUME NEW d, NEW r, NEW t, r.fc \in Tables
  PROVE  LET answer == ValuesAnswer(d, r, t)
             recorded == \A i \in 1 .. r.qty :
                           ValueAt(d.addrs[r.fc][r.start + i - 1], t, config.before) # Unrecorded
         IN  Plain(answer) /\ (config.missing = "silence" => (answer = Silent <=> ~recorded))
<1> DEFINE value(i) == ValueAt(d.addrs[r.fc][r.start + i - 1], t, config.before)
           vals == [i \in 1 .. r.qty |-> value(i)]
           known == \A i \in 1 .. r.qty : value(i) # Unrecorded
<1>1. Lookup(d, r.fc, r.start, r.qty, t, config.before) = vals
  BY DEF Lookup
<1>2. (\A i \in DOMAIN vals : vals[i] # Unrecorded) <=> known
  <2> HIDE DEF value
  <2>1. QED
    OBVIOUS
<1>3. ValuesAnswer(d, r, t) =
        IF known THEN Data(vals)
        ELSE IF config.missing = "zero" /\ HasFunction(d, r.fc) THEN Data(ZeroFilled(vals))
        ELSE Absent(d, r.fc, r.qty)
  <2> HIDE DEF value, vals, known
  <2>1. QED
    BY <1>1, <1>2, Zenon DEF ValuesAnswer, vals
<1> HIDE DEF vals, known
<1>4. \A v : Data(v).kind = "data" /\ Plain(Data(v)) /\ Data(v) # Silent
  BY DEF Data, Silent, Plain
<1>5. /\ Plain(ValuesAnswer(d, r, t))
      /\ config.missing = "silence" => (ValuesAnswer(d, r, t) = Silent <=> ~known)
  BY <1>3, <1>4, AbsentIsPlain
<1>6. QED
  BY <1>5, Zenon DEF known

\* Of the device identification.
LEMMA IdentityAnswers ==
  ASSUME NEW d, NEW t
  PROVE  LET answer == IdentityAnswer(d, t)
             recorded == Identification(d, t, config.before).ok
         IN  Plain(answer) /\ (config.missing = "silence" => (answer = Silent <=> ~recorded))
  BY AbsentIsPlain DEF IdentityAnswer, Data, Silent, Plain

\* Of the functions kept per request.
LEMMA ResponseAnswers ==
  ASSUME NEW d, NEW r, NEW t
  PROVE  LET answer == ResponseAnswer(d, r, t)
             recorded == ValueAt(d.reqs[r.req], t, config.before) \notin {Unrecorded, "short"}
         IN  Plain(answer) /\ (config.missing = "silence" => (answer = Silent <=> ~recorded))
  BY AbsentIsPlain DEF ResponseAnswer, Data, Exception, Silent, Plain

\* Whatever the request, it is answered unless it counts as unrecorded.
LEMMA AnswersAccount ==
  ASSUME NEW r, NEW t
  PROVE  /\ Plain(Answer(r, t))
         /\ config.missing = "silence" => (Answer(r, t) = Silent <=> CountsUnrecorded(r, t))
<1> DEFINE d == devices[r.unit]
           served_ == ~NotServed(r) /\ r.unit \in DOMAIN devices
<1>1. CASE ~served_
  <2>1. PICK code : Answer(r, t) = Exception(code)
    BY <1>1, Zenon DEF Answer
  <2>2. ~CountsUnrecorded(r, t)
    BY <1>1, Zenon DEF CountsUnrecorded
  <2>3. QED
    BY <2>1, <2>2 DEF Exception, Silent, Plain
<1>2. CASE served_ /\ r.fc \in Tables
  <2>1. r.fc # Identity
    BY <1>2 DEF Tables, Identity
  <2>2. Answer(r, t) = ValuesAnswer(d, r, t)
    BY <1>2, <2>1, Zenon DEF Answer
  <2>3. CountsUnrecorded(r, t) <=>
          ~ \A i \in 1 .. r.qty : ValueAt(d.addrs[r.fc][r.start + i - 1], t, config.before) # Unrecorded
    BY <1>2, <2>1, Zenon DEF CountsUnrecorded, Recorded
  <2>4. QED
    BY <1>2, <2>2, <2>3, ValuesAnswers, Zenon
<1>3. CASE served_ /\ r.fc = Identity
  <2>1. r.fc \notin Tables
    BY <1>3 DEF Tables, Identity
  <2>2. Answer(r, t) = IdentityAnswer(d, t)
    BY <1>3, <2>1, Zenon DEF Answer
  <2>3. CountsUnrecorded(r, t) <=> ~Identification(d, t, config.before).ok
    BY <1>3, <2>1, Zenon DEF CountsUnrecorded, Recorded
  <2>4. QED
    BY <2>2, <2>3, IdentityAnswers, Zenon
<1>4. CASE served_ /\ r.fc \notin Tables /\ r.fc # Identity
  <2>1. Answer(r, t) = ResponseAnswer(d, r, t)
    BY <1>4, Zenon DEF Answer
  <2>2. CountsUnrecorded(r, t) <=>
          ~(ValueAt(d.reqs[r.req], t, config.before) \notin {Unrecorded, "short"})
    BY <1>4, Zenon DEF CountsUnrecorded, Recorded
  <2>3. QED
    BY <2>1, <2>2, ResponseAnswers, Zenon
<1>5. QED
  BY <1>1, <1>2, <1>3, <1>4, Zenon
-----------------------------------------------------------------------------
(* The invariant.                                                          *)

Busy == {c \in Clients : session[c] # Idle}
Mute == {c \in Clients : session[c].at = "answered" /\ session[c].answer = Silent}

InHandler(s) == s.at = "handler"
InAnswer(s) == s.at = "answered" /\ (s.answer.kind = "silent" => s.answer = Silent)

\* Where the sessions are, and that counters count.
SessionsInv ==
  /\ DOMAIN session = Clients
  /\ \A c \in Clients : session[c] = Idle \/ InHandler(session[c]) \/ InAnswer(session[c])
  /\ stats \in [{"requests", "answered", "exceptions", "silent", "unrecorded"} -> Nat]

\* CountersAddUp, with the two sets named.
Sums ==
  /\ stats.requests = stats.answered + stats.exceptions + stats.silent + Cardinality(Busy)
  /\ config.missing = "silence" => stats.unrecorded = stats.silent + Cardinality(Mute)

CountsInv == SessionsInv /\ Sums
-----------------------------------------------------------------------------
(* The sessions: the summary stays right when one session moves on and     *)
(* one counter with it.                                                    *)

\* The sessions in question are finitely many.
LEMMA SetsAreFinite == IsFiniteSet(Busy) /\ IsFiniteSet(Mute)
  BY FS_Subset, ServerAssumption DEF Busy, Mute

\* At the start nothing is counted.
LEMMA InitCounts == Init => CountsInv
<1> SUFFICES ASSUME Init PROVE CountsInv
  OBVIOUS
<1>1. SessionsInv
  BY DEF Init, SessionsInv
<1>2. Busy = {} /\ Mute = {}
  BY DEF Init, Busy, Mute, Idle
<1>3. Cardinality(Busy) = 0 /\ Cardinality(Mute) = 0
  BY <1>2, FS_EmptySet
<1>4. Sums
  BY <1>3 DEF Init, Sums
<1>5. QED
  BY <1>1, <1>4 DEF CountsInv

\* A request adds a busy session.
LEMMA ArriveKeepsCounts ==
  ASSUME CountsInv, NEW c \in Clients, NEW r, Arrive(c, r)
  PROVE  CountsInv'
<1>1. /\ session[c] = Idle
      /\ session' = [session EXCEPT ![c] = [at |-> "handler", req |-> r]]
      /\ stats' = [stats EXCEPT !.requests = @ + 1] /\ config' = config
  BY DEF Arrive
<1>2. SessionsInv'
  BY <1>1 DEF CountsInv, SessionsInv, InHandler, InAnswer
<1>3. Busy' = Busy \cup {c} /\ c \notin Busy
  BY <1>1 DEF CountsInv, SessionsInv, Busy, Idle
<1>4. Mute' = Mute
  BY <1>1 DEF CountsInv, SessionsInv, Mute, Idle
<1>5. Cardinality(Busy') = Cardinality(Busy) + 1 /\ Cardinality(Busy) \in Nat
  BY <1>3, SetsAreFinite, FS_AddElement, FS_CardinalityType
<1>6. Sums'
  BY <1>1, <1>4, <1>5 DEF CountsInv, SessionsInv, Sums
<1>7. QED
  BY <1>2, <1>6 DEF CountsInv

\* A handled request stays busy, and is mute if it is silent.
LEMMA HandleKeepsCounts ==
  ASSUME CountsInv, NEW c \in Clients, Handle(c)
  PROVE  CountsInv'
<1> DEFINE r == session[c].req
           answer == Answer(r, Now)
           counts == CountsUnrecorded(r, Now)
<1>1. /\ session[c].at = "handler"
      /\ session' = [session EXCEPT ![c] =
                       [at |-> "answered", req |-> r, t |-> Now, answer |-> answer]]
      /\ stats' = [stats EXCEPT !.unrecorded = @ + (IF counts THEN 1 ELSE 0)]
      /\ config' = config
  BY DEF Handle
<1>2. Plain(answer) /\ (config.missing = "silence" => (answer = Silent <=> counts))
  BY AnswersAccount
<1> HIDE DEF answer, counts, r
<1>3. SessionsInv'
  BY <1>1, <1>2 DEF CountsInv, SessionsInv, InHandler, InAnswer, Plain
<1>4. Busy' = Busy
  BY <1>1 DEF CountsInv, SessionsInv, Busy, Idle
<1>5. c \notin Mute /\ Mute' = IF answer = Silent THEN Mute \cup {c} ELSE Mute
  BY <1>1 DEF CountsInv, SessionsInv, Mute
<1>6. /\ Cardinality(Mute) \in Nat /\ Cardinality(Busy) \in Nat
      /\ Cardinality(Mute') = Cardinality(Mute) + (IF answer = Silent THEN 1 ELSE 0)
  BY <1>5, SetsAreFinite, FS_AddElement, FS_CardinalityType
<1>7. Sums'
  BY <1>1, <1>2, <1>4, <1>6 DEF CountsInv, SessionsInv, Sums
<1>8. QED
  BY <1>3, <1>7 DEF CountsInv

\* A delivered answer frees its session, and one counter counts it.
LEMMA DeliverKeepsCounts ==
  ASSUME CountsInv, NEW c \in Clients, Deliver(c)
  PROVE  CountsInv'
<1> DEFINE answer == session[c].answer
           counter == Counter(answer)
<1>1. /\ session[c].at = "answered"
      /\ session' = [session EXCEPT ![c] = Idle]
      /\ stats' = [stats EXCEPT ![counter] = @ + 1]
      /\ config' = config
  BY DEF Deliver
<1>2. Plain(answer)
  BY <1>1 DEF CountsInv, SessionsInv, InHandler, InAnswer, Plain, Idle
<1>3. counter \in {"answered", "silent", "exceptions"} /\ (counter = "silent" <=> answer = Silent)
  <2>1. CASE answer.kind = "silent"
    <3>1. counter = "silent"
      BY <2>1, Zenon DEF Counter
    <3>2. QED
      BY <1>2, <2>1, <3>1 DEF Plain
  <2>2. CASE answer.kind = "data"
    <3>1. counter = "answered"
      BY <2>2, Zenon DEF Counter
    <3>2. QED
      BY <2>2, <3>1 DEF Silent
  <2>3. CASE answer.kind \notin {"silent", "data"}
    <3>1. counter = "exceptions"
      BY <2>3, Zenon DEF Counter
    <3>2. QED
      BY <2>3, <3>1 DEF Silent
  <2>4. QED
    BY <2>1, <2>2, <2>3
<1> HIDE DEF answer, counter
<1>4. SessionsInv'
  BY <1>1, <1>3 DEF CountsInv, SessionsInv, InHandler, InAnswer
<1>5. c \in Busy /\ Busy' = Busy \ {c}
  BY <1>1 DEF CountsInv, SessionsInv, Busy, Idle
<1>6. (c \in Mute <=> answer = Silent) /\ Mute' = Mute \ {c}
  BY <1>1 DEF CountsInv, SessionsInv, Mute, Idle, answer
<1>7. /\ Cardinality(Busy) \in Nat /\ Cardinality(Busy') = Cardinality(Busy) - 1
      /\ Cardinality(Mute) \in Nat
      /\ Cardinality(Mute') = Cardinality(Mute) - (IF answer = Silent THEN 1 ELSE 0)
  BY <1>5, <1>6, SetsAreFinite, FS_RemoveElement, FS_CardinalityType
<1>8. Sums'
  BY <1>1, <1>3, <1>7 DEF CountsInv, SessionsInv, Sums
<1>9. QED
  BY <1>4, <1>8 DEF CountsInv

\* Every step keeps the counts.
LEMMA StepCounts == CountsInv /\ [Next]_vars => CountsInv'
<1> SUFFICES ASSUME CountsInv, [Next]_vars PROVE CountsInv'
  OBVIOUS
<1>1. ASSUME session' = session, stats' = stats, config' = config PROVE CountsInv'
  BY <1>1 DEF CountsInv, SessionsInv, Sums, Busy, Mute, InHandler, InAnswer
<1>2. CASE Prepare \/ Listen \/ Stop \/ Cancel \/ Tick
  BY <1>1, <1>2 DEF Prepare, Listen, Stop, Cancel, Tick
<1>3. ASSUME NEW c \in Clients, NEW r \in Asked, Arrive(c, r) PROVE CountsInv'
  BY <1>3, ArriveKeepsCounts
<1>4. ASSUME NEW c \in Clients, Handle(c) PROVE CountsInv'
  BY <1>4, HandleKeepsCounts
<1>5. ASSUME NEW c \in Clients, Deliver(c) PROVE CountsInv'
  BY <1>5, DeliverKeepsCounts
<1>6. CASE UNCHANGED vars
  BY <1>1, <1>6 DEF vars
<1>7. QED
  BY <1>2, <1>3, <1>4, <1>5, <1>6 DEF Next
-----------------------------------------------------------------------------
(* The devices.                                                            *)

\* What the devices were built from, and sessions with requests that were asked
\* and answers that hold the latest samples.
Good(s) ==
  s.at = "answered" /\ ~NotServed(s.req) /\ s.req.unit \in DOMAIN devices =>
    AnswerHolds(s.req, s.t, s.answer)
AnswersInv ==
  /\ capture \in Captures /\ config \in Configs /\ elapsed \in Nat
  /\ step = "prepare" => \A c \in Clients : session[c] = Idle
  /\ \A u \in DOMAIN devices : BuiltDevice(u)
  /\ \A c \in Clients : (session[c] # Idle => session[c].req \in Asked) /\ Good(session[c])

\* What an answer has to hold depends on the file, the flags and the targets.
LEMMA GoodStays ==
  ASSUME UNCHANGED <<capture, config, served, devices>>, NEW s
  PROVE  Good(s)' <=> Good(s)
<1>1. ASSUME NEW r, NEW t, NEW answer PROVE AnswerHolds(r, t, answer)' <=> AnswerHolds(r, t, answer)
  BY DEF AnswerHolds, HeldAddress, HeldObject, HeldResponse, Held, SamplesOf, ZeroFilled
<1>2. QED
  BY <1>1, Zenon DEF Good

\* At the start there is no device and no session.
LEMMA InitAnswers == Init => AnswersInv
<1> SUFFICES ASSUME Init PROVE AnswersInv
  OBVIOUS
<1>1. DOMAIN devices = {} /\ \A c \in Clients : session[c] = Idle
  BY DEF Init
<1>2. \A c \in Clients : Good(session[c])
  BY <1>1 DEF Good, Idle
<1>3. QED
  BY <1>1, <1>2 DEF Init, AnswersInv

\* The devices are built before there is a session.
LEMMA PrepareKeepsAnswers ==
  ASSUME AnswersInv, Prepare
  PROVE  AnswersInv'
<1>1. /\ UNCHANGED <<capture, config, elapsed, session>> /\ step = "prepare" /\ step' # "prepare"
      /\ \A c \in Clients : session[c] = Idle
  BY DEF AnswersInv, Prepare, Return
<1>2. \A c \in Clients : Good(session[c])'
  BY <1>1 DEF Good, Idle
<1>3. \A u \in DOMAIN devices' : BuiltDevice(u)'
  <2>1. CASE UNCHANGED <<devices, served>>
    BY <1>1, <2>1 DEF AnswersInv, BuiltDevice, Supported
  <2>2. CASE ~UNCHANGED <<devices, served>>
    <3> DEFINE all == {UnitOf(x) : x \in Chosen}
               chosen == [u \in all |-> CHOOSE x \in Chosen : UnitOf(x) = u]
    <3>1. PICK units, target :
            /\ Servable /\ served' = target
            /\ devices' = [u \in units |-> Build(capture.samples, target[u])]
      <4>1. /\ Servable /\ served' = chosen
            /\ devices' = [u \in all |-> Build(capture.samples, chosen[u])]
        BY <2>2, Zenon DEF Prepare
      <4> HIDE DEF all, chosen
      <4>2. QED
        BY <4>1
    <3>2. Supported'
      BY <1>1, <3>1 DEF Supported, Servable
    <3>3. DOMAIN devices' = units
      BY <3>1
    <3>4. \A u \in units : devices'[u] = Build(capture.samples, target[u])
      BY <3>1
    <3>5. QED
      BY <1>1, <3>1, <3>2, <3>3, <3>4 DEF BuiltDevice
  <2>3. QED
    BY <2>1, <2>2
<1>4. QED
  BY <1>1, <1>2, <1>3 DEF AnswersInv

\* One session moves on.
LEMMA SessionKeepsAnswers ==
  ASSUME CountsInv, AnswersInv, NEW c \in Clients, NEW s, session' = [session EXCEPT ![c] = s],
         UNCHANGED <<capture, config, served, devices, elapsed, step>>, step # "prepare",
         s # Idle => s.req \in Asked, Good(s)
  PROVE  AnswersInv'
<1>1. \A x \in Clients : session'[x] = IF x = c THEN s ELSE session[x]
  BY DEF CountsInv, SessionsInv
<1>2. \A x \in Clients : Good(session'[x])
  BY <1>1 DEF AnswersInv
<1>3. \A x \in Clients : Good(session[x])'
  <2> TAKE x \in Clients
  <2>1. PICK y : y = session'[x]
    OBVIOUS
  <2>2. Good(y)'
    BY <1>2, <2>1, GoodStays
  <2>3. QED
    BY <2>1, <2>2, Zenon DEF Good
<1>4. \A x \in Clients : session'[x] # Idle => session'[x].req \in Asked
  BY <1>1 DEF AnswersInv
<1>5. \A u \in DOMAIN devices' : BuiltDevice(u)'
  BY DEF AnswersInv, BuiltDevice, Supported
<1>6. QED
  BY <1>3, <1>4, <1>5 DEF AnswersInv

\* The handler answers from the devices as of one time.
LEMMA HandleKeepsAnswers ==
  ASSUME CountsInv, AnswersInv, NEW c \in Clients, Handle(c)
  PROVE  AnswersInv'
<1>1. PICK r, t, answer, s :
        /\ r = session[c].req /\ t = Now /\ answer = Answer(r, t)
        /\ s = [at |-> "answered", req |-> r, t |-> t, answer |-> answer]
  OBVIOUS
<1>2. /\ session[c].at = "handler" /\ step = "serve" /\ session' = [session EXCEPT ![c] = s]
      /\ UNCHANGED <<capture, config, served, devices, elapsed, step>>
  BY <1>1, Zenon DEF Handle
<1>3. r \in Asked
  BY <1>1, <1>2 DEF AnswersInv, Idle
<1>4. t \in Int
  BY <1>1, NowIs DEF AnswersInv
<1>5. s.req = r /\ s.t = t /\ s.answer = answer
  BY <1>1
<1>6. ASSUME ~NotServed(r), r.unit \in DOMAIN devices PROVE AnswerHolds(r, t, answer)
  BY <1>1, <1>3, <1>4, <1>6, AnswerIsHeld DEF AnswersInv
<1>7. Good(s)
  BY <1>5, <1>6, Zenon DEF Good
<1>8. QED
  BY <1>2, <1>3, <1>5, <1>7, SessionKeepsAnswers

\* Every step keeps the answers: devices and file stay what they are.
LEMMA StepAnswers == CountsInv /\ AnswersInv /\ [Next]_vars => AnswersInv'
<1> SUFFICES ASSUME CountsInv, AnswersInv, [Next]_vars PROVE AnswersInv'
  OBVIOUS
<1>1. ASSUME UNCHANGED <<capture, config, served, devices, session>>, elapsed' \in Nat,
             step' = "prepare" => step = "prepare"
      PROVE  AnswersInv'
  <2>1. \A c \in Clients : Good(session[c])'
    <3> TAKE c \in Clients
    <3>1. PICK s : s = session[c] /\ s = session'[c]
      BY <1>1
    <3>2. Good(s)'
      BY <1>1, <3>1, GoodStays DEF AnswersInv
    <3>3. QED
      BY <3>1, <3>2, Zenon DEF Good
  <2>2. \A u \in DOMAIN devices' : BuiltDevice(u)'
    BY <1>1 DEF AnswersInv, BuiltDevice, Supported
  <2>3. QED
    BY <1>1, <2>1, <2>2 DEF AnswersInv
<1>2. CASE Prepare
  BY <1>2, PrepareKeepsAnswers
<1>3. CASE Listen \/ Stop \/ Cancel \/ Tick
  BY <1>1, <1>3 DEF AnswersInv, Listen, Stop, Cancel, Tick, Return
<1>4. ASSUME NEW c \in Clients, NEW r \in Asked, Arrive(c, r) PROVE AnswersInv'
  <2>1. PICK s : s = [at |-> "handler", req |-> r]
    OBVIOUS
  <2>2. /\ step = "serve" /\ session' = [session EXCEPT ![c] = s]
        /\ UNCHANGED <<capture, config, served, devices, elapsed, step>>
    BY <1>4, <2>1 DEF Arrive
  <2>3. s.req \in Asked /\ Good(s)
    BY <2>1 DEF Good
  <2>4. QED
    BY <2>2, <2>3, SessionKeepsAnswers
<1>5. ASSUME NEW c \in Clients, Handle(c) PROVE AnswersInv'
  BY <1>5, HandleKeepsAnswers
<1>6. ASSUME NEW c \in Clients, Deliver(c) PROVE AnswersInv'
  <2>1. /\ step = "serve" /\ session' = [session EXCEPT ![c] = Idle]
        /\ UNCHANGED <<capture, config, served, devices, elapsed, step>>
    BY <1>6 DEF Deliver
  <2>2. Good(Idle)
    BY DEF Good, Idle
  <2>3. QED
    BY <2>1, <2>2, SessionKeepsAnswers
<1>7. CASE UNCHANGED vars
  BY <1>1, <1>7 DEF vars, AnswersInv
<1>8. QED
  BY <1>2, <1>3, <1>4, <1>5, <1>6, <1>7 DEF Next
-----------------------------------------------------------------------------
(* The theorems.                                                           *)

IInv == CountsInv /\ AnswersInv

\* The inductive invariant.
LEMMA InvHolds == Spec => []IInv
<1>1. Init => IInv
  BY InitCounts, InitAnswers DEF IInv
<1>2. IInv /\ [Next]_vars => IInv'
  BY StepCounts, StepAnswers DEF IInv
<1>3. QED
  BY <1>1, <1>2, PTL DEF Spec

\* At every moment the summary of a server accounts for all requests, answered,
\* refused, left unanswered or in progress; and under --missing silence it
\* leaves unanswered what it counts as unrecorded, and nothing else.
THEOREM SummaryAccounts == Spec => []CountersAddUp
<1>1. IInv => CountersAddUp
  BY Zenon DEF IInv, CountsInv, Sums, CountersAddUp, Busy, Mute
<1>2. QED
  BY <1>1, InvHolds, PTL

\* Every answer, to any request of any client and at any time, is what the
\* samples of the target say: of each address, object or request the latest
\* sample at or before the replay time, or the first under --before-first
\* hold, in whatever order the file has them; only --missing zero adds to it.
THEOREM AnswersHoldLatest == Spec => []HoldsLatest
<1>1. IInv => HoldsLatest
  BY Zenon DEF IInv, AnswersInv, Good, HoldsLatest
<1>2. QED
  BY <1>1, InvHolds, PTL

\* From one tick to the next the replay time stays in the window and goes on at
\* the chosen speed, to a tick, except at the start of a round; after the last
\* round it stays at the end.
THEOREM ReplayKeepsPace == Spec => ClockKeepsPace
<1> DEFINE Paced ==
             elapsed' # elapsed /\ ~IsStatic =>
               LET advance == (Now' - Now) * config.den
               IN /\ Now' \in Clock.from .. Clock.to
                  /\ IF config.loops > 0 /\ Round(elapsed') >= config.loops
                     THEN Now' = Clock.to
                     ELSE /\ Clock.from < Clock.to => Now' < Clock.to
                          /\ Round(elapsed') = Round(elapsed) /\ Clock.from < Clock.to =>
                               advance > config.num - config.den
                               /\ advance < config.num + config.den
<1>1. ASSUME IInv, [Next]_vars PROVE Paced
  <2> SUFFICES ASSUME elapsed' # elapsed, ~IsStatic PROVE Paced
    BY Zenon
  <2>1. Tick
    BY <1>1 DEF Next, vars, Prepare, Listen, Stop, Cancel, Arrive, Handle, Deliver
  <2>2. capture \in Captures /\ config \in Configs /\ elapsed \in Nat
    BY <1>1 DEF IInv, AnswersInv
  <2>3. PICK clock, e : clock = Clock /\ e = elapsed
    OBVIOUS
  <2>4. UNCHANGED <<capture, config>> /\ elapsed' = e + 1
    BY <2>1, <2>3 DEF Tick
  <2>5. Clock' = clock /\ ~IsStatic'
    BY <2>3, <2>4 DEF Clock, CaptureEnd, IsStatic
  <2>6. Now = ClockAt(clock, e) /\ Now' = ClockAt(clock, e + 1)
    BY <2>3, <2>4, <2>5, Zenon DEF Now
  <2>7. ClockTyped(clock) /\ e \in Nat /\ clock.num = config.num /\ clock.den = config.den
    BY <2>2, <2>3, ClockIs, Zenon
  <2>8. clock.loops = config.loops
    BY <2>3 DEF Clock
  <2>9. Round(elapsed) = RoundOf(clock, e) /\ Round(elapsed') = RoundOf(clock, e + 1)
    BY <2>3, <2>4, Zenon DEF Round, RoundOf
  <2>10. Pace(clock, Now, Now', Round(elapsed), Round(elapsed'))
    BY <2>6, <2>7, <2>9, TickKeepsPace
  <2>11. QED
    BY <2>3, <2>7, <2>8, <2>10, Zenon DEF Pace
<1>2. QED
  BY <1>1, InvHolds, PTL DEF Spec, ClockKeepsPace
=============================================================================
