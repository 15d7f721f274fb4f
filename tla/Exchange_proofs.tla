-------------------------- MODULE Exchange_proofs --------------------------
(***************************************************************************)
(* Proofs about the capture recorder, for any number of callers, attempts  *)
(* and PDUs and any flush interval, and about the exchange on a link, for  *)
(* any number of attempts and of exchanges, with and without a delay, and  *)
(* whatever the capture does.                                              *)
(***************************************************************************)
EXTENDS Exchange, WellFoundedInduction, TLAPS

(* Sequences and the reads among some PDUs.                                *)

\* A set of natural numbers has a least element.
LEMMA LeastElement ==
  ASSUME NEW S, S \subseteq Nat, S # {}
  PROVE  \E n \in S : \A m \in S : n <= m
<1>1. PICK n \in S : \A m \in S : <<m, n>> \notin OpToRel(<, Nat)
  BY NatLessThanWellFounded, WFMin
<1>2. \A m \in S : ~(m < n)
  BY <1>1 DEF OpToRel
<1>3. QED
  BY <1>2

\* Induction over the natural numbers, for a set.
LEMMA SetInduction ==
  ASSUME NEW T, 0 \in T, \A n \in Nat : n \in T => n + 1 \in T
  PROVE  Nat \subseteq T
<1> SUFFICES ASSUME Nat \ T # {} PROVE FALSE
  OBVIOUS
<1>1. PICK n \in Nat \ T : \A m \in Nat \ T : n <= m
  <2>1. Nat \ T \subseteq Nat
    OBVIOUS
  <2>2. QED
    BY <2>1, LeastElement
<1>2. n # 0 /\ n - 1 \in Nat /\ n - 1 < n
  OBVIOUS
<1>3. n - 1 \in T
  BY <1>1, <1>2
<1>4. QED
  BY <1>2, <1>3

\* The recursive function ReadsAmong(exs) exists, and its equation holds.
LEMMA ReadsAmongIs ==
  ASSUME NEW exs \in Seq(PDU)
  PROVE  ReadsAmong(exs) =
           [n \in 0 .. Len(exs) |->
              IF n = 0 THEN <<>>
              ELSE IF exs[n].kind = "write" THEN ReadsAmong(exs)[n - 1]
              ELSE Append(ReadsAmong(exs)[n - 1], exs[n])]
<1> DEFINE Upto(m, f) ==
             [n \in 0 .. m |->
                IF n = 0 THEN <<>>
                ELSE IF exs[n].kind = "write" THEN f[n - 1] ELSE Append(f[n - 1], exs[n])]
           T == {m \in Nat : \E f : f = Upto(m, f)}
<1>1. 0 \in T
  <2>1. [n \in 0 .. 0 |-> <<>>] = Upto(0, [n \in 0 .. 0 |-> <<>>])
    OBVIOUS
  <2>2. QED
    BY <2>1
<1>2. ASSUME NEW m \in Nat, m \in T PROVE m + 1 \in T
  <2>1. PICK f : f = Upto(m, f)
    BY <1>2
  <2> DEFINE g == [n \in 0 .. m + 1 |->
                     IF n \in 0 .. m THEN f[n]
                     ELSE IF exs[n].kind = "write" THEN f[n - 1] ELSE Append(f[n - 1], exs[n])]
  <2>2. g = Upto(m + 1, g)
    <3>1. \A n \in 0 .. m + 1 : g[n] = Upto(m + 1, g)[n]
      <4> SUFFICES ASSUME NEW n \in 0 .. m + 1 PROVE g[n] = Upto(m + 1, g)[n]
        OBVIOUS
      <4>1. CASE n = 0
        BY <2>1, <4>1
      <4>2. CASE n \in 1 .. m
        <5>1. f[n] = IF exs[n].kind = "write" THEN f[n - 1] ELSE Append(f[n - 1], exs[n])
          <6>1. f[n] = Upto(m, f)[n]
            <7> HIDE DEF Upto
            <7>1. QED
              BY <2>1
          <6>2. Upto(m, f)[n] = IF exs[n].kind = "write" THEN f[n - 1] ELSE Append(f[n - 1], exs[n])
            BY <4>2
          <6>3. QED
            BY <6>1, <6>2
        <5>2. g[n] = f[n] /\ g[n - 1] = f[n - 1]
          BY <4>2
        <5>3. QED
          BY <4>2, <5>1, <5>2
      <4>3. CASE n = m + 1
        <5>1. g[n - 1] = f[n - 1] /\ n # 0 /\ n \notin 0 .. m
          BY <4>3
        <5>2. QED
          BY <5>1
      <4>4. QED
        BY <4>1, <4>2, <4>3
    <3>2. QED
      BY <3>1
  <2>3. \E h : h = Upto(m + 1, h)
    <3> HIDE DEF Upto, g
    <3>1. QED
      BY <2>2
  <2>4. QED
    BY <2>3
<1>3. PICK reads : reads = Upto(Len(exs), reads)
  <2>1. Len(exs) \in T
    <3> HIDE DEF T
    <3>1. QED
      BY <1>1, <1>2, SetInduction
  <2>2. QED
    BY <2>1
<1>4. ReadsAmong(exs) = CHOOSE f : f = Upto(Len(exs), f)
  BY DEF ReadsAmong
<1> HIDE DEF Upto
<1>5. ReadsAmong(exs) = Upto(Len(exs), ReadsAmong(exs))
  BY <1>3, <1>4
<1> USE DEF Upto
<1>6. QED
  BY <1>5

\* One step of it: a write is skipped, any other PDU is appended.
LEMMA ReadsAmongStep ==
  ASSUME NEW exs \in Seq(PDU)
  PROVE  /\ ReadsAmong(exs)[0] = <<>>
         /\ \A n \in 1 .. Len(exs) :
              ReadsAmong(exs)[n] = IF exs[n].kind = "write" THEN ReadsAmong(exs)[n - 1]
                                   ELSE Append(ReadsAmong(exs)[n - 1], exs[n])
<1> DEFINE Step(f) == [n \in 0 .. Len(exs) |->
                         IF n = 0 THEN <<>>
                         ELSE IF exs[n].kind = "write" THEN f[n - 1] ELSE Append(f[n - 1], exs[n])]
<1>1. ReadsAmong(exs) = Step(ReadsAmong(exs))
  BY ReadsAmongIs
<1>2. \A n \in 0 .. Len(exs) : ReadsAmong(exs)[n] = Step(ReadsAmong(exs))[n]
  <2> HIDE DEF Step
  <2>1. QED
    BY <1>1
<1>3. QED
  BY <1>2

\* The reads among some PDUs are some of them.
LEMMA ReadsAmongType ==
  ASSUME NEW exs \in Seq(PDU)
  PROVE  \A n \in 0 .. Len(exs) :
           ReadsAmong(exs)[n] \in Seq({exs[i] : i \in DOMAIN exs})
<1> DEFINE Range == {exs[i] : i \in DOMAIN exs}
           T == {n \in Nat : n \in 0 .. Len(exs) => ReadsAmong(exs)[n] \in Seq(Range)}
<1>1. 0 \in T
  <2>1. ReadsAmong(exs)[0] = <<>>
    BY ReadsAmongStep
  <2> HIDE DEF Range
  <2>2. <<>> \in Seq(Range)
    OBVIOUS
  <2>3. QED
    BY <2>1, <2>2
<1>2. ASSUME NEW n \in Nat, n \in T PROVE n + 1 \in T
  <2> SUFFICES ASSUME n + 1 \in 0 .. Len(exs) PROVE ReadsAmong(exs)[n + 1] \in Seq(Range)
    OBVIOUS
  <2>1. ReadsAmong(exs)[n] \in Seq(Range) /\ exs[n + 1] \in Range
    BY <1>2
  <2>2. ReadsAmong(exs)[n + 1] = IF exs[n + 1].kind = "write" THEN ReadsAmong(exs)[n]
                                 ELSE Append(ReadsAmong(exs)[n], exs[n + 1])
    BY ReadsAmongStep
  <2> HIDE DEF Range
  <2>3. QED
    BY <2>1, <2>2
<1> HIDE DEF T
<1>3. Nat \subseteq T
  BY <1>1, <1>2, SetInduction
<1> USE DEF T
<1>4. QED
  BY <1>3

\* The reads among the first m PDUs begin the reads among all.
LEMMA ReadsAmongGrow ==
  ASSUME NEW exs \in Seq(PDU), NEW m \in 0 .. Len(exs)
  PROVE  LET R == ReadsAmong(exs)
         IN \A n \in m .. Len(exs) :
              Len(R[m]) <= Len(R[n]) /\ \A i \in 1 .. Len(R[m]) : R[m][i] = R[n][i]
<1> DEFINE R == ReadsAmong(exs)
           Begins(n) == Len(R[m]) <= Len(R[n]) /\ \A i \in 1 .. Len(R[m]) : R[m][i] = R[n][i]
           T == {k \in Nat : m + k <= Len(exs) => Begins(m + k)}
           Range == {exs[i] : i \in DOMAIN exs}
<1> HIDE DEF R
<1>1. \A n \in 0 .. Len(exs) : R[n] \in Seq(Range)
  BY ReadsAmongType DEF R
<1>2. 0 \in T
  BY <1>1
<1>3. ASSUME NEW k \in Nat, k \in T PROVE k + 1 \in T
  <2> SUFFICES ASSUME m + k + 1 <= Len(exs) PROVE Begins(m + k + 1)
    OBVIOUS
  <2>1. Begins(m + k)
    BY <1>3
  <2>2. m + k + 1 \in 1 .. Len(exs) /\ (m + k + 1) - 1 = m + k
    OBVIOUS
  <2>3. R[m + k + 1] = IF exs[m + k + 1].kind = "write" THEN R[m + k]
                       ELSE Append(R[m + k], exs[m + k + 1])
    BY <2>2, ReadsAmongStep DEF R
  <2>4. R[m + k] \in Seq(Range) /\ R[m] \in Seq(Range) /\ exs[m + k + 1] \in Range
    BY <1>1, <2>2
  <2> HIDE DEF Range
  <2>5. QED
    BY <2>1, <2>3, <2>4
<1> HIDE DEF T
<1>4. Nat \subseteq T
  BY <1>2, <1>3, SetInduction
<1>5. ASSUME NEW n \in m .. Len(exs) PROVE Begins(n)
  <2>1. n - m \in T /\ m + (n - m) = n
    BY <1>4
  <2>2. QED
    BY <2>1 DEF T
<1>6. QED
  BY <1>5 DEF R

\* Where nothing is written, the reads are all PDUs.
LEMMA ReadsAmongReads ==
  ASSUME NEW exs \in Seq(PDU), \A i \in DOMAIN exs : exs[i].kind # "write"
  PROVE  ReadsAmong(exs)[Len(exs)] = exs
<1> DEFINE R == ReadsAmong(exs)
           Same(n) == R[n] = SubSeq(exs, 1, n)
           T == {n \in Nat : n <= Len(exs) => Same(n)}
<1> HIDE DEF R
<1>1. 0 \in T
  <2>1. R[0] = <<>>
    BY ReadsAmongStep DEF R
  <2>2. SubSeq(exs, 1, 0) = <<>>
    OBVIOUS
  <2>3. QED
    BY <2>1, <2>2
<1>2. ASSUME NEW n \in Nat, n \in T PROVE n + 1 \in T
  <2> SUFFICES ASSUME n + 1 <= Len(exs) PROVE Same(n + 1)
    OBVIOUS
  <2>1. n + 1 \in 1 .. Len(exs) /\ (n + 1) - 1 = n
    OBVIOUS
  <2>2. R[n + 1] = Append(R[n], exs[n + 1])
    <3>1. exs[n + 1].kind # "write"
      BY <2>1
    <3>2. R[n + 1] = IF exs[n + 1].kind = "write" THEN R[(n + 1) - 1] ELSE Append(R[(n + 1) - 1], exs[n + 1])
      BY <2>1, ReadsAmongStep DEF R
    <3>3. QED
      BY <2>1, <3>1, <3>2
  <2>3. R[n] = SubSeq(exs, 1, n)
    BY <1>2
  <2>4. Append(SubSeq(exs, 1, n), exs[n + 1]) = SubSeq(exs, 1, n + 1)
    <3> DEFINE s == Append(SubSeq(exs, 1, n), exs[n + 1])
               t == SubSeq(exs, 1, n + 1)
    <3>1. s \in Seq(PDU) /\ t \in Seq(PDU) /\ Len(s) = n + 1 /\ Len(t) = n + 1
      BY <2>1
    <3>2. \A i \in 1 .. n + 1 : s[i] = t[i]
      BY <2>1
    <3> HIDE DEF s, t
    <3>3. QED
      BY <3>1, <3>2
  <2>5. QED
    BY <2>2, <2>3, <2>4
<1> HIDE DEF T
<1>3. Len(exs) \in T
  BY <1>1, <1>2, SetInduction
<1>4. Same(Len(exs))
  BY <1>3 DEF T
<1>5. SubSeq(exs, 1, Len(exs)) = exs
  OBVIOUS
<1>6. QED
  BY <1>4, <1>5 DEF R

\* What Commit hands to the writer of some PDUs: the first of the reads, all of
\* them unless it meets a PDU that is no read.
LEMMA RecordableIs ==
  ASSUME NEW exs \in Seq(PDU)
  PROVE  LET reads == ReadsAmong(exs)[Len(exs)]
         IN /\ reads \in Seq({exs[i] : i \in DOMAIN exs})
            /\ Recordable(exs) \in Seq({exs[i] : i \in DOMAIN exs})
            /\ Len(Recordable(exs)) <= Len(reads)
            /\ \A i \in 1 .. Len(Recordable(exs)) : Recordable(exs)[i] = reads[i]
            /\ Unknown(exs) = {} => Recordable(exs) = reads
<1>1. \E m \in 0 .. Len(exs) :
        /\ Recordable(exs) = ReadsAmong(exs)[m]
        /\ Unknown(exs) = {} => m = Len(exs)
  <2>1. CASE Unknown(exs) = {}
    BY <2>1 DEF Recordable
  <2>2. CASE Unknown(exs) # {}
    <3> DEFINE least == CHOOSE i \in Unknown(exs) : \A j \in Unknown(exs) : i <= j
    <3>1. Unknown(exs) \subseteq 1 .. Len(exs)
      BY DEF Unknown
    <3>2. \E i \in Unknown(exs) : \A j \in Unknown(exs) : i <= j
      <4>1. Unknown(exs) \subseteq Nat
        BY <3>1
      <4>2. QED
        BY <2>2, <4>1, LeastElement
    <3>3. least \in 1 .. Len(exs)
      BY <3>1, <3>2
    <3>4. Recordable(exs) = ReadsAmong(exs)[least - 1]
      BY <2>2 DEF Recordable
    <3> HIDE DEF least
    <3>5. QED
      BY <2>2, <3>3, <3>4
  <2>3. QED
    BY <2>1, <2>2
<1>2. PICK m \in 0 .. Len(exs) :
        /\ Recordable(exs) = ReadsAmong(exs)[m]
        /\ Unknown(exs) = {} => m = Len(exs)
  BY <1>1
<1>3. Len(exs) \in m .. Len(exs) /\ Len(exs) \in 0 .. Len(exs)
  OBVIOUS
<1>4. QED
  BY <1>2, <1>3, ReadsAmongType, ReadsAmongGrow
-----------------------------------------------------------------------------
\* An attempt in progress has not ended, and all it exchanged is pending.
InProgress ==
  \A c \in Callers : token[c] # 0 =>
    /\ ending[token[c]].outcome = "none"
    /\ pending[token[c]] = heard[token[c]]

\* An attempt that has not begun has not ended and exchanged nothing.
NotBegun ==
  \A tok \in Tokens : tok > nextTok =>
    ending[tok].outcome = "none" /\ heard[tok] = <<>> /\ pending[tok] = <<>>

\* No PDU was exchanged in the future.
PastPDUs == \A tok \in Tokens : \A i \in DOMAIN heard[tok] : heard[tok][i].at <= now

RecIInv ==
  /\ RecTypeOK /\ InProgress /\ NotBegun /\ NothingLingers /\ PastPDUs
  /\ CaptureHoldsAccepted /\ UnflushedAreRecent
-----------------------------------------------------------------------------
\* The invariant holds before the first attempt.
LEMMA RecInitInv == RecInit => RecIInv
<1> SUFFICES ASSUME RecInit PROVE RecIInv
  OBVIOUS
<1> USE RecorderAssumption DEF RecInit
<1>1. RecTypeOK
  <2>1. pending \in [Tokens -> Seq(PDU)] /\ heard \in [Tokens -> Seq(PDU)]
        /\ samples \in Seq(Sample)
    OBVIOUS
  <2>2. /\ nextTok \in 0 .. MaxAttempts /\ now \in 0 .. MaxTime /\ lastFlush \in 0 .. now
        /\ token \in [Callers -> 0 .. nextTok]
        /\ \A c, d \in Callers : token[c] = token[d] /\ token[c] # 0 => c = d
    OBVIOUS
  <2>5. flushed \in 0 .. Len(samples)
    <3>1. Len(<<>>) = 0
      OBVIOUS
    <3>2. QED
      BY <3>1
  <2>6. closed \in BOOLEAN
    BY Zenon
  <2>3. ending \in [Tokens -> [outcome : Outcomes \cup {"none"}, kept : {"all", "some", "late"}]]
    OBVIOUS
  <2>4. QED
    BY <2>1, <2>2, <2>3, <2>5, <2>6 DEF RecTypeOK
<1>2. InProgress /\ NotBegun /\ NothingLingers /\ PastPDUs
  BY DEF InProgress, NotBegun, NothingLingers, PastPDUs
<1>3. CaptureHoldsAccepted
  BY DEF CaptureHoldsAccepted, HoldsWhatIsAccepted, Accepted, SamplesAt
<1>4. UnflushedAreRecent
  BY DEF UnflushedAreRecent
<1>5. QED
  BY <1>1, <1>2, <1>3, <1>4 DEF RecIInv

\* The attempt a caller has in progress is one that was given out.
LEMMA HeldToken ==
  ASSUME RecIInv, NEW c \in Callers, token[c] # 0
  PROVE  token[c] \in Tokens /\ token[c] \in 1 .. nextTok
  BY RecorderAssumption DEF RecIInv, RecTypeOK, Tokens

\* Where the capture does not change and no attempt ends, it holds what it held.
LEMMA CaptureStays ==
  ASSUME CaptureHoldsAccepted, samples' = samples, ending' = ending,
         \A t \in Tokens : ending[t].outcome = "none" \/ heard'[t] = heard[t]
  PROVE  CaptureHoldsAccepted'
<1> SUFFICES ASSUME NEW t \in Tokens PROVE HoldsWhatIsAccepted(t)'
  BY DEF CaptureHoldsAccepted
<1>1. SamplesAt(t)' = SamplesAt(t) /\ (Accepted(t)' <=> Accepted(t))
  BY DEF SamplesAt, Accepted
<1>2. HoldsWhatIsAccepted(t)
  BY DEF CaptureHoldsAccepted
<1>3. CASE ending[t].outcome = "none"
  BY <1>1, <1>2, <1>3 DEF HoldsWhatIsAccepted, Accepted
<1>4. CASE heard'[t] = heard[t]
  <2>1. ReadsOf(t)' = ReadsOf(t)
    BY <1>4 DEF ReadsOf
  <2>2. ASSUME NEW n PROVE Holds(t, n)' <=> Holds(t, n)
    BY <1>1, <2>1 DEF Holds
  <2>3. QED
    BY <1>1, <1>2, <2>1, <2>2 DEF HoldsWhatIsAccepted
<1>5. QED
  BY <1>3, <1>4

\* Nothing happens.
LEMMA StutterKeepsInv == ASSUME RecIInv, UNCHANGED recVars PROVE RecIInv'
<1>1. /\ now' = now /\ nextTok' = nextTok /\ token' = token /\ pending' = pending
      /\ samples' = samples /\ flushed' = flushed /\ lastFlush' = lastFlush
      /\ closed' = closed /\ heard' = heard /\ ending' = ending
  BY DEF recVars
<1>2. RecTypeOK'
  BY <1>1 DEF RecIInv, RecTypeOK
<1>3. InProgress' /\ NotBegun' /\ NothingLingers' /\ PastPDUs'
  BY <1>1 DEF RecIInv, InProgress, NotBegun, NothingLingers, PastPDUs
<1>4. CaptureHoldsAccepted'
  BY <1>1, CaptureStays DEF RecIInv
<1>5. UnflushedAreRecent'
  BY <1>1 DEF RecIInv, UnflushedAreRecent
<1>6. QED
  BY <1>2, <1>3, <1>4, <1>5 DEF RecIInv

\* The clock moves on.
LEMMA TickKeepsInv == ASSUME RecIInv, Tick PROVE RecIInv'
<1> USE RecorderAssumption
<1>1. /\ now' = now + 1 /\ now' \in 0 .. MaxTime
      /\ nextTok' = nextTok /\ token' = token /\ pending' = pending /\ samples' = samples
      /\ flushed' = flushed /\ lastFlush' = lastFlush /\ closed' = closed
      /\ heard' = heard /\ ending' = ending
  BY DEF Tick, RecIInv, RecTypeOK
<1>2. RecTypeOK'
  BY <1>1 DEF RecIInv, RecTypeOK
<1>3. InProgress' /\ NotBegun' /\ NothingLingers'
  BY <1>1 DEF RecIInv, InProgress, NotBegun, NothingLingers
<1>4. PastPDUs'
  <2> SUFFICES ASSUME NEW tok \in Tokens, NEW i \in DOMAIN heard[tok]
               PROVE  heard[tok][i].at <= now + 1
    BY <1>1 DEF PastPDUs
  <2>1. heard[tok] \in Seq(PDU)
    BY DEF RecIInv, RecTypeOK
  <2>2. heard[tok][i] \in PDU
    BY <2>1
  <2>3. heard[tok][i].at \in Nat /\ heard[tok][i].at <= now /\ now \in Nat
    BY <2>2 DEF RecIInv, PastPDUs, PDU, RecTypeOK
  <2>4. QED
    BY <2>3
<1>5. CaptureHoldsAccepted'
  BY <1>1, CaptureStays DEF RecIInv
<1>6. UnflushedAreRecent'
  BY <1>1 DEF RecIInv, UnflushedAreRecent
<1>7. QED
  BY <1>2, <1>3, <1>4, <1>5, <1>6 DEF RecIInv

\* Close adds nothing to the capture, and marks it closed.
LEMMA CloseKeepsInv == ASSUME RecIInv, Close PROVE RecIInv'
<1> USE RecorderAssumption
<1>1. /\ now' = now /\ closed' = TRUE /\ flushed' \in {flushed, Len(samples)}
      /\ nextTok' = nextTok /\ token' = token /\ pending' = pending /\ samples' = samples
      /\ lastFlush' = lastFlush /\ heard' = heard /\ ending' = ending
  BY DEF Close
<1>2. RecTypeOK'
  BY <1>1 DEF RecIInv, RecTypeOK
<1>3. InProgress' /\ NotBegun' /\ NothingLingers' /\ PastPDUs'
  BY <1>1 DEF RecIInv, InProgress, NotBegun, NothingLingers, PastPDUs
<1>4. CaptureHoldsAccepted'
  BY <1>1, CaptureStays DEF RecIInv
<1>5. UnflushedAreRecent'
  BY <1>1 DEF UnflushedAreRecent
<1>6. QED
  BY <1>2, <1>3, <1>4, <1>5 DEF RecIInv

\* A new attempt gets a token nobody holds and nobody held.
LEMMA BeginKeepsInv == ASSUME RecIInv, NEW c \in Callers, Begin(c) PROVE RecIInv'
<1> USE RecorderAssumption
<1>1. /\ token[c] = 0 /\ nextTok < MaxAttempts /\ nextTok' = nextTok + 1
      /\ token' = [token EXCEPT ![c] = nextTok + 1]
      /\ now' = now /\ pending' = pending /\ samples' = samples
      /\ flushed' = flushed /\ lastFlush' = lastFlush /\ closed' = closed
      /\ heard' = heard /\ ending' = ending
  BY DEF Begin, NewToken
<1>2. RecTypeOK'
  <2>1. nextTok' \in 0 .. MaxAttempts /\ token' \in [Callers -> 0 .. nextTok']
    BY <1>1 DEF RecIInv, RecTypeOK
  <2>2. \A d \in Callers : token[d] # nextTok + 1
    BY DEF RecIInv, RecTypeOK
  <2>3. \A d, e \in Callers : token'[d] = token'[e] /\ token'[d] # 0 => d = e
    BY <1>1, <2>2 DEF RecIInv, RecTypeOK
  <2>4. QED
    BY <1>1, <2>1, <2>3 DEF RecIInv, RecTypeOK
<1>3. nextTok + 1 \in Tokens /\ nextTok + 1 > nextTok
  BY <1>1 DEF RecIInv, RecTypeOK, Tokens
<1>4. InProgress'
  <2> SUFFICES ASSUME NEW d \in Callers, token'[d] # 0
               PROVE  ending[token'[d]].outcome = "none" /\ pending[token'[d]] = heard[token'[d]]
    BY <1>1 DEF InProgress
  <2>1. CASE d = c
    <3>1. token'[d] = nextTok + 1
      BY <1>1, <2>1 DEF RecIInv, RecTypeOK
    <3>2. QED
      BY <1>3, <3>1 DEF RecIInv, NotBegun
  <2>2. CASE d # c
    BY <1>1, <2>2 DEF RecIInv, InProgress, RecTypeOK
  <2>3. QED
    BY <2>1, <2>2
<1>5. NotBegun'
  <2>1. \A tok \in Tokens : tok > nextTok + 1 => tok > nextTok
    BY DEF RecIInv, RecTypeOK, Tokens
  <2>2. QED
    BY <1>1, <2>1 DEF RecIInv, NotBegun
<1>6. NothingLingers'
  <2> SUFFICES ASSUME NEW tok \in Tokens, pending[tok] # <<>>
               PROVE  \E d \in Callers : token'[d] = tok
    BY <1>1 DEF NothingLingers
  <2>1. PICK d \in Callers : token[d] = tok
    BY DEF RecIInv, NothingLingers
  <2>2. d # c
    BY <1>1, <2>1, RecorderAssumption DEF Tokens
  <2>3. QED
    BY <1>1, <2>1, <2>2 DEF RecIInv, RecTypeOK
<1>7. PastPDUs'
  BY <1>1 DEF RecIInv, PastPDUs
<1>8. CaptureHoldsAccepted'
  BY <1>1, CaptureStays DEF RecIInv
<1>9. UnflushedAreRecent'
  BY <1>1 DEF RecIInv, UnflushedAreRecent
<1>10. QED
  BY <1>2, <1>4, <1>5, <1>6, <1>7, <1>8, <1>9 DEF RecIInv

\* A PDU is filed under an attempt in progress, which the capture knows nothing of.
LEMMA OnPDUKeepsInv ==
  ASSUME RecIInv, NEW c \in Callers, NEW kind \in Kinds, OnPDU(c, kind)
  PROVE  RecIInv'
<1> USE RecorderAssumption
<1> DEFINE tok == token[c]
           pdu == [kind |-> kind, at |-> now]
<1>1. /\ tok # 0
      /\ pending' = [pending EXCEPT ![tok] = Append(@, pdu)]
      /\ heard' = [heard EXCEPT ![tok] = Append(@, pdu)]
      /\ now' = now /\ nextTok' = nextTok /\ token' = token /\ samples' = samples
      /\ flushed' = flushed /\ lastFlush' = lastFlush /\ closed' = closed /\ ending' = ending
  BY DEF OnPDU
<1>2. tok \in Tokens /\ tok \in 1 .. nextTok
  BY <1>1, HeldToken
<1>3. pdu \in PDU /\ pending[tok] \in Seq(PDU) /\ heard[tok] \in Seq(PDU)
  BY <1>2 DEF RecIInv, RecTypeOK, PDU
<1>4. ending[tok].outcome = "none"
  BY <1>1 DEF RecIInv, InProgress
<1> HIDE DEF pdu
<1>5. Append(pending[tok], pdu) \in Seq(PDU) /\ Append(heard[tok], pdu) \in Seq(PDU)
  BY <1>3
<1>6. /\ DOMAIN pending = Tokens /\ DOMAIN heard = Tokens
      /\ \A t \in Tokens : /\ pending'[t] = IF t = tok THEN Append(pending[t], pdu) ELSE pending[t]
                           /\ heard'[t] = IF t = tok THEN Append(heard[t], pdu) ELSE heard[t]
  BY <1>1 DEF RecIInv, RecTypeOK
<1> HIDE DEF tok
<1>7. RecTypeOK'
  <2>1. pending' \in [Tokens -> Seq(PDU)] /\ heard' \in [Tokens -> Seq(PDU)]
    BY <1>1, <1>2, <1>5 DEF RecIInv, RecTypeOK
  <2>2. QED
    BY <1>1, <2>1 DEF RecIInv, RecTypeOK
<1>8. InProgress'
  <2> SUFFICES ASSUME NEW d \in Callers, token[d] # 0
               PROVE  ending[token[d]].outcome = "none" /\ pending'[token[d]] = heard'[token[d]]
    BY <1>1 DEF InProgress
  <2>1. token[d] \in Tokens
    BY HeldToken
  <2>2. QED
    BY <1>6, <2>1 DEF RecIInv, InProgress
<1>9. NotBegun'
  BY <1>1, <1>2, <1>6 DEF RecIInv, NotBegun, RecTypeOK
<1>10. NothingLingers'
  BY <1>1, <1>2, <1>6 DEF RecIInv, NothingLingers, tok
<1>11. PastPDUs'
  <2> SUFFICES ASSUME NEW t \in Tokens, NEW i \in DOMAIN heard'[t] PROVE heard'[t][i].at <= now
    BY <1>1 DEF PastPDUs
  <2>1. CASE t # tok
    BY <1>6, <2>1 DEF RecIInv, PastPDUs
  <2>2. CASE t = tok
    <3>1. heard'[t] = Append(heard[t], pdu) /\ heard[t] \in Seq(PDU)
      BY <1>3, <1>6, <2>2
    <3>2. pdu.at <= now
      BY DEF pdu, RecIInv, RecTypeOK
    <3>3. CASE i = Len(heard[t]) + 1
      BY <3>1, <3>2, <3>3
    <3>4. CASE i # Len(heard[t]) + 1
      <4>1. i \in DOMAIN heard[t] /\ heard'[t][i] = heard[t][i]
        BY <3>1, <3>4
      <4>2. QED
        BY <4>1 DEF RecIInv, PastPDUs
    <3>5. QED
      BY <3>3, <3>4
  <2>3. QED
    BY <2>1, <2>2
<1>12. CaptureHoldsAccepted'
  <2>1. \A t \in Tokens : t # tok => heard'[t] = heard[t]
    BY <1>6
  <2>2. QED
    BY <1>1, <1>4, <2>1, CaptureStays DEF RecIInv
<1>13. UnflushedAreRecent'
  BY <1>1 DEF RecIInv, UnflushedAreRecent
<1>14. QED
  BY <1>7, <1>8, <1>9, <1>10, <1>11, <1>12, <1>13 DEF RecIInv

\* What Commit does: it ends the attempt, and hands the first n reads of it to
\* the writer.
Adds(c, outcome, kept, n) ==
  /\ Ended(c, outcome, kept)
  /\ n \in 0 .. Len(ReadsOf(token[c]))
  /\ samples' \in Seq(Sample) /\ Len(samples') = Len(samples) + n
  /\ \A i \in 1 .. Len(samples) : samples'[i] = samples[i]
  /\ \A i \in 1 .. n :
       samples'[Len(samples) + i] = [tok |-> token[c], pdu |-> ReadsOf(token[c])[i]]
  /\ kept = "all" /\ Keep(outcome) => n = Len(ReadsOf(token[c]))
  /\ kept = "late" \/ ~Keep(outcome) => n = 0

\* The flush that goes with it.
Flushes(kept, n) ==
  /\ flushed' \in 0 .. Len(samples') /\ flushed' >= flushed
  /\ lastFlush' \in {lastFlush, now}
  /\ kept = "all" /\ n > 0 =>
       flushed' = Len(samples') \/ (lastFlush' = lastFlush /\ now - lastFlush < FlushEvery)

\* Every Commit is one of these, whether it drops, writes or fails.
LEMMA CommitAdds ==
  ASSUME RecIInv, NEW c \in Callers, NEW outcome \in Outcomes,
         CommitDrops(c, outcome) \/ CommitWrites(c, outcome) \/ CommitFails(c, outcome)
  PROVE  \E kept \in {"all", "some", "late"}, n \in Nat :
           Adds(c, outcome, kept, n) /\ Flushes(kept, n)
<1> USE RecorderAssumption
<1> DEFINE tok == token[c]
           exs == heard[tok]
           added == SamplesOf(tok, Recordable(exs))
<1>1. tok # 0 /\ tok \in Tokens /\ tok \in 1 .. nextTok
  BY HeldToken DEF CommitDrops, CommitWrites, CommitFails
<1>2. pending[tok] = exs /\ exs \in Seq(PDU)
  BY <1>1 DEF RecIInv, InProgress, RecTypeOK
<1>3. /\ ReadsOf(tok) \in Seq(PDU) /\ Recordable(exs) \in Seq(PDU)
      /\ Len(Recordable(exs)) <= Len(ReadsOf(tok))
      /\ \A i \in 1 .. Len(Recordable(exs)) : Recordable(exs)[i] = ReadsOf(tok)[i]
      /\ Unknown(exs) = {} => Recordable(exs) = ReadsOf(tok)
  <2>1. {exs[i] : i \in DOMAIN exs} \subseteq PDU
    BY <1>2
  <2>2. Seq({exs[i] : i \in DOMAIN exs}) \subseteq Seq(PDU)
    BY <2>1
  <2>3. QED
    BY <1>2, <2>2, RecordableIs DEF ReadsOf
<1>4. /\ added \in Seq(Sample) /\ Len(added) = Len(Recordable(exs))
      /\ \A i \in 1 .. Len(added) : added[i] = [tok |-> tok, pdu |-> ReadsOf(tok)[i]]
  <2>1. \A i \in 1 .. Len(Recordable(exs)) : Recordable(exs)[i] \in PDU
    BY <1>3
  <2>2. \A i \in 1 .. Len(Recordable(exs)) : [tok |-> tok, pdu |-> Recordable(exs)[i]] \in Sample
    BY <1>1, <2>1 DEF Sample
  <2>3. added = [i \in 1 .. Len(Recordable(exs)) |-> [tok |-> tok, pdu |-> Recordable(exs)[i]]]
    BY <1>3 DEF SamplesOf
  <2>4. QED
    BY <1>3, <2>2, <2>3
<1>5. samples \in Seq(Sample) /\ flushed \in 0 .. Len(samples) /\ now \in Nat
      /\ lastFlush \in 0 .. now
  BY DEF RecIInv, RecTypeOK
<1> HIDE DEF added
<1>6. ASSUME NEW m \in 0 .. Len(added), samples' = samples \o SubSeq(added, 1, m)
      PROVE  /\ m \in 0 .. Len(ReadsOf(tok))
             /\ samples' \in Seq(Sample) /\ Len(samples') = Len(samples) + m
             /\ \A i \in 1 .. Len(samples) : samples'[i] = samples[i]
             /\ \A i \in 1 .. m : samples'[Len(samples) + i] = [tok |-> tok, pdu |-> ReadsOf(tok)[i]]
  <2>1. /\ SubSeq(added, 1, m) \in Seq(Sample) /\ Len(SubSeq(added, 1, m)) = m
        /\ \A i \in 1 .. m : SubSeq(added, 1, m)[i] = added[i]
    BY <1>4
  <2>2. /\ samples' \in Seq(Sample) /\ Len(samples') = Len(samples) + m
        /\ \A i \in 1 .. Len(samples) : samples'[i] = samples[i]
        /\ \A i \in 1 .. m : samples'[Len(samples) + i] = SubSeq(added, 1, m)[i]
    BY <1>5, <1>6, <2>1
  <2>3. m \in 0 .. Len(ReadsOf(tok))
    BY <1>3, <1>4
  <2>4. \A i \in 1 .. m : i \in 1 .. Len(added)
    BY <1>4
  <2>5. QED
    BY <1>4, <2>1, <2>2, <2>3, <2>4
<1>7. /\ Len(added) \in Nat /\ Len(added) \in 0 .. Len(added)
      /\ SubSeq(added, 1, Len(added)) = added /\ samples \o SubSeq(added, 1, 0) = samples
  BY <1>4, <1>5
<1>8. CASE CommitDrops(c, outcome)
  <2> DEFINE kept == IF closed THEN "late" ELSE "all"
  <2>1. Ended(c, outcome, kept) /\ samples' = samples /\ flushed' = flushed
        /\ lastFlush' = lastFlush
    BY <1>8 DEF CommitDrops
  <2>2. kept = "all" /\ Keep(outcome) => Len(ReadsOf(tok)) = 0
    <3>1. SUFFICES ASSUME ~closed, Keep(outcome) PROVE Len(ReadsOf(tok)) = 0
      OBVIOUS
    <3>2. exs = <<>>
      BY <1>2, <1>8, <3>1 DEF CommitDrops, Writable
    <3>3. Len(exs) = 0 /\ ReadsAmong(exs)[0] = <<>>
      BY <1>2, <3>2, ReadsAmongStep
    <3>4. QED
      BY <3>3 DEF ReadsOf
  <2>3. samples' = samples \o SubSeq(added, 1, 0) /\ 0 \in 0 .. Len(added)
    BY <1>4, <1>7, <2>1
  <2>4. Adds(c, outcome, kept, 0)
    <3> HIDE DEF kept
    <3>1. QED
      BY <1>6, <2>1, <2>2, <2>3 DEF Adds
  <2>5. Flushes(kept, 0)
    BY <1>5, <2>1 DEF Flushes
  <2>6. QED
    BY <2>4, <2>5
<1>9. CASE CommitWrites(c, outcome)
  <2>1. Ended(c, outcome, "all") /\ Unknown(exs) = {} /\ samples' = samples \o added
    BY <1>2, <1>9 DEF CommitWrites, added
  <2>2. samples' = samples \o SubSeq(added, 1, Len(added)) /\ Len(added) \in 0 .. Len(added)
    BY <1>7, <2>1
  <2>3. Len(added) = Len(ReadsOf(tok))
    BY <1>3, <1>4, <2>1
  <2>4. Keep(outcome)
    BY <1>9 DEF CommitWrites
  <2>5. Adds(c, outcome, "all", Len(added))
    BY <1>6, <2>1, <2>2, <2>3, <2>4 DEF Adds
  <2>6. Flushes("all", Len(added))
    <3>1. IF FlushDue THEN lastFlush' = now /\ flushed' = Len(samples')
          ELSE lastFlush' = lastFlush /\ flushed' = flushed
      BY <1>9 DEF CommitWrites
    <3>2. Len(samples') = Len(samples) + Len(added) /\ Len(added) \in Nat
      BY <1>4, <1>6, <2>2
    <3>3. QED
      BY <1>5, <3>1, <3>2 DEF Flushes, FlushDue
  <2>7. QED
    BY <2>2, <2>5, <2>6
<1>10. CASE CommitFails(c, outcome)
  <2>1. Ended(c, outcome, "some") /\ flushed' = flushed /\ lastFlush' \in {lastFlush, now}
        /\ Keep(outcome)
    BY <1>10 DEF CommitFails
  <2>2. PICK m \in 0 .. Len(added) : samples' = samples \o SubSeq(added, 1, m)
    <3>1. CASE samples' = samples \o added
      BY <1>7, <3>1
    <3>2. CASE \E n \in 1 .. Len(added) : samples' = samples \o SubSeq(added, 1, n - 1)
      <4>1. PICK n \in 1 .. Len(added) : samples' = samples \o SubSeq(added, 1, n - 1)
        BY <3>2
      <4>2. n - 1 \in 0 .. Len(added)
        BY <1>7
      <4>3. QED
        BY <4>1, <4>2
    <3>3. QED
      BY <1>2, <1>10, <3>1, <3>2 DEF CommitFails, added
  <2>3. Adds(c, outcome, "some", m)
    BY <1>6, <2>1, <2>2 DEF Adds
  <2>4. Flushes("some", m)
    BY <1>5, <1>6, <2>1, <2>2 DEF Flushes
  <2>5. QED
    BY <2>2, <2>3, <2>4
<1>11. QED
  BY <1>8, <1>9, <1>10

\* Commit keeps the invariant: the attempt is over, and the capture holds of it
\* what it was to hold.
LEMMA CommitKeepsInv ==
  ASSUME RecIInv, NEW c \in Callers, NEW outcome \in Outcomes,
         CommitDrops(c, outcome) \/ CommitWrites(c, outcome) \/ CommitFails(c, outcome)
  PROVE  RecIInv'
<1> USE RecorderAssumption
<1> DEFINE tok == token[c]
<1>1. tok # 0 /\ tok \in Tokens /\ tok \in 1 .. nextTok
  BY HeldToken DEF CommitDrops, CommitWrites, CommitFails
<1>2. PICK kept \in {"all", "some", "late"}, n \in Nat : Adds(c, outcome, kept, n)
      /\ Flushes(kept, n)
  BY CommitAdds
<1>3. /\ token' = [token EXCEPT ![c] = 0] /\ pending' = [pending EXCEPT ![tok] = <<>>]
      /\ ending' = [ending EXCEPT ![tok] = [outcome |-> outcome, kept |-> kept]]
      /\ now' = now /\ nextTok' = nextTok /\ closed' = closed /\ heard' = heard
  BY <1>2 DEF Adds, Ended, Forget
<1>4. ending[tok].outcome = "none" /\ heard[tok] \in Seq(PDU)
  BY <1>1 DEF RecIInv, InProgress, RecTypeOK
<1>5. SamplesAt(tok) = {}
  BY <1>1, <1>4 DEF RecIInv, CaptureHoldsAccepted, HoldsWhatIsAccepted, Accepted
<1>6. samples \in Seq(Sample) /\ samples' \in Seq(Sample) /\ Len(samples') = Len(samples) + n
  BY <1>2 DEF Adds, RecIInv, RecTypeOK
<1>7. /\ \A i \in 1 .. Len(samples) : samples'[i] = samples[i]
      /\ \A i \in 1 .. n : /\ samples'[Len(samples) + i].tok = tok
                           /\ samples'[Len(samples) + i].pdu = ReadsOf(tok)[i]
  <2>1. /\ \A i \in 1 .. Len(samples) : samples'[i] = samples[i]
        /\ \A i \in 1 .. n : samples'[Len(samples) + i] = [tok |-> tok, pdu |-> ReadsOf(tok)[i]]
    BY <1>2 DEF Adds
  <2> HIDE DEF tok
  <2>2. ASSUME NEW i \in 1 .. n
        PROVE  /\ samples'[Len(samples) + i].tok = tok
               /\ samples'[Len(samples) + i].pdu = ReadsOf(tok)[i]
    <3>1. samples'[Len(samples) + i] = [tok |-> tok, pdu |-> ReadsOf(tok)[i]]
      BY <2>1
    <3>2. QED
      BY <3>1
  <2>3. QED
    BY <2>1, <2>2
<1>8. ending' \in [Tokens -> [outcome : Outcomes \cup {"none"}, kept : {"all", "some", "late"}]]
      /\ ending'[tok] = [outcome |-> outcome, kept |-> kept]
      /\ \A t \in Tokens : t # tok => ending'[t] = ending[t]
  BY <1>1, <1>3 DEF RecIInv, RecTypeOK
<1>9. pending' \in [Tokens -> Seq(PDU)] /\ pending'[tok] = <<>>
      /\ \A t \in Tokens : t # tok => pending'[t] = pending[t]
  BY <1>1, <1>3 DEF RecIInv, RecTypeOK
<1>10. token' \in [Callers -> 0 .. nextTok] /\ token'[c] = 0
       /\ \A d \in Callers : d # c => token'[d] = token[d] /\ (token[d] # 0 => token[d] # tok)
  BY <1>1, <1>3 DEF RecIInv, RecTypeOK
<1> HIDE DEF tok
<1>11. RecTypeOK'
  <2>1. flushed' \in 0 .. Len(samples') /\ lastFlush' \in 0 .. now'
    BY <1>2, <1>3 DEF Flushes, RecIInv, RecTypeOK
  <2>2. \A d, e \in Callers : token'[d] = token'[e] /\ token'[d] # 0 => d = e
    BY <1>10 DEF RecIInv, RecTypeOK
  <2>3. QED
    BY <1>3, <1>6, <1>8, <1>9, <1>10, <2>1, <2>2 DEF RecIInv, RecTypeOK
<1>12. InProgress'
  <2> SUFFICES ASSUME NEW d \in Callers, token'[d] # 0
               PROVE  ending'[token'[d]].outcome = "none" /\ pending'[token'[d]] = heard[token'[d]]
    BY <1>3 DEF InProgress
  <2>1. d # c /\ token'[d] = token[d] /\ token[d] # tok /\ token[d] # 0
    BY <1>10
  <2>2. token[d] \in Tokens
    BY <2>1, HeldToken
  <2>3. QED
    BY <1>8, <1>9, <2>1, <2>2 DEF RecIInv, InProgress
<1>13. NotBegun'
  BY <1>1, <1>3, <1>8, <1>9 DEF RecIInv, NotBegun, RecTypeOK
<1>14. NothingLingers'
  <2> SUFFICES ASSUME NEW t \in Tokens, pending'[t] # <<>> PROVE \E d \in Callers : token'[d] = t
    BY DEF NothingLingers
  <2>1. t # tok /\ pending[t] # <<>>
    BY <1>9
  <2>2. PICK d \in Callers : token[d] = t
    BY <2>1 DEF RecIInv, NothingLingers
  <2>3. QED
    BY <1>10, <2>1, <2>2 DEF tok
<1>15. PastPDUs'
  BY <1>3 DEF RecIInv, PastPDUs
<1>16. CaptureHoldsAccepted'
  <2> SUFFICES ASSUME NEW t \in Tokens PROVE HoldsWhatIsAccepted(t)'
    BY DEF CaptureHoldsAccepted
  <2>1. ReadsOf(t)' = ReadsOf(t)
    BY <1>3 DEF ReadsOf
  <2>2. CASE t # tok
    <3>1. SamplesAt(t)' = SamplesAt(t) /\ SamplesAt(t) \subseteq 1 .. Len(samples)
      <4>1. \A i \in 1 .. Len(samples') :
              i \in 1 .. Len(samples) \/ (i \notin 1 .. Len(samples) /\ i - Len(samples) \in 1 .. n)
        BY <1>6
      <4>2. \A i \in 1 .. Len(samples') : i \notin 1 .. Len(samples) => samples'[i].tok = tok
        <5> SUFFICES ASSUME NEW i \in 1 .. Len(samples'), i \notin 1 .. Len(samples)
                     PROVE  samples'[i].tok = tok
          OBVIOUS
        <5>1. i - Len(samples) \in 1 .. n /\ i = Len(samples) + (i - Len(samples))
          BY <1>6, <4>1
        <5>2. PICK k \in 1 .. n : i = Len(samples) + k
          BY <5>1
        <5>3. QED
          BY <1>7, <5>2
      <4>3. 1 .. Len(samples) \subseteq 1 .. Len(samples') /\ DOMAIN samples = 1 .. Len(samples)
            /\ DOMAIN samples' = 1 .. Len(samples')
        BY <1>6
      <4>4. QED
        BY <1>7, <2>2, <4>2, <4>3 DEF SamplesAt
    <3>2. ASSUME NEW m \in Nat PROVE Holds(t, m) => Holds(t, m)'
      <4> SUFFICES ASSUME Holds(t, m) PROVE Holds(t, m)'
        OBVIOUS
      <4>1. PICK from \in 0 .. Len(samples) :
              /\ SamplesAt(t) = from + 1 .. from + m
              /\ \A i \in 1 .. m : samples[from + i].pdu = ReadsOf(t)[i]
        BY DEF Holds
      <4>2. from \in 0 .. Len(samples')
        BY <1>6
      <4>3. \A i \in 1 .. m : from + i \in from + 1 .. from + m
        OBVIOUS
      <4>4. \A i \in 1 .. m : samples'[from + i] = samples[from + i]
        BY <1>7, <3>1, <4>1, <4>3
      <4>5. QED
        BY <2>1, <3>1, <4>1, <4>2, <4>4 DEF Holds
    <3>3. HoldsWhatIsAccepted(t)
      BY DEF RecIInv, CaptureHoldsAccepted
    <3>4. ending'[t] = ending[t] /\ (Accepted(t)' <=> Accepted(t))
      BY <1>8, <2>2 DEF Accepted
    <3>5. \A m \in 0 .. Len(ReadsOf(t)) : m \in Nat
      OBVIOUS
    <3>6. QED
      BY <2>1, <3>1, <3>2, <3>3, <3>4, <3>5 DEF HoldsWhatIsAccepted
  <2>3. CASE t = tok
    <3>1. SamplesAt(t)' = Len(samples) + 1 .. Len(samples) + n
      <4>1. DOMAIN samples = 1 .. Len(samples) /\ DOMAIN samples' = 1 .. Len(samples) + n
        BY <1>6
      <4>2. \A i \in 1 .. Len(samples) : samples'[i].tok # tok
        BY <1>5, <1>7, <4>1 DEF SamplesAt
      <4>3. \A i \in Len(samples) + 1 .. Len(samples) + n : samples'[i].tok = tok
        <5> SUFFICES ASSUME NEW i \in Len(samples) + 1 .. Len(samples) + n PROVE samples'[i].tok = tok
          OBVIOUS
        <5>1. i - Len(samples) \in 1 .. n /\ i = Len(samples) + (i - Len(samples))
          BY <1>6
        <5>2. PICK k \in 1 .. n : i = Len(samples) + k
          BY <5>1
        <5>3. QED
          BY <1>7, <5>2
      <4>4. \A i : i \in 1 .. Len(samples) + n <=>
                     i \in 1 .. Len(samples) \/ i \in Len(samples) + 1 .. Len(samples) + n
        BY <1>6
      <4>5. \A i \in 1 .. Len(samples) : i \notin Len(samples) + 1 .. Len(samples) + n
        BY <1>6
      <4>6. QED
        BY <2>3, <4>1, <4>2, <4>3, <4>4, <4>5 DEF SamplesAt
    <3>2. Holds(t, n)'
      <4>1. Len(samples) \in 0 .. Len(samples')
        BY <1>6
      <4>2. \A i \in 1 .. n : samples'[Len(samples) + i].pdu = ReadsOf(t)[i]
        BY <1>7, <2>3
      <4>3. QED
        BY <2>1, <3>1, <4>1, <4>2 DEF Holds
    <3>3. /\ n \in 0 .. Len(ReadsOf(t))
          /\ kept = "all" /\ Keep(outcome) => n = Len(ReadsOf(t))
          /\ kept = "late" \/ ~Keep(outcome) => n = 0
      BY <1>2, <2>3 DEF Adds, tok
    <3>4. Accepted(t)' <=> Keep(outcome)
      BY <1>8, <2>3 DEF Accepted, Keep
    <3>5. ending'[t].kept = kept
      BY <1>8, <2>3
    <3>6. n = 0 => SamplesAt(t)' = {}
      <4>1. n = 0 => Len(samples) + 1 .. Len(samples) + n = {}
        BY <1>6
      <4>2. QED
        BY <3>1, <4>1
    <3>7. QED
      BY <2>1, <3>2, <3>3, <3>4, <3>5, <3>6 DEF HoldsWhatIsAccepted
  <2>4. QED
    BY <2>2, <2>3
<1>17. UnflushedAreRecent'
  <2> SUFFICES ASSUME ~closed, NEW i, i \in flushed' + 1 .. Len(samples'),
                      ending'[samples'[i].tok].kept = "all"
               PROVE  samples'[i].pdu.at < lastFlush' + FlushEvery
    BY <1>3 DEF UnflushedAreRecent
  <2>1. /\ flushed \in 0 .. Len(samples) /\ lastFlush \in 0 .. now /\ now \in Nat
        /\ flushed' \in 0 .. Len(samples') /\ flushed' >= flushed
        /\ lastFlush' \in {lastFlush, now}
        /\ kept = "all" /\ n > 0 =>
             flushed' = Len(samples') \/ (lastFlush' = lastFlush /\ now - lastFlush < FlushEvery)
    BY <1>2 DEF Flushes, RecIInv, RecTypeOK
  <2>2. i \in 1 .. Len(samples') /\ flushed' # Len(samples')
    <3>1. Len(samples') \in Nat /\ flushed' \in Nat
      BY <1>6, <2>1
    <3>2. \A a, b \in Nat : \A k \in a + 1 .. b : k \in 1 .. b /\ a # b
      OBVIOUS
    <3>3. QED
      BY <3>1, <3>2
  <2>3. CASE i \in 1 .. Len(samples)
    <3>1. samples'[i] = samples[i] /\ samples[i] \in Sample
      BY <1>6, <1>7, <2>3
    <3>2. samples[i].tok # tok
      BY <1>5, <1>6, <2>3 DEF SamplesAt
    <3>3. ending[samples[i].tok].kept = "all"
      BY <1>8, <3>1, <3>2 DEF Sample
    <3>4. i \in flushed + 1 .. Len(samples)
      BY <1>6, <2>1, <2>3
    <3>5. samples[i].pdu.at < lastFlush + FlushEvery
      BY <3>3, <3>4 DEF RecIInv, UnflushedAreRecent
    <3>6. samples[i].pdu.at \in Nat
      BY <3>1 DEF Sample, PDU
    <3>7. QED
      BY <2>1, <3>1, <3>5, <3>6
  <2>4. CASE i \notin 1 .. Len(samples)
    <3>1. i - Len(samples) \in 1 .. n /\ i = Len(samples) + (i - Len(samples))
      BY <1>6, <2>2, <2>4
    <3>2. PICK k \in 1 .. n : i = Len(samples) + k
      BY <3>1
    <3>3. samples'[i].tok = tok /\ samples'[i].pdu = ReadsOf(tok)[k]
      BY <1>7, <3>2
    <3>4. kept = "all" /\ n > 0
      BY <1>8, <3>2, <3>3
    <3>5. lastFlush' = lastFlush /\ now - lastFlush < FlushEvery
      BY <2>1, <2>2, <3>4
    <3>6. k \in 1 .. Len(ReadsOf(tok))
      BY <1>2 DEF Adds, tok
    <3>7. ReadsOf(tok)[k] \in {heard[tok][j] : j \in DOMAIN heard[tok]}
      <4>1. ReadsOf(tok) \in Seq({heard[tok][j] : j \in DOMAIN heard[tok]})
        BY <1>4, RecordableIs DEF ReadsOf
      <4>2. QED
        BY <3>6, <4>1
    <3>8. PICK j \in DOMAIN heard[tok] : ReadsOf(tok)[k] = heard[tok][j]
      BY <3>7
    <3>9. heard[tok][j].at <= now /\ heard[tok][j] \in PDU
      BY <1>1, <1>4 DEF RecIInv, PastPDUs
    <3>10. heard[tok][j].at \in Nat
      BY <3>9 DEF PDU
    <3>11. QED
      BY <2>1, <3>3, <3>5, <3>8, <3>9, <3>10
  <2>5. QED
    BY <2>3, <2>4
<1>18. QED
  BY <1>11, <1>12, <1>13, <1>14, <1>15, <1>16, <1>17 DEF RecIInv

\* Every step of the recorder keeps the invariant.
LEMMA RecStepInv == RecIInv /\ [RecNext]_recVars => RecIInv'
<1> SUFFICES ASSUME RecIInv, [RecNext]_recVars PROVE RecIInv'
  OBVIOUS
<1>1. CASE Tick
  BY <1>1, TickKeepsInv
<1>2. CASE Close
  BY <1>2, CloseKeepsInv
<1>3. ASSUME NEW c \in Callers, Begin(c) PROVE RecIInv'
  BY <1>3, BeginKeepsInv
<1>4. ASSUME NEW c \in Callers, NEW kind \in Kinds, OnPDU(c, kind) PROVE RecIInv'
  BY <1>4, OnPDUKeepsInv
<1>5. ASSUME NEW c \in Callers, NEW outcome \in Outcomes,
             CommitDrops(c, outcome) \/ CommitWrites(c, outcome) \/ CommitFails(c, outcome)
      PROVE  RecIInv'
  BY <1>5, CommitKeepsInv
<1>6. CASE UNCHANGED recVars
  BY <1>6, StutterKeepsInv
<1>7. QED
  BY <1>1, <1>2, <1>3, <1>4, <1>5, <1>6 DEF RecNext

\* The invariant holds for every value of the constants.
LEMMA RecInvariant == RecSpec => []RecIInv
  BY RecInitInv, RecStepInv, PTL DEF RecSpec
-----------------------------------------------------------------------------
\* The recorder keeps its state well typed, and no two callers file their
\* exchanges under the same attempt.
THEOREM AttemptsAreApart == RecSpec => []RecTypeOK
<1>1. RecIInv => RecTypeOK
  BY DEF RecIInv
<1>2. QED
  BY <1>1, RecInvariant, PTL

\* However its attempts end and interleave, the recorder keeps no PDUs of an
\* attempt that is over (recorder.go 162-163).
THEOREM PendingIsFreed == RecSpec => []NothingLingers
<1>1. RecIInv => NothingLingers
  BY DEF RecIInv
<1>2. QED
  BY <1>1, RecInvariant, PTL

\* The capture holds the reads of the attempts that Commit accepted, once, in
\* order and together, and nothing else (recorder.go 156-190).
THEOREM CaptureIsAccurate == RecSpec => []CaptureHoldsAccepted
<1>1. RecIInv => CaptureHoldsAccepted
  BY DEF RecIInv
<1>2. QED
  BY <1>1, RecInvariant, PTL

\* A Commit that finds the flush due performs it, so what is not in the file
\* arrived within FlushEvery of the last flush (recorder.go 185-189).
THEOREM FlushesAreMade == RecSpec => []UnflushedAreRecent
<1>1. RecIInv => UnflushedAreRecent
  BY DEF RecIInv
<1>2. QED
  BY <1>1, RecInvariant, PTL
-----------------------------------------------------------------------------
(* The exchange.                                                           *)

\* A broken client is what the last call left, and is not handed on: behind
\* the dial, a client is live until the call returns.
LinkInv ==
  /\ step \in Steps
  /\ client \in {"live", "broken", "closed"}
  /\ client = "broken" => step \in {"commit", "decide"} /\ err = "dropped"
  /\ step \in {"begin", "call"} => client = "live"

\* Between two attempts, the last one failed in a way that is retried.
RetryInv ==
  /\ calls \in Nat
  /\ step \in {"wait", "dial", "begin"} /\ calls > 0 => err \in {"busy", "dropped"}

\* Only reads are exchanged, and nobody closes the capture.
OnlyReads ==
  /\ closed = FALSE
  /\ \A tok \in Tokens : \A i \in DOMAIN heard[tok] : heard[tok][i].kind = "read"

\* The link holds an attempt from its Begin to its Commit.
HoldsAttempt ==
  /\ before \in 0 .. nextTok
  /\ err \in CallOutcomes \cup {"none"}
  /\ IF step \in {"call", "commit"} THEN token[Link] = nextTok /\ before < nextTok
     ELSE token[Link] = 0
  /\ step \in {"commit", "decide"} => err \in CallOutcomes

\* The attempts of an exchange before its last one failed.
EarlierFailed ==
  \A tok \in Tokens : before < tok /\ tok < nextTok =>
    ending[tok].outcome \in {"exception", "failed"}

\* How the last attempt ended, and what the exchange makes of it.
Kept(outcome) == before < nextTok /\ ending[nextTok] = [outcome |-> outcome, kept |-> "all"]
LastFailed == before < nextTok => ending[nextTok].outcome \in {"exception", "failed"}

LastIsTold ==
  /\ step = "decide" => Kept(CommitAs(err))
  /\ step \in {"wait", "dial", "begin"} => err \in {"none", "busy", "dropped"} /\ LastFailed
  /\ step = "idle" /\ result = "ok" => Kept("ok")
  /\ step = "idle" /\ result \notin {"ok", "writeFailed"} => LastFailed

RecordInv == RecIInv /\ OnlyReads /\ HoldsAttempt /\ EarlierFailed /\ LastIsTold

IInv == LinkInv /\ RetryInv
-----------------------------------------------------------------------------
\* A Commit of a dropped call writes nothing, so it cannot fail either.
LEMMA DroppedIsNotKept ==
  ASSUME err = "dropped"
  PROVE  ~CommitFails(Link, CommitAs(err))
<1>1. CommitAs(err) = "failed"
  BY DEF CommitAs
<1>2. QED
  BY <1>1 DEF CommitFails, Keep

\* The invariant holds before the first exchange.
LEMMA InitInv == Init => IInv
  BY DEF Init, IInv, LinkInv, RetryInv, Steps

\* Every step of the exchange keeps the invariant.
LEMMA StepInv == IInv /\ [Next]_vars => IInv'
<1> SUFFICES ASSUME IInv, [Next]_vars PROVE IInv'
  OBVIOUS
<1> USE DEF IInv, LinkInv, RetryInv, Steps
<1>1. CASE Start
  BY <1>1 DEF Start
<1>2. CASE Cancel
  BY <1>2 DEF Cancel
<1>3. CASE Exhausted
  BY <1>3 DEF Exhausted, Return
<1>4. CASE Wait
  BY <1>4 DEF Wait, Return, Goto
<1>5. CASE Dial
  BY <1>5 DEF Dial, Goto, Redialed, DialFailed, Return
<1>6. CASE BeginAttempt
  BY <1>6 DEF BeginAttempt
<1>7. CASE Exchanges
  BY <1>7 DEF Exchanges, linkVars
<1>8. CASE CallReturns
  <2>1. PICK outcome \in CallOutcomes :
          err' = outcome /\ client' = IF outcome = "dropped" THEN "broken" ELSE client
    BY <1>8 DEF CallReturns
  <2>2. step = "call" /\ step' = "commit" /\ calls' = calls
    BY <1>8 DEF CallReturns
  <2>3. QED
    BY <2>1, <2>2 DEF CallOutcomes
<1>9. CASE CommitAttempt
  <2>1. step = "commit"
    BY <1>9 DEF CommitAttempt
  <2>2. CASE Goto("decide")
    BY <2>1, <2>2 DEF Goto
  <2>3. CASE /\ CommitFails(Link, CommitAs(err))
             /\ Return("writeFailed") /\ UNCHANGED client
    BY <2>1, <2>3, DroppedIsNotKept DEF Return
  <2>4. QED
    BY <1>9, <2>2, <2>3 DEF CommitAttempt
<1>10. CASE Finished
  BY <1>10 DEF Finished, Return, ShouldReconnect
<1>11. CASE RetryBusy
  BY <1>11 DEF RetryBusy, Return, TryAgain, ShouldRetry
<1>12. CASE Reconnect
  BY <1>12 DEF Reconnect, Redialed, DialFailed, Return, TryAgain, ShouldReconnect
<1>13. CASE UNCHANGED vars
  BY <1>13 DEF vars, linkVars
<1>14. QED
  BY <1>1, <1>2, <1>3, <1>4, <1>5, <1>6, <1>7, <1>8, <1>9, <1>10, <1>11, <1>12, <1>13 DEF Next

\* What the exchange does to the recorder are steps of the recorder.
LEMMA ExchangeRecords ==
  ASSUME RecordInv, [Next]_vars
  PROVE  RecIInv'
<1>1. CASE UNCHANGED recVars
  BY <1>1, StutterKeepsInv DEF RecordInv
<1>2. CASE BeginAttempt
  BY <1>2, BeginKeepsInv, ExchangeAssumption DEF BeginAttempt, RecordInv
<1>3. CASE Exchanges
  BY <1>3, OnPDUKeepsInv, ExchangeAssumption DEF Exchanges, RecordInv, Kinds
<1>4. CASE CommitAttempt
  <2>1. CommitAs(err) \in Outcomes
    BY DEF CommitAs, Outcomes
  <2>2. QED
    BY <1>4, <2>1, CommitKeepsInv, ExchangeAssumption DEF CommitAttempt, RecordInv
<1>5. QED
  BY <1>1, <1>2, <1>3, <1>4
     DEF Next, vars, Start, Cancel, Exhausted, Wait, Dial, CallReturns, Finished, RetryBusy,
       Reconnect

\* The records of an exchange are right before the first one.
LEMMA RecordInit == Init => RecordInv
<1> SUFFICES ASSUME Init PROVE RecordInv
  OBVIOUS
<1> USE RecorderAssumption, ExchangeAssumption
<1>1. RecIInv
  BY RecInitInv DEF Init
<1>2. OnlyReads
  BY DEF Init, RecInit, OnlyReads
<1>3. HoldsAttempt
  BY DEF Init, RecInit, HoldsAttempt
<1>4. EarlierFailed /\ LastIsTold
  BY DEF Init, RecInit, EarlierFailed, LastIsTold, LastFailed, Kept, Tokens
<1>5. QED
  BY <1>1, <1>2, <1>3, <1>4 DEF RecordInv

\* A step that leaves the recorder and the exchange's place in it alone.
LEMMA RecordStays ==
  ASSUME RecordInv, UNCHANGED <<recVars, before>>
  PROVE  OnlyReads' /\ EarlierFailed' /\ (LastFailed' <=> LastFailed)
         /\ \A outcome : Kept(outcome)' <=> Kept(outcome)
<1>1. nextTok' = nextTok /\ ending' = ending /\ heard' = heard /\ closed' = closed
      /\ before' = before
  BY DEF recVars
<1>2. QED
  BY <1>1 DEF RecordInv, OnlyReads, EarlierFailed, LastFailed, Kept

\* Steps between two calls, which leave the recorder alone: where the exchange
\* goes on, and what it returns, follow from how the last attempt ended.
Quiet ==
  /\ UNCHANGED <<recVars, before, err>>
  /\ step \notin {"call", "commit"} /\ step' \notin {"call", "commit"}
  /\ step' = "decide" => step = "decide"
  /\ step' \in {"wait", "dial", "begin"} =>
       step \in {"wait", "dial", "begin"} \/ (step = "decide" /\ err \in {"busy", "dropped"})
  /\ step' = "idle" =>
       \/ step \in {"wait", "dial", "begin"} /\ result' # "ok"
       \/ step = "decide" /\ (result' = err \/ (err # "ok" /\ result' # "ok"))
       \/ step = "idle" /\ result' = result

\* Such a step keeps the records right.
LEMMA QuietKeeps ==
  ASSUME RecordInv, Quiet
  PROVE  OnlyReads' /\ HoldsAttempt' /\ EarlierFailed' /\ LastIsTold'
<1> USE DEF Quiet
<1>1. OnlyReads' /\ EarlierFailed' /\ (LastFailed' <=> LastFailed)
      /\ \A outcome : Kept(outcome)' <=> Kept(outcome)
  BY RecordStays
<1>2. HoldsAttempt'
  BY DEF RecordInv, HoldsAttempt, recVars
<1>3. CommitAs(err)' = CommitAs(err)
  BY DEF CommitAs
<1>4. step = "decide" => /\ err \in CallOutcomes /\ Kept(CommitAs(err))
                         /\ err # "ok" => LastFailed
                         /\ err = "ok" => Kept("ok")
  <2>1. CommitAs(err) = "ok" <=> err = "ok"
    BY DEF CommitAs
  <2>2. CommitAs(err) \in {"ok", "exception", "failed"}
    BY DEF CommitAs
  <2>3. QED
    BY <2>1, <2>2 DEF RecordInv, HoldsAttempt, LastIsTold, Kept, LastFailed
<1>5. LastIsTold'
  <2>1. step' = "decide" => Kept(CommitAs(err))'
    <3>1. step = "decide" => Kept(CommitAs(err))
      BY <1>4
    <3>2. Kept(CommitAs(err))' <=> Kept(CommitAs(err))
      BY <1>3 DEF Kept, recVars
    <3>3. QED
      BY <3>1, <3>2
  <2>2. step' \in {"wait", "dial", "begin"} => err' \in {"none", "busy", "dropped"} /\ LastFailed'
    BY <1>1, <1>4 DEF RecordInv, LastIsTold
  <2>3. step' = "idle" /\ result' = "ok" => Kept("ok")'
    BY <1>1, <1>4 DEF RecordInv, LastIsTold
  <2>4. step' = "idle" /\ result' \notin {"ok", "writeFailed"} => LastFailed'
    BY <1>1, <1>4 DEF RecordInv, LastIsTold
  <2>5. QED
    BY <2>1, <2>2, <2>3, <2>4 DEF LastIsTold
<1>6. QED
  BY <1>1, <1>2, <1>5

\* Every step of the exchange keeps its records right.
LEMMA RecordStep == RecordInv /\ [Next]_vars => RecordInv'
<1> SUFFICES ASSUME RecordInv, [Next]_vars PROVE RecordInv'
  OBVIOUS
<1> USE ExchangeAssumption
<1>1. RecIInv'
  BY ExchangeRecords
<1>2. nextTok \in Nat /\ nextTok \in 0 .. MaxAttempts /\ token \in [Callers -> 0 .. nextTok]
  BY RecorderAssumption DEF RecordInv, RecIInv, RecTypeOK
<1>3. SUFFICES OnlyReads' /\ HoldsAttempt' /\ EarlierFailed' /\ LastIsTold'
  BY <1>1 DEF RecordInv
<1>4. CASE Start
  <2>1. /\ step' = "wait" /\ before' = nextTok /\ err' = "none" /\ step = "idle"
        /\ UNCHANGED recVars
    BY <1>4 DEF Start
  <2>2. nextTok' = nextTok /\ ending' = ending /\ heard' = heard /\ closed' = closed
        /\ token' = token
    BY <2>1 DEF recVars
  <2>3. OnlyReads'
    BY <2>2 DEF RecordInv, OnlyReads
  <2>4. HoldsAttempt'
    BY <1>2, <2>1, <2>2 DEF RecordInv, HoldsAttempt
  <2>5. EarlierFailed'
    BY <1>2, <2>1, <2>2 DEF EarlierFailed, Tokens
  <2>6. LastIsTold'
    BY <1>2, <2>1, <2>2 DEF LastIsTold, LastFailed
  <2>7. QED
    BY <2>3, <2>4, <2>5, <2>6
<1>5. ASSUME Quiet PROVE OnlyReads' /\ HoldsAttempt' /\ EarlierFailed' /\ LastIsTold'
  BY <1>5, QuietKeeps
<1>6. step \in {"wait", "dial", "begin"} => err \in {"none", "busy", "dropped"}
  BY DEF RecordInv, LastIsTold
<1>20. ASSUME UNCHANGED <<recVars, step, before, err, result>>
       PROVE  OnlyReads' /\ HoldsAttempt' /\ EarlierFailed' /\ LastIsTold'
  <2>1. OnlyReads' /\ EarlierFailed' /\ (LastFailed' <=> LastFailed)
        /\ \A outcome : Kept(outcome)' <=> Kept(outcome)
    BY <1>20, RecordStays
  <2>2. HoldsAttempt'
    BY <1>20 DEF RecordInv, HoldsAttempt, recVars
  <2>3. CommitAs(err)' = CommitAs(err)
    BY <1>20 DEF CommitAs
  <2>4. Kept(CommitAs(err))' <=> Kept(CommitAs(err))
    BY <1>20, <2>3 DEF Kept, recVars
  <2>5. LastIsTold'
    BY <1>20, <2>1, <2>4 DEF RecordInv, LastIsTold
  <2>6. QED
    BY <2>1, <2>2, <2>5
<1>7. CASE Cancel
  BY <1>20, <1>7 DEF Cancel
<1>8. CASE Exhausted
  BY <1>5, <1>6, <1>8 DEF Exhausted, Return, Quiet
<1>9. CASE Wait
  BY <1>5, <1>9 DEF Wait, Return, Goto, Quiet
<1>10. CASE Dial
  BY <1>5, <1>10 DEF Dial, Goto, DialFailed, Return, Quiet
<1>11. CASE Finished
  BY <1>5, <1>11 DEF Finished, Return, Quiet
<1>12. CASE RetryBusy
  BY <1>5, <1>12 DEF RetryBusy, ShouldRetry, Return, TryAgain, Quiet
<1>13. CASE Reconnect
  BY <1>5, <1>13 DEF Reconnect, ShouldReconnect, DialFailed, Return, TryAgain, Quiet
<1>14. CASE BeginAttempt
  <2>1. /\ step = "begin" /\ step' = "call" /\ before' = before /\ err' = err
        /\ nextTok' = nextTok + 1 /\ token' = [token EXCEPT ![Link] = nextTok + 1]
        /\ ending' = ending /\ heard' = heard /\ closed' = closed
    BY <1>14 DEF BeginAttempt, Begin, NewToken
  <2>2. OnlyReads'
    BY <2>1 DEF RecordInv, OnlyReads
  <2>3. HoldsAttempt'
    <3>1. token'[Link] = nextTok + 1
      BY <1>2, <2>1
    <3>2. QED
      BY <1>2, <2>1, <3>1 DEF RecordInv, HoldsAttempt
  <2>4. EarlierFailed'
    <3> SUFFICES ASSUME NEW tok \in Tokens, before < tok, tok < nextTok + 1
                 PROVE  ending[tok].outcome \in {"exception", "failed"}
      BY <2>1 DEF EarlierFailed
    <3>1. CASE tok = nextTok
      BY <2>1, <3>1 DEF RecordInv, LastIsTold, LastFailed
    <3>2. CASE tok # nextTok
      BY <1>2, <3>2 DEF RecordInv, EarlierFailed, Tokens
    <3>3. QED
      BY <3>1, <3>2
  <2>5. LastIsTold'
    BY <2>1 DEF LastIsTold
  <2>6. QED
    BY <2>2, <2>3, <2>4, <2>5
<1>15. CASE Exchanges
  <2>1. /\ step = "call" /\ step' = "call" /\ before' = before /\ err' = err
        /\ nextTok' = nextTok /\ token' = token /\ ending' = ending /\ closed' = closed
        /\ heard' = [heard EXCEPT ![token[Link]] = Append(@, [kind |-> "read", at |-> now])]
    BY <1>15 DEF Exchanges, OnPDU, linkVars
  <2>2. OnlyReads'
    <3> SUFFICES ASSUME NEW tok \in Tokens, NEW i \in DOMAIN heard'[tok]
                 PROVE  heard'[tok][i].kind = "read"
      BY <2>1 DEF RecordInv, OnlyReads
    <3>1. heard \in [Tokens -> Seq(PDU)] /\ heard[tok] \in Seq(PDU)
      BY DEF RecordInv, RecIInv, RecTypeOK
    <3>2. CASE tok # token[Link]
      BY <2>1, <3>1, <3>2 DEF RecordInv, OnlyReads
    <3>3. CASE tok = token[Link]
      <4>1. heard'[tok] = Append(heard[tok], [kind |-> "read", at |-> now])
        BY <2>1, <3>1, <3>3
      <4>2. CASE i = Len(heard[tok]) + 1
        BY <3>1, <4>1, <4>2
      <4>3. CASE i # Len(heard[tok]) + 1
        <5>1. i \in DOMAIN heard[tok] /\ heard'[tok][i] = heard[tok][i]
          BY <3>1, <4>1, <4>3
        <5>2. QED
          BY <5>1 DEF RecordInv, OnlyReads
      <4>4. QED
        BY <4>2, <4>3
    <3>4. QED
      BY <3>2, <3>3
  <2>3. HoldsAttempt'
    BY <2>1 DEF RecordInv, HoldsAttempt
  <2>4. EarlierFailed' /\ LastIsTold'
    BY <2>1 DEF RecordInv, EarlierFailed, LastIsTold
  <2>5. QED
    BY <2>2, <2>3, <2>4
<1>16. CASE CallReturns
  <2>1. PICK outcome \in CallOutcomes : err' = outcome
    BY <1>16 DEF CallReturns
  <2>2. /\ step = "call" /\ step' = "commit" /\ before' = before
        /\ nextTok' = nextTok /\ token' = token /\ ending' = ending /\ closed' = closed
           /\ heard' = heard
    BY <1>16 DEF CallReturns, recVars
  <2>3. OnlyReads' /\ HoldsAttempt'
    BY <2>1, <2>2 DEF RecordInv, OnlyReads, HoldsAttempt
  <2>4. EarlierFailed' /\ LastIsTold'
    BY <2>2 DEF RecordInv, EarlierFailed, LastIsTold
  <2>5. QED
    BY <2>3, <2>4
<1>17. CASE CommitAttempt
  <2>1. /\ step = "commit" /\ before' = before /\ err' = err /\ err \in CallOutcomes
        /\ token[Link] = nextTok /\ before < nextTok /\ closed = FALSE
    BY <1>17 DEF CommitAttempt, Goto, Return, RecordInv, HoldsAttempt, OnlyReads
  <2>2. PICK kept \in {"all", "some", "late"} :
          /\ Ended(Link, CommitAs(err), kept)
          /\ \/ kept = "all" /\ step' = "decide"
             \/ step' = "idle" /\ result' = "writeFailed"
    BY <1>17, <2>1 DEF CommitAttempt, CommitDrops, CommitWrites, CommitFails, Goto, Return
  <2>3. /\ token' = [token EXCEPT ![Link] = 0] /\ nextTok' = nextTok /\ closed' = closed
           /\ heard' = heard
        /\ ending' = [ending EXCEPT ![nextTok] = [outcome |-> CommitAs(err), kept |-> kept]]
    BY <2>1, <2>2 DEF Ended
  <2>4. OnlyReads'
    BY <2>3 DEF RecordInv, OnlyReads
  <2>5. HoldsAttempt'
    BY <1>2, <2>1, <2>2, <2>3 DEF RecordInv, HoldsAttempt
  <2>6. EarlierFailed'
    BY <1>2, <2>1, <2>3 DEF RecordInv, EarlierFailed, RecIInv, RecTypeOK, Tokens
  <2>7. kept = "all" => Kept(CommitAs(err))'
    <3>1. nextTok \in Tokens
      BY <1>2, <2>1 DEF RecordInv, HoldsAttempt, Tokens
    <3>2. ending'[nextTok] = [outcome |-> CommitAs(err), kept |-> kept]
      BY <2>3, <3>1 DEF RecordInv, RecIInv, RecTypeOK
    <3>3. CommitAs(err)' = CommitAs(err)
      BY <2>1 DEF CommitAs
    <3>4. QED
      BY <2>1, <2>3, <3>2, <3>3 DEF Kept
  <2>8. LastIsTold'
    BY <2>2, <2>7 DEF LastIsTold
  <2>9. QED
    BY <2>4, <2>5, <2>6, <2>8
<1>18. CASE UNCHANGED vars
  BY <1>20, <1>18 DEF vars, linkVars
<1>19. QED
  BY <1>4, <1>7, <1>8, <1>9, <1>10, <1>11, <1>12, <1>13, <1>14, <1>15, <1>16, <1>17, <1>18 DEF Next

\* The records of every exchange are right.
LEMMA RecordsAreRight == Spec => []RecordInv
  BY RecordInit, RecordStep, PTL DEF Spec

\* What the invariant says once an exchange has returned.
LEMMA RecordedIsSuccess ==
  ASSUME RecordInv
  PROVE  OnlySuccessIsRecorded
<1> USE RecorderAssumption, ExchangeAssumption
<1> SUFFICES ASSUME step = "idle", ~Exceptions
             PROVE  IF result = "ok"
                    THEN LET exs == heard[nextTok]
                         IN \E from \in 0 .. Len(samples) :
                              /\ AddedAt = from + 1 .. from + Len(exs)
                              /\ \A i \in DOMAIN exs :
                                   samples[from + i] = [tok |-> nextTok, pdu |-> exs[i]]
                    ELSE result # "writeFailed" => AddedAt = {}
  BY DEF OnlySuccessIsRecorded
<1>1. /\ samples \in Seq(Sample) /\ heard \in [Tokens -> Seq(PDU)] /\ nextTok \in 0 .. MaxAttempts
      /\ before \in 0 .. nextTok
  BY DEF RecordInv, RecIInv, RecTypeOK, HoldsAttempt
<1>2. ASSUME NEW tok \in Tokens, ending[tok].outcome \in {"none", "exception", "failed"}
      PROVE  SamplesAt(tok) = {}
  BY <1>2 DEF RecordInv, RecIInv, CaptureHoldsAccepted, HoldsWhatIsAccepted, Accepted
<1>3. ASSUME NEW tok \in Tokens, before < tok, tok # nextTok
      PROVE  SamplesAt(tok) = {}
  <2>1. CASE tok < nextTok
    BY <1>2, <1>3, <2>1 DEF RecordInv, EarlierFailed
  <2>2. CASE tok > nextTok
    BY <1>2, <1>3, <2>2 DEF RecordInv, RecIInv, NotBegun
  <2>3. QED
    BY <1>1, <1>3, <2>1, <2>2 DEF Tokens
<1>4. ASSUME NEW i \in DOMAIN samples
      PROVE  samples[i].tok \in Tokens /\ i \in SamplesAt(samples[i].tok) /\ samples[i] \in Sample
  <2>1. samples[i] \in Sample
    BY <1>1
  <2>2. QED
    BY <2>1 DEF Sample, SamplesAt
<1>5. AddedAt \subseteq SamplesAt(nextTok)
  BY <1>1, <1>3, <1>4 DEF AddedAt, SamplesAt
<1>6. CASE result = "ok"
  <2>1. before < nextTok /\ ending[nextTok] = [outcome |-> "ok", kept |-> "all"]
        /\ nextTok \in Tokens
    BY <1>1, <1>6 DEF RecordInv, LastIsTold, Kept, Tokens
  <2>2. ReadsOf(nextTok) = heard[nextTok]
    <3>1. heard[nextTok] \in Seq(PDU) /\ \A i \in DOMAIN heard[nextTok] : heard[nextTok][i].kind # "write"
      BY <1>1, <2>1 DEF RecordInv, OnlyReads
    <3>2. QED
      BY <3>1, ReadsAmongReads DEF ReadsOf
  <2>3. Holds(nextTok, Len(heard[nextTok]))
    BY <2>1, <2>2 DEF RecordInv, RecIInv, CaptureHoldsAccepted, HoldsWhatIsAccepted, Accepted
  <2>4. PICK from \in 0 .. Len(samples) :
          /\ SamplesAt(nextTok) = from + 1 .. from + Len(heard[nextTok])
          /\ \A i \in 1 .. Len(heard[nextTok]) : samples[from + i].pdu = heard[nextTok][i]
    BY <2>2, <2>3 DEF Holds
  <2>5. SamplesAt(nextTok) \subseteq AddedAt
    BY <2>1 DEF AddedAt, SamplesAt
  <2>6. ASSUME NEW i \in DOMAIN heard[nextTok]
        PROVE  samples[from + i] = [tok |-> nextTok, pdu |-> heard[nextTok][i]]
    <3>1. heard[nextTok] \in Seq(PDU) /\ i \in 1 .. Len(heard[nextTok])
      BY <1>1, <2>1
    <3>2. from + i \in SamplesAt(nextTok)
      BY <2>4, <3>1
    <3>3. from + i \in DOMAIN samples /\ samples[from + i].tok = nextTok
      BY <3>2 DEF SamplesAt
    <3>4. samples[from + i] \in Sample /\ samples[from + i].pdu = heard[nextTok][i]
      BY <1>4, <2>4, <3>1, <3>3
    <3>5. QED
      BY <3>3, <3>4 DEF Sample
  <2>7. QED
    BY <1>5, <1>6, <2>4, <2>5, <2>6
<1>7. CASE result \notin {"ok", "writeFailed"}
  <2>1. CASE before < nextTok
    <3>1. nextTok \in Tokens /\ ending[nextTok].outcome \in {"exception", "failed"}
      BY <1>1, <1>7, <2>1 DEF RecordInv, LastIsTold, LastFailed, Tokens
    <3>2. QED
      BY <1>2, <1>5, <1>7, <3>1
  <2>2. CASE before = nextTok
    BY <1>7, <1>1, <1>5, <2>2 DEF AddedAt, SamplesAt
  <2>3. QED
    BY <1>1, <2>1, <2>2
<1>8. QED
  BY <1>6, <1>7

\* A capture holds the PDUs of the last attempt of an exchange that succeeded,
\* and nothing of an exchange or an attempt that failed (client.go 390-396).
THEOREM OnlySuccess == Spec => []OnlySuccessIsRecorded
<1>1. QED
  BY RecordsAreRight, RecordedIsSuccess, PTL

\* The invariant holds for every value of the constants.
THEOREM Invariant == Spec => []IInv
<1>1. QED
  BY InitInv, StepInv, PTL DEF Spec

\* No call ever goes out on a connection that was dropped: it is re-dialed, or
\* the link closed, before exchange returns (client.go 414-423).
THEOREM LinkIsReplaced == Spec => []BrokenLinkIsReplaced
<1>1. IInv => BrokenLinkIsReplaced
  BY DEF IInv, LinkInv, BrokenLinkIsReplaced
<1>2. QED
  BY <1>1, Invariant, PTL

\* A request is sent again only after a busy exception or a dropped connection:
\* what a device rejects is not asked twice (client.go 400-408).
THEOREM FinalFailures == Spec => FinalFailuresEnd
<1>1. IInv => [step = "begin" /\ calls > 0 => err \in {"busy", "dropped"}]_vars
  BY DEF IInv, RetryInv
<1>2. QED
  BY <1>1, Invariant, PTL DEF FinalFailuresEnd
=============================================================================
