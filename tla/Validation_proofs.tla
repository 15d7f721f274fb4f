------------------------- MODULE Validation_proofs -------------------------
(***************************************************************************)
(* Proofs about the validation, for every limit of the protocol and every  *)
(* configuration a command may be given.                                   *)
(***************************************************************************)
EXTENDS Validation, WellFoundedInduction, TLAPS

\* What was accepted was checked, and only what was accepted is sent.
CheckedInv ==
  /\ command \in Commands /\ config \in Configs[command]
  /\ verdict = "accepted" => Accepts(command, config)
  /\ verdict = "done" => Accepts(command, config) /\ sent = Sends(command, config)
  /\ verdict # "done" => sent = <<>>

Harmless(r) == ~Changes(r)
\* The commands whose first requests Sends names.
Senders == {"read", "decode", "poll", "record", "write", "diagnostic", "identify",
            "reportserverid", "fingerprint", "scan"}

Confirmed(name, c) == name \in {"write", "diagnostic"} /\ c.yes
-----------------------------------------------------------------------------
\* A request for a read function changes nothing.
LEMMA ReadsAreHarmless ==
  ASSUME NEW unit, NEW function \in ReadFunctions, NEW start, NEW count
  PROVE  Harmless(Request(unit, function, start, count))
  BY DEF ReadFunctions, Harmless, Changes, Request

\* The requests of the commands over units ask for what changes nothing.
LEMMA UnitRequestsAreHarmless ==
  ASSUME NEW c, NEW function \in {8, 17, 43}, NEW i \in DOMAIN ToUnits(c, function)
  PROVE  Harmless(ToUnits(c, function)[i])
<1> DEFINE units == ParseUnitIDs(c.units)
<1>1. ToUnits(c, function) = [k \in DOMAIN units |-> Request(units[k], function, 0, 0)]
  BY DEF ToUnits
<1>2. i \in DOMAIN units
  BY <1>1
<1>3. ToUnits(c, function)[i] = Request(units[i], function, 0, 0)
  BY <1>1, <1>2
<1>4. QED
  BY <1>3 DEF Harmless, Changes, Request, StateChanging

\* Check lets no request into a recording plan that changes the device.
LEMMA PlannedRequestsAreHarmless ==
  ASSUME NEW r, Check(r), NEW unit
  PROVE  Harmless(PlannedRequest(unit, r))
<1>1. r.function = 8 => r.sub \notin StateChanging
  BY DEF Check, IsSpecRead, IsDataDiagnostic, StateChanging
<1>2. CASE r.function \in ReadFunctions
  <2>1. PlannedRequest(unit, r) = Request(unit, r.function, r.start, r.count)
    <3>1. r.function # 8 /\ r.function # 20
      BY <1>2 DEF ReadFunctions
    <3>2. QED
      BY <1>2, <3>1, Zenon DEF PlannedRequest
  <2>2. QED
    BY <1>2, <2>1, ReadsAreHarmless
<1>3. CASE r.function = 8
  <2>1. PlannedRequest(unit, r) = Request(unit, 8, r.sub, PlannedBytes(r.data))
    <3>1. r.function \notin ReadFunctions /\ r.function # 20
      BY <1>3 DEF ReadFunctions
    <3>2. QED
      BY <1>3, <3>1, Zenon DEF PlannedRequest
  <2>2. QED
    BY <1>1, <1>3, <2>1 DEF Harmless, Changes, Request
<1>4. CASE r.function = 20
  <2>1. PlannedRequest(unit, r) = Request(unit, 20, 0, FileResponseSize(r.records))
    <3>1. r.function \notin ReadFunctions /\ r.function # 8
      BY <1>4 DEF ReadFunctions
    <3>2. QED
      BY <1>4, <3>1, Zenon DEF PlannedRequest
  <2>2. QED
    BY <2>1 DEF Harmless, Changes, Request
<1>5. CASE r.function \in {7, 11, 12, 17, 24, 43}
  <2>1. PlannedRequest(unit, r) = Request(unit, r.function, 0, 0)
    <3>1. r.function \notin ReadFunctions /\ r.function # 8 /\ r.function # 20
      BY <1>5 DEF ReadFunctions
    <3>2. QED
      BY <3>1, Zenon DEF PlannedRequest
  <2>2. QED
    BY <1>5, <2>1 DEF Harmless, Changes, Request
<1>6. r.function \in SpecReadFunctions
  BY DEF Check, IsSpecRead
<1>7. QED
  BY <1>2, <1>3, <1>4, <1>5, <1>6 DEF SpecReadFunctions

\* The other commands send nothing here.
LEMMA OthersSendNothing ==
  ASSUME NEW name, NEW c, name \notin Senders
  PROVE  Sends(name, c) = <<>>
  BY Zenon DEF Sends, Senders

\* What a command sends without being confirmed changes nothing.
LEMMA UnconfirmedIsHarmless ==
  ASSUME NEW name \in Senders, NEW c, Accepts(name, c), ~Confirmed(name, c),
         NEW i \in DOMAIN Sends(name, c)
  PROVE  Harmless(Sends(name, c)[i])
<1>1. CASE name = "read"
  <2>1. Sends(name, c) = <<Request(c.unit, c.function, c.start, c.count)>>
    BY <1>1, Zenon DEF Sends
  <2>2. c.function \in ReadFunctions
    <3>1. CheckReadConfig(c)
      BY <1>1, Zenon DEF Accepts
    <3>2. QED
      BY <3>1, Zenon DEF CheckReadConfig, validateFunctionCode
  <2>3. QED
    BY <2>1, <2>2, ReadsAreHarmless
<1>2. CASE name = "decode"
  <2>1. Sends(name, c) = <<Request(c.unit, c.function, c.start, CodecCount(Widths, c.codec, c.count))>>
    BY <1>2, Zenon DEF Sends
  <2>2. c.function \in ReadFunctions
    <3>1. CheckDecodeConfig(c)
      BY <1>2, Zenon DEF Accepts
    <3>2. QED
      BY <3>1 DEF CheckDecodeConfig, validateDecodeFunctionCode, ReadFunctions
  <2>3. QED
    BY <2>1, <2>2, ReadsAreHarmless
<1>3. CASE name = "poll"
  <2>1. Sends(name, c) =
        <<Request(c.unit, c.function, c.start, ResolvePollCodec(Widths, c.codec, c.count))>>
    BY <1>3, Zenon DEF Sends
  <2>2. c.function \in ReadFunctions
    <3>1. CheckPollConfig(c)
      BY <1>3, Zenon DEF Accepts
    <3>2. QED
      BY <3>1, Zenon DEF CheckPollConfig, validateFunctionCode
  <2>3. QED
    BY <2>1, <2>2, ReadsAreHarmless
<1>4. CASE name = "record"
  <2> DEFINE plan == Parsed(c.plan, c.function)
  <2>1. Sends(name, c) = [k \in DOMAIN plan |-> PlannedRequest(c.unit, plan[k])]
    BY <1>4, Zenon DEF Sends
  <2>2. \A k \in DOMAIN plan : Check(plan[k])
    <3>1. CheckRecordConfig(c)
      BY <1>4, Zenon DEF Accepts
    <3>2. QED
      BY <3>1, Zenon DEF CheckRecordConfig, PlanFits
  <2> HIDE DEF plan
  <2>3. i \in DOMAIN plan /\ Sends(name, c)[i] = PlannedRequest(c.unit, plan[i])
    BY <2>1
  <2>4. QED
    BY <2>2, <2>3, PlannedRequestsAreHarmless
<1>5. CASE name = "write"
  <2>1. CheckWriteConfig(c)
    BY <1>5, Zenon DEF Accepts
  <2>2. QED
    BY <1>5, <2>1, Zenon DEF CheckWriteConfig, CheckConfirmed, Confirmed
<1>6. CASE name = "diagnostic"
  <2>1. Sends(name, c) = <<Request(c.unit, 8, c.sub, SentBytes(c.data))>>
    BY <1>6, Zenon DEF Sends
  <2>2. CheckDiagnosticConfig(c)
    BY <1>6, Zenon DEF Accepts
  <2>3. ~c.yes
    BY <1>6, Zenon DEF Confirmed
  <2>4. c.sub \notin StateChanging
    BY <2>2, <2>3
       DEF CheckDiagnosticConfig, CheckDiagnosticConfirmed, CheckConfirmed, DiagnosticChangesState
  <2>5. QED
    BY <2>1, <2>4 DEF Harmless, Changes, Request
<1>7. CASE name \in {"identify", "reportserverid", "fingerprint"}
  <2>1. PICK function \in {8, 17, 43} : Sends(name, c) = ToUnits(c, function)
    <3>1. CASE name = "identify"
      BY <3>1, Zenon DEF Sends
    <3>2. CASE name = "reportserverid"
      BY <3>2, Zenon DEF Sends
    <3>3. CASE name = "fingerprint"
      BY <3>3, Zenon DEF Sends
    <3>4. QED
      BY <1>7, <3>1, <3>2, <3>3
  <2>2. QED
    BY <2>1, UnitRequestsAreHarmless
<1>8. CASE name = "scan"
  <2>1. CASE ScanAlgorithmForExecution(c) = "boundary"
    <3>1. Sends(name, c) = <<Request(c.unit, c.function, c.seedStart, c.seedCount)>>
      BY <1>8, <2>1, Zenon DEF Sends
    <3>2. c.function \in ReadFunctions
      <4>1. CheckScanConfig(c)
        BY <1>8, Zenon DEF Accepts
      <4>2. QED
        BY <4>1, Zenon DEF CheckScanConfig, validateFunctionCode
    <3>3. QED
      BY <3>1, <3>2, ReadsAreHarmless
  <2>2. CASE ScanAlgorithmForExecution(c) # "boundary"
    <3>1. Sends(name, c) = <<>>
      BY <1>8, <2>2, Zenon DEF Sends
    <3>2. QED
      BY <3>1
  <2>3. QED
    BY <2>1, <2>2
<1>9. QED
  BY <1>1, <1>2, <1>3, <1>4, <1>5, <1>6, <1>7, <1>8 DEF Senders
-----------------------------------------------------------------------------
\* Init and every step keep what CheckedInv says.
LEMMA InitInv == Init => CheckedInv
  BY DEF Init, CheckedInv

\* Checking decides, and sending sends what was accepted.
LEMMA StepInv == CheckedInv /\ [Next]_vars => CheckedInv'
<1> SUFFICES ASSUME CheckedInv, [Next]_vars PROVE CheckedInv'
  OBVIOUS
<1>1. CASE Validate
  BY <1>1 DEF CheckedInv, Validate
<1>2. CASE Send
  BY <1>2 DEF CheckedInv, Send
<1>3. CASE UNCHANGED vars
  BY <1>3 DEF CheckedInv, vars
<1>4. QED
  BY <1>1, <1>2, <1>3 DEF Next

\* What was checked and sent needed no confirmation, or had one.
LEMMA CheckedIsConfirmed == CheckedInv => ChangesAreConfirmed
<1> SUFFICES ASSUME CheckedInv, NEW i \in DOMAIN sent, Changes(sent[i])
             PROVE  Confirmed(command, config)
  BY DEF ChangesAreConfirmed, Confirmed
<1>1. sent # <<>>
  OBVIOUS
<1>2. Accepts(command, config) /\ sent = Sends(command, config)
  BY <1>1 DEF CheckedInv
<1>3. command \in Senders
  BY <1>1, <1>2, OthersSendNothing
<1>4. QED
  BY <1>2, <1>3, UnconfirmedIsHarmless DEF Harmless

\* No command, whatever its configuration and the limits of the protocol, sends
\* a request that changes a device unless it was confirmed with --yes.
THEOREM NothingChangesUnconfirmed == Spec => []ChangesAreConfirmed
  BY InitInv, StepInv, CheckedIsConfirmed, PTL DEF Spec
-----------------------------------------------------------------------------
(* The recursive functions: loops over a list, or over the units.          *)

\* A set of natural numbers has a least element.
LEMMA LeastElement ==
  ASSUME NEW S, S \subseteq Nat, S # {}
  PROVE  \E n \in S : \A m \in S : n <= m
<1>1. PICK n \in S : \A m \in S : <<m, n>> \notin OpToRel(<, Nat)
  BY NatLessThanWellFounded, WFMin
<1>2. \A m \in S : ~(m < n)
  BY <1>1 DEF OpToRel
<1>3. QED
  BY <1>2

\* Induction over the natural numbers, for a set.
LEMMA SetInduction ==
  ASSUME NEW T, 0 \in T, \A n \in Nat : n \in T => n + 1 \in T
  PROVE  Nat \subseteq T
<1> SUFFICES ASSUME Nat \ T # {} PROVE FALSE
  OBVIOUS
<1>1. PICK n \in Nat \ T : \A m \in Nat \ T : n <= m
  <2>1. Nat \ T \subseteq Nat
    OBVIOUS
  <2>2. QED
    BY <2>1, LeastElement
<1>2. n # 0 /\ n - 1 \in Nat
  BY <1>1
<1>3. n - 1 \in T
  BY <1>1, <1>2
<1>4. (n - 1) + 1 \in T
  BY <1>2, <1>3
<1>5. QED
  BY <1>1, <1>2, <1>4

\* What a loop of m passes over a state in S has computed after each.
LoopEnds(m, S, base, step) ==
  \E f \in [0 .. m -> S] : f[0] = base /\ \A n \in 1 .. m : f[n] = step[<<n, f[n - 1]>>]

\* It computes something, as long as each pass leaves the state in S.
LEMMA LoopComputes ==
  ASSUME NEW m \in Nat, NEW S, NEW base \in S, NEW step \in [(1 .. m) \X S -> S]
  PROVE  LoopEnds(m, S, base, step)
<1> DEFINE Computes(k, f) == f[0] = base /\ \A n \in 1 .. k : f[n] = step[<<n, f[n - 1]>>]
           T == {k \in Nat : k <= m => \E f \in [0 .. k -> S] : Computes(k, f)}
<1>1. 0 \in T
  <2>1. [n \in 0 .. 0 |-> base] \in [0 .. 0 -> S] /\ Computes(0, [n \in 0 .. 0 |-> base])
    OBVIOUS
  <2>2. QED
    BY <2>1
<1>2. ASSUME NEW k \in Nat, k \in T PROVE k + 1 \in T
  <2> SUFFICES ASSUME k + 1 <= m PROVE \E f \in [0 .. k + 1 -> S] : Computes(k + 1, f)
    OBVIOUS
  <2>1. PICK f \in [0 .. k -> S] : Computes(k, f)
    BY <1>2
  <2>2. PICK last : last = step[<<k + 1, f[k]>>]
    OBVIOUS
  <2>3. last \in S
    <3>1. <<k + 1, f[k]>> \in (1 .. m) \X S
      OBVIOUS
    <3>2. QED
      BY <2>2, <3>1
  <2> DEFINE g == [n \in 0 .. k + 1 |-> IF n = k + 1 THEN last ELSE f[n]]
  <2>4. g \in [0 .. k + 1 -> S]
    BY <2>3
  <2>5. Computes(k + 1, g)
    <3>1. g[0] = base
      BY <2>1
    <3>2. ASSUME NEW n \in 1 .. k + 1 PROVE g[n] = step[<<n, g[n - 1]>>]
      <4>1. g[n - 1] = f[n - 1]
        OBVIOUS
      <4>2. CASE n = k + 1
        <5>1. g[n] = last /\ g[n - 1] = f[k] /\ n = k + 1
          BY <4>1, <4>2
        <5>2. QED
          BY <2>2, <5>1, Zenon
      <4>3. CASE n \in 1 .. k
        <5>1. g[n] = f[n] /\ f[n] = step[<<n, f[n - 1]>>]
          BY <2>1, <4>3
        <5>2. QED
          BY <4>1, <5>1
      <4>4. QED
        BY <4>2, <4>3
    <3>3. QED
      BY <3>1, <3>2
  <2> HIDE DEF g, Computes
  <2>6. QED
    BY <2>4, <2>5
<1>3. m \in T
  <2> HIDE DEF T
  <2>1. QED
    BY <1>1, <1>2, SetInduction
<1>4. QED
  BY <1>3 DEF LoopEnds

\* slices.Sort: the units of a set, each once, in ascending order.
LEMMA AscendingIs ==
  ASSUME NEW ids, ids \subseteq 0 .. MaxUnit
  PROVE  /\ Ascending(ids) \in Seq(ids)
         /\ {Ascending(ids)[i] : i \in DOMAIN Ascending(ids)} = ids
         /\ \A i \in DOMAIN Ascending(ids) : i > 1 => Ascending(ids)[i - 1] < Ascending(ids)[i]
<1> DEFINE Below(f) == [n \in 0 .. MaxUnit + 1 |->
                          IF n = 0 THEN <<>>
                          ELSE IF n - 1 \in ids THEN Append(f[n - 1], n - 1) ELSE f[n - 1]]
           below == CHOOSE f : f = Below(f)
           Sorts(n, s) == /\ s \in Seq(ids)
                          /\ {s[i] : i \in DOMAIN s} = ids \cap 0 .. n - 1
                          /\ \A i \in DOMAIN s : i > 1 => s[i - 1] < s[i]
           T == {n \in Nat : n <= MaxUnit + 1 => Sorts(n, below[n])}
<1>1. MaxUnit \in Nat /\ MaxUnit + 1 \in Nat
  BY LimitsAssumption
<1>2. \E f : f = Below(f)
  <2> DEFINE step == [p \in (1 .. MaxUnit + 1) \X Seq(ids) |->
                        IF p[1] - 1 \in ids THEN Append(p[2], p[1] - 1) ELSE p[2]]
  <2>1. step \in [(1 .. MaxUnit + 1) \X Seq(ids) -> Seq(ids)]
    OBVIOUS
  <2>2. \A n \in 1 .. MaxUnit + 1, s \in Seq(ids) :
           step[<<n, s>>] = IF n - 1 \in ids THEN Append(s, n - 1) ELSE s
    OBVIOUS
  <2> HIDE DEF step
  <2>3. PICK f \in [0 .. MaxUnit + 1 -> Seq(ids)] :
          f[0] = <<>> /\ \A n \in 1 .. MaxUnit + 1 : f[n] = step[<<n, f[n - 1]>>]
    <3>1. <<>> \in Seq(ids)
      OBVIOUS
    <3>2. LoopEnds(MaxUnit + 1, Seq(ids), <<>>, step)
      BY <1>1, <2>1, <3>1, LoopComputes
    <3>3. QED
      BY <3>2 DEF LoopEnds
  <2>4. \A n \in 0 .. MaxUnit + 1 :
          f[n] = IF n = 0 THEN <<>> ELSE IF n - 1 \in ids THEN Append(f[n - 1], n - 1) ELSE f[n - 1]
    <3> SUFFICES ASSUME NEW n \in 0 .. MaxUnit + 1, n # 0
                 PROVE  f[n] = IF n - 1 \in ids THEN Append(f[n - 1], n - 1) ELSE f[n - 1]
      BY <2>3
    <3>1. f[n] = step[<<n, f[n - 1]>>] /\ f[n - 1] \in Seq(ids) /\ n \in 1 .. MaxUnit + 1
      BY <1>1, <2>3
    <3>2. QED
      BY <2>2, <3>1
  <2>5. f = Below(f)
    BY <2>3, <2>4
  <2>6. QED
    <3> HIDE DEF Below
    <3>1. QED
      BY <2>5
<1>3. below = Below(below)
  <2> HIDE DEF Below
  <2>1. QED
    BY <1>2
<1>4. Ascending(ids) = below[MaxUnit + 1]
  BY DEF Ascending
<1> HIDE DEF below
<1>5. 0 \in T
  <2>1. below[0] = <<>>
    BY <1>1, <1>3
  <2>2. Sorts(0, <<>>)
    OBVIOUS
  <2> HIDE DEF Sorts
  <2>3. QED
    BY <2>1, <2>2
<1>6. ASSUME NEW n \in Nat, n \in T PROVE n + 1 \in T
  <2> SUFFICES ASSUME n + 1 <= MaxUnit + 1 PROVE Sorts(n + 1, below[n + 1])
    OBVIOUS
  <2>1. PICK s : s = below[n]
    OBVIOUS
  <2>2. Sorts(n, s)
    BY <1>1, <1>6, <2>1
  <2>3. below[n + 1] = IF n \in ids THEN Append(s, n) ELSE s
    <3>1. n + 1 \in 0 .. MaxUnit + 1 /\ n + 1 # 0 /\ (n + 1) - 1 = n
      BY <1>1
    <3>2. QED
      BY <1>3, <2>1, <3>1
  <2>4. CASE n \notin ids
    <3>1. ids \cap 0 .. (n + 1) - 1 = ids \cap 0 .. n - 1
      BY <2>4
    <3>2. QED
      BY <2>2, <2>3, <2>4, <3>1
  <2>5. CASE n \in ids
    <3>1. PICK t : t = Append(s, n)
      OBVIOUS
    <3>2. t \in Seq(ids) /\ DOMAIN t = 1 .. Len(s) + 1
      BY <2>2, <2>5, <3>1
    <3>3. \A i \in 1 .. Len(s) : t[i] = s[i]
      BY <2>2, <3>1
    <3>4. t[Len(s) + 1] = n
      BY <2>2, <3>1
    <3>5. \A i \in 1 .. Len(s) : s[i] \in ids /\ s[i] \in 0 .. n - 1
      BY <2>2
    <3>6. {t[i] : i \in DOMAIN t} = ids \cap 0 .. (n + 1) - 1
      <4>1. ids \cap 0 .. (n + 1) - 1 = (ids \cap 0 .. n - 1) \cup {n}
        BY <2>5
      <4>2. Len(s) \in Nat /\ DOMAIN s = 1 .. Len(s)
        BY <2>2
      <4>3. {t[i] : i \in DOMAIN t} = {s[i] : i \in DOMAIN s} \cup {n}
        BY <3>2, <3>3, <3>4, <4>2
      <4>4. QED
        BY <2>2, <4>1, <4>3
    <3>7. ASSUME NEW i \in DOMAIN t, i > 1 PROVE t[i - 1] < t[i]
      <4>1. CASE i = Len(s) + 1
        <5>1. t[i - 1] \in 0 .. n - 1
          BY <2>2, <3>2, <3>3, <3>5, <3>7, <4>1
        <5>2. QED
          BY <3>4, <4>1, <5>1
      <4>2. CASE i # Len(s) + 1
        <5>1. i \in DOMAIN s /\ i - 1 \in 1 .. Len(s) /\ i \in 1 .. Len(s)
          BY <2>2, <3>2, <3>7, <4>2
        <5>2. QED
          BY <2>2, <3>3, <3>7, <5>1
      <4>3. QED
        BY <4>1, <4>2
    <3>8. QED
      BY <2>3, <2>5, <3>1, <3>2, <3>6, <3>7
  <2>6. QED
    BY <2>4, <2>5
<1>7. MaxUnit + 1 \in T
  <2> HIDE DEF T
  <2>1. QED
    BY <1>1, <1>5, <1>6, SetInduction
<1>8. Sorts(MaxUnit + 1, Ascending(ids))
  BY <1>1, <1>4, <1>7
<1>9. ids \cap 0 .. (MaxUnit + 1) - 1 = ids
  <2>1. (MaxUnit + 1) - 1 = MaxUnit
    BY <1>1
  <2>2. QED
    BY <2>1, Zenon
<1>10. QED
  BY <1>8, <1>9

\* Leaving out the blanks leaves values.
LEMMA GivenAreValues ==
  ASSUME NEW values \in Seq(Value)
  PROVE  Given(values) \in Seq(Value)
<1> DEFINE Among(f) == [n \in 0 .. Len(values) |->
                          IF n = 0 THEN <<>>
                          ELSE IF values[n] = Blank THEN f[n - 1] ELSE Append(f[n - 1], values[n])]
           among == CHOOSE f : f = Among(f)
           T == {n \in Nat : n <= Len(values) => among[n] \in Seq(Value)}
<1> HIDE DEF Value
<1>1. Len(values) \in Nat /\ \A n \in 1 .. Len(values) : values[n] \in Value
  OBVIOUS
<1>2. \E f : f = Among(f)
  <2> DEFINE step == [p \in (1 .. Len(values)) \X Seq(Value) |->
                        IF values[p[1]] = Blank THEN p[2] ELSE Append(p[2], values[p[1]])]
  <2>1. step \in [(1 .. Len(values)) \X Seq(Value) -> Seq(Value)]
    BY <1>1
  <2>2. \A n \in 1 .. Len(values), s \in Seq(Value) :
           step[<<n, s>>] = IF values[n] = Blank THEN s ELSE Append(s, values[n])
    OBVIOUS
  <2> HIDE DEF step
  <2>3. PICK f \in [0 .. Len(values) -> Seq(Value)] :
          f[0] = <<>> /\ \A n \in 1 .. Len(values) : f[n] = step[<<n, f[n - 1]>>]
    <3>1. <<>> \in Seq(Value)
      OBVIOUS
    <3>2. LoopEnds(Len(values), Seq(Value), <<>>, step)
      BY <1>1, <2>1, <3>1, LoopComputes
    <3>3. QED
      BY <3>2 DEF LoopEnds
  <2>4. \A n \in 0 .. Len(values) :
          f[n] = IF n = 0 THEN <<>>
                 ELSE IF values[n] = Blank THEN f[n - 1] ELSE Append(f[n - 1], values[n])
    <3> SUFFICES ASSUME NEW n \in 0 .. Len(values), n # 0
                 PROVE  f[n] = IF values[n] = Blank THEN f[n - 1] ELSE Append(f[n - 1], values[n])
      BY <2>3
    <3>1. f[n] = step[<<n, f[n - 1]>>] /\ f[n - 1] \in Seq(Value) /\ n \in 1 .. Len(values)
      BY <1>1, <2>3
    <3>2. QED
      BY <2>2, <3>1
  <2>5. f = Among(f)
    BY <2>3, <2>4
  <2>6. QED
    <3> HIDE DEF Among
    <3>1. QED
      BY <2>5
<1>3. among = Among(among)
  <2> HIDE DEF Among
  <2>1. QED
    BY <1>2
<1>4. Given(values) = among[Len(values)]
  BY DEF Given
<1> HIDE DEF among
<1>5. 0 \in T
  <2>1. among[0] = <<>>
    BY <1>1, <1>3
  <2>2. <<>> \in Seq(Value)
    OBVIOUS
  <2>3. QED
    BY <2>1, <2>2
<1>6. ASSUME NEW n \in Nat, n \in T PROVE n + 1 \in T
  <2> SUFFICES ASSUME n + 1 <= Len(values) PROVE among[n + 1] \in Seq(Value)
    OBVIOUS
  <2>1. n + 1 \in 1 .. Len(values) /\ n + 1 # 0 /\ (n + 1) - 1 = n /\ among[n] \in Seq(Value)
    BY <1>1, <1>6
  <2>2. among[n + 1] = IF values[n + 1] = Blank THEN among[n] ELSE Append(among[n], values[n + 1])
    <3>1. among[n + 1] = Among(among)[n + 1]
      <4> HIDE DEF Among
      <4>1. QED
        BY <1>3
    <3>2. n + 1 \in 0 .. Len(values)
      BY <1>1, <2>1
    <3>3. Among(among)[n + 1] = IF values[n + 1] = Blank THEN among[(n + 1) - 1]
                                ELSE Append(among[(n + 1) - 1], values[n + 1])
      BY <2>1, <3>2
    <3>4. QED
      BY <2>1, <3>1, <3>3
  <2>3. QED
    BY <1>1, <2>1, <2>2
<1>7. Len(values) \in T
  <2> HIDE DEF T
  <2>1. QED
    BY <1>1, <1>5, <1>6, SetInduction
<1>8. QED
  BY <1>1, <1>4, <1>7

\* The answer to a request for file records is not empty.
LEMMA FileResponsesAreLong ==
  ASSUME NEW records \in Seq(FileRecord), Len(records) >= 1
  PROVE  FileResponseSize(records) \in Nat \ {0}
<1> DEFINE Sums(f) ==
      [n \in 0 .. Len(records) |-> IF n = 0 THEN 0 ELSE f[n - 1] + 2 + 2 * records[n].length]
           size == CHOOSE f : f = Sums(f)
           T == {n \in Nat : n <= Len(records) => size[n] \in Nat /\ (n > 0 => size[n] > 0)}
<1>1. Len(records) \in Nat /\ \A n \in 1 .. Len(records) : records[n].length \in Nat
  <2>1. \A n \in 1 .. Len(records) : records[n] \in FileRecord
    OBVIOUS
  <2>2. \A r \in FileRecord : r.length \in Nat
    BY DEF FileRecord
  <2>3. QED
    BY <2>1, <2>2
<1>2. \E f : f = Sums(f)
  <2> DEFINE step == [p \in (1 .. Len(records)) \X Nat |-> p[2] + 2 + 2 * records[p[1]].length]
  <2>1. step \in [(1 .. Len(records)) \X Nat -> Nat]
    BY <1>1
  <2>2. \A n \in 1 .. Len(records), s \in Nat : step[<<n, s>>] = s + 2 + 2 * records[n].length
    OBVIOUS
  <2> HIDE DEF step
  <2>3. PICK f \in [0 .. Len(records) -> Nat] :
          f[0] = 0 /\ \A n \in 1 .. Len(records) : f[n] = step[<<n, f[n - 1]>>]
    <3>1. LoopEnds(Len(records), Nat, 0, step)
      BY <1>1, <2>1, LoopComputes
    <3>2. QED
      BY <3>1 DEF LoopEnds
  <2>4. \A n \in 0 .. Len(records) :
          f[n] = IF n = 0 THEN 0 ELSE f[n - 1] + 2 + 2 * records[n].length
    <3> SUFFICES ASSUME NEW n \in 0 .. Len(records), n # 0
                 PROVE  f[n] = f[n - 1] + 2 + 2 * records[n].length
      BY <2>3
    <3>1. n \in 1 .. Len(records) /\ n - 1 \in 0 .. Len(records)
      BY <1>1
    <3>2. f[n] = step[<<n, f[n - 1]>>] /\ f[n - 1] \in Nat
      BY <2>3, <3>1
    <3>3. QED
      BY <2>2, <3>1, <3>2
  <2>5. f = Sums(f)
    BY <2>3, <2>4
  <2>6. QED
    <3> HIDE DEF Sums
    <3>1. QED
      BY <2>5
<1>3. size = Sums(size)
  <2> HIDE DEF Sums
  <2>1. QED
    BY <1>2
<1>4. FileResponseSize(records) = size[Len(records)]
  BY DEF FileResponseSize
<1> HIDE DEF size
<1>5. 0 \in T
  <2>1. size[0] = 0
    BY <1>1, <1>3
  <2>2. QED
    BY <2>1
<1>6. ASSUME NEW n \in Nat, n \in T PROVE n + 1 \in T
  <2> SUFFICES ASSUME n + 1 <= Len(records) PROVE size[n + 1] \in Nat /\ size[n + 1] > 0
    OBVIOUS
  <2>1. n + 1 \in 1 .. Len(records) /\ n + 1 # 0 /\ (n + 1) - 1 = n /\ size[n] \in Nat
    BY <1>1, <1>6
  <2>2. size[n + 1] = size[n] + 2 + 2 * records[n + 1].length
    BY <1>1, <1>3, <2>1
  <2>3. QED
    BY <1>1, <2>1, <2>2
<1>7. Len(records) \in T
  <2> HIDE DEF T
  <2>1. QED
    BY <1>1, <1>5, <1>6, SetInduction
<1>8. QED
  BY <1>1, <1>4, <1>7
-----------------------------------------------------------------------------
(* The requests of the commands over units.                                *)

\* A selector that is accepted has the units it means.
LEMMA UnitsAreMeant ==
  ASSUME NEW selector, ParseUnitIDs(selector) # NoUnits
  PROVE  /\ ParseUnitIDs(selector) = Ascending(Meant(selector))
         /\ Meant(selector) \subseteq 1 .. MaxUnit
<1> DEFINE parts == IF selector.all THEN <<Part(1, MaxUnit)>> ELSE selector.parts
           seen == UNION {WalkPart(parts[i]) : i \in DOMAIN parts}
           meant == UNION {parts[i].lo .. parts[i].hi : i \in DOMAIN parts}
<1>1. MaxUnit \in Nat \ {0}
  BY LimitsAssumption
<1>2. \A i \in DOMAIN parts : GoodPart(parts[i])
  <2>1. ParseUnitIDs(selector) =
        IF \A i \in DOMAIN parts : GoodPart(parts[i]) THEN Ascending(seen) ELSE NoUnits
    BY DEF ParseUnitIDs
  <2> HIDE DEF parts, seen
  <2>2. QED
    BY <2>1
<1>3. ParseUnitIDs(selector) = Ascending(seen)
  <2>1. ParseUnitIDs(selector) =
        IF \A i \in DOMAIN parts : GoodPart(parts[i]) THEN Ascending(seen) ELSE NoUnits
    BY DEF ParseUnitIDs
  <2> HIDE DEF parts, seen
  <2>2. QED
    BY <1>2, <2>1
<1>4. Meant(selector) = meant
  <2>1. CASE selector.all
    <3>1. parts = <<Part(1, MaxUnit)>>
      BY <2>1
    <3>2. Part(1, MaxUnit).lo = 1 /\ Part(1, MaxUnit).hi = MaxUnit
      BY DEF Part
    <3>3. meant = 1 .. MaxUnit
      <4> HIDE DEF parts
      <4>1. DOMAIN parts = {1} /\ parts[1] = Part(1, MaxUnit)
        BY <3>1
      <4>2. QED
        BY <3>2, <4>1, Zenon
    <3>4. QED
      BY <2>1, <3>3, Zenon DEF Meant
  <2>2. CASE ~selector.all
    <3>1. parts = selector.parts
      BY <2>2
    <3> HIDE DEF parts
    <3>2. QED
      BY <2>2, <3>1, Zenon DEF Meant
  <2>3. QED
    BY <2>1, <2>2
<1> HIDE DEF parts
<1>5. ASSUME NEW i \in DOMAIN parts
      PROVE  WalkPart(parts[i]) = parts[i].lo .. parts[i].hi
             /\ parts[i].lo .. parts[i].hi \subseteq 1 .. MaxUnit
  BY <1>1, <1>2 DEF GoodPart, WalkPart
<1>6. seen = meant /\ meant \subseteq 1 .. MaxUnit
  BY <1>5, Zenon
<1>7. QED
  BY <1>3, <1>4, <1>6

\* Whatever function they begin with, they ask the units of the selector.
LEMMA UnitsAreAskedOnce ==
  ASSUME NEW c, NEW function, ParseUnitIDs(c.units) # NoUnits,
         NEW requests, requests = ToUnits(c, function)
  PROVE  /\ requests # <<>>
         /\ {requests[i].unit : i \in DOMAIN requests} = Meant(c.units) \ {0}
         /\ \A i \in DOMAIN requests :
              requests[i].unit # 0 /\ (i > 1 => requests[i - 1].unit < requests[i].unit)
<1>1. PICK units, meant : units = ParseUnitIDs(c.units) /\ meant = Meant(c.units)
  OBVIOUS
<1>2. units = Ascending(meant) /\ meant \subseteq 1 .. MaxUnit /\ meant \subseteq 0 .. MaxUnit
      /\ 0 \notin meant
  BY <1>1, UnitsAreMeant, LimitsAssumption
<1>3. /\ units \in Seq(meant) /\ {units[i] : i \in DOMAIN units} = meant
      /\ \A i \in DOMAIN units : i > 1 => units[i - 1] < units[i]
  <2>1. /\ Ascending(meant) \in Seq(meant)
        /\ {Ascending(meant)[i] : i \in DOMAIN Ascending(meant)} = meant
        /\ \A i \in DOMAIN Ascending(meant) : i > 1 => Ascending(meant)[i - 1] < Ascending(meant)[i]
    BY <1>2, AscendingIs
  <2>2. QED
    BY <1>2, <2>1
<1>4. requests = [i \in DOMAIN units |-> Request(units[i], function, 0, 0)]
  BY <1>1 DEF ToUnits
<1>5. DOMAIN units = 1 .. Len(units) /\ Len(units) \in Nat /\ DOMAIN requests = DOMAIN units
  BY <1>3, <1>4
<1>6. \A i \in DOMAIN units : requests[i].unit = units[i]
  BY <1>4 DEF Request
<1>7. requests # <<>>
  <2>1. units # <<>>
    BY <1>1 DEF NoUnits
  <2>2. Len(units) # 0
    BY <1>3, <2>1
  <2>3. 1 \in DOMAIN requests
    BY <1>5, <2>2
  <2>4. QED
    BY <2>3
<1>8. {requests[i].unit : i \in DOMAIN requests} = meant \ {0}
  <2>1. {requests[i].unit : i \in DOMAIN requests} = {units[i] : i \in DOMAIN units}
    BY <1>5, <1>6
  <2>2. QED
    BY <1>2, <1>3, <2>1
<1>9. ASSUME NEW i \in DOMAIN requests
      PROVE  requests[i].unit # 0 /\ (i > 1 => requests[i - 1].unit < requests[i].unit)
  <2>1. requests[i].unit = units[i] /\ units[i] \in meant
    BY <1>3, <1>5, <1>6
  <2>2. ASSUME i > 1 PROVE requests[i - 1].unit < requests[i].unit
    <3>1. i - 1 \in DOMAIN units
      BY <1>5, <2>2
    <3>2. QED
      BY <1>3, <1>5, <1>6, <2>2, <3>1
  <2>3. QED
    BY <1>2, <2>1, <2>2
<1>10. QED
  BY <1>1, <1>7, <1>8, <1>9

\* "all" is some unit at least.
LEMMA AllUnitsAreSome ==
  ASSUME NEW selector, selector.all
  PROVE  ParseUnitIDs(selector) # NoUnits
<1>1. MaxUnit \in Nat \ {0}
  BY LimitsAssumption
<1> DEFINE parts == <<Part(1, MaxUnit)>>
           seen == UNION {WalkPart(parts[i]) : i \in DOMAIN parts}
<1>2. DOMAIN parts = {1} /\ parts[1].lo = 1 /\ parts[1].hi = MaxUnit
  BY DEF Part
<1>3. ParseUnitIDs(selector) =
      IF \A i \in DOMAIN parts : GoodPart(parts[i]) THEN Ascending(seen) ELSE NoUnits
  BY DEF ParseUnitIDs
<1> HIDE DEF parts
<1>4. GoodPart(parts[1]) /\ WalkPart(parts[1]) = 1 .. MaxUnit
  BY <1>1, <1>2 DEF GoodPart, WalkPart
<1>5. seen = 1 .. MaxUnit
  BY <1>2, <1>4, Zenon
<1> HIDE DEF seen
<1>6. ParseUnitIDs(selector) = Ascending(seen) /\ seen \subseteq 0 .. MaxUnit /\ 1 \in seen
  BY <1>1, <1>2, <1>3, <1>4, <1>5
<1>7. {Ascending(seen)[i] : i \in DOMAIN Ascending(seen)} = seen
  BY <1>6, AscendingIs
<1>8. QED
  BY <1>6, <1>7 DEF NoUnits

\* So do the commands that were accepted.
LEMMA CheckedAskOnce == CheckedInv => UnitsAskedOnce
<1> SUFFICES ASSUME CheckedInv, command \in {"identify", "reportserverid", "fingerprint"},
      verdict = "done"
             PROVE  /\ sent # <<>>
                    /\ {sent[i].unit : i \in DOMAIN sent} = Meant(config.units) \ {0}
                    /\ \A i \in DOMAIN sent : sent[i].unit # 0
                                              /\ (i > 1 => sent[i - 1].unit < sent[i].unit)
  BY DEF UnitsAskedOnce
<1>1. Accepts(command, config) /\ sent = Sends(command, config)
  BY DEF CheckedInv
<1>2. PICK c, requests : c = config /\ requests = sent
  OBVIOUS
<1>3. PICK function : requests = ToUnits(c, function)
  <2>1. CASE command = "identify"
    BY <1>1, <1>2, <2>1, Zenon DEF Sends
  <2>2. CASE command = "reportserverid"
    BY <1>1, <1>2, <2>2, Zenon DEF Sends
  <2>3. CASE command = "fingerprint"
    BY <1>1, <1>2, <2>3, Zenon DEF Sends
  <2>4. QED
    BY <2>1, <2>2, <2>3
<1>4. ParseUnitIDs(c.units) # NoUnits
  <2>1. CASE command = "fingerprint"
    <3>1. CheckFingerprintConfig(c)
      BY <1>1, <1>2, <2>1, Zenon DEF Accepts
    <3>2. QED
      BY <3>1, Zenon DEF CheckFingerprintConfig
  <2>2. CASE command # "fingerprint"
    <3>1. validateUnitClientConfig(c)
      <4>1. CheckIdentifyConfig(c)
        <5>1. command = "identify" \/ command = "reportserverid"
          BY <2>2
        <5>2. QED
          BY <1>1, <1>2, <5>1, Zenon DEF Accepts
      <4>2. QED
        BY <4>1, Zenon DEF CheckIdentifyConfig
    <3>2. CASE c.units.all
      BY <3>2, AllUnitsAreSome
    <3>3. CASE ~c.units.all
      BY <3>1, <3>3, Zenon DEF validateUnitClientConfig
    <3>4. QED
      BY <3>2, <3>3
  <2>3. QED
    BY <2>1, <2>2
<1>5. QED
  BY <1>2, <1>3, <1>4, UnitsAreAskedOnce

\* The commands over several units ask each unit that the selector means, once
\* and in order, and never unit 0: for any list of ranges, and any highest unit.
THEOREM EveryUnitIsAsked == Spec => []UnitsAskedOnce
  BY InitInv, StepInv, CheckedAskOnce, PTL DEF Spec
-----------------------------------------------------------------------------
(* The requests that fit.                                                   *)

\* The limits are natural numbers.
LEMMA Limits ==
  /\ AddrMax \in Nat /\ Space = AddrMax + 1 /\ Space \in Nat
  /\ MaxBlock \in Nat /\ MaxBits \in Nat /\ MaxBlock <= MaxBits
  /\ MaxEcho \in Nat /\ 2 <= MaxEcho
  /\ MaxWriteRegisters \in Nat /\ MaxWriteCoils \in Nat /\ MaxFileResponse \in Nat
  BY LimitsAssumption DEF Space

\* A window within the limit of its function and the address space.
LEMMA WindowsFit ==
  ASSUME NEW r, r.function \in ReadFunctions \cup {5, 6, 15, 16},
         r.start \in Address, r.count \in Int,
         1 <= r.count, r.count <= Limit(r.function), r.start + r.count <= Space
  PROVE  Allowed(r)
<1>1. r.count \in 1 .. Limit(r.function)
  <2>1. Limit(r.function) \in Int
    <3>1. CASE r.function \in {5, 6}
      <4>1. r.function # 15 /\ r.function # 16
        BY <3>1
      <4>2. Limit(r.function) = 1
        BY <3>1, <4>1, Zenon DEF Limit
      <4>3. QED
        BY <4>2
    <3>2. CASE r.function = 15
      <4>1. Limit(r.function) = MaxWriteCoils
        <5>1. r.function \notin {5, 6} /\ r.function # 16
          BY <3>2
        <5>2. QED
          BY <3>2, <5>1, Zenon DEF Limit
      <4>2. QED
        BY <4>1, Limits
    <3>3. CASE r.function = 16
      <4>1. Limit(r.function) = MaxWriteRegisters
        <5>1. r.function \notin {5, 6} /\ r.function # 15
          BY <3>3
        <5>2. QED
          BY <3>3, <5>1, Zenon DEF Limit
      <4>2. QED
        BY <4>1, Limits
    <3>4. CASE r.function \in ReadFunctions
      <4>1. r.function \notin {5, 6} /\ r.function # 15 /\ r.function # 16
        BY <3>4 DEF ReadFunctions
      <4>2. Limit(r.function) = ReadLimit(r.function)
        BY <4>1, Zenon DEF Limit
      <4>3. QED
        BY <4>2, Limits DEF ReadLimit
    <3>5. QED
      BY <3>1, <3>2, <3>3, <3>4
  <2>2. QED
    BY <2>1
<1>2. r.start .. r.start + r.count - 1 \subseteq 0 .. AddrMax
  BY Limits DEF Address
<1>3. r.function # 8 /\ r.function # 20
  BY DEF ReadFunctions
<1>4. QED
  BY <1>1, <1>2, <1>3, Zenon DEF Allowed

\* The limit of a read function.
LEMMA ReadLimits ==
  ASSUME NEW function \in ReadFunctions
  PROVE  Limit(function) = ReadLimit(function) /\ MaxBlock <= ReadLimit(function)
<1>1. function \notin {5, 6} /\ function # 15 /\ function # 16
  BY DEF ReadFunctions
<1>2. Limit(function) = ReadLimit(function)
  BY <1>1, Zenon DEF Limit
<1>3. QED
  BY <1>2, Limits DEF ReadLimit

\* What a request is made of.
LEMMA RequestFields ==
  ASSUME NEW unit, NEW function, NEW start, NEW count
  PROVE  LET r == Request(unit, function, start, count)
         IN r.function = function /\ r.start = start /\ r.count = count
  BY DEF Request

\* A read that was checked fits.
LEMMA ReadsFit ==
  ASSUME NEW unit, NEW function \in ReadFunctions, NEW start \in Address, NEW count \in Int,
         1 <= count, count <= ReadLimit(function), start + count <= Space
  PROVE  Allowed(Request(unit, function, start, count))
<1>1. PICK r : r = Request(unit, function, start, count)
  OBVIOUS
<1>2. r.function = function /\ r.start = start /\ r.count = count
  BY <1>1, RequestFields
<1>3. Allowed(r)
  BY <1>2, ReadLimits, WindowsFit
<1>4. QED
  BY <1>1, <1>3

\* What a codec makes of a count.
LEMMA CodecCounts ==
  ASSUME NEW codec, NEW count \in Nat, CodecCount(Widths, codec, count) # Refused
  PROVE  CodecCount(Widths, codec, count) \in Nat \ {0}
<1>1. codec \in DOMAIN Widths
  BY DEF CodecCount
<1>2. PICK per : per = Widths[codec]
  OBVIOUS
<1>3. per \in Nat
  BY <1>1, <1>2, ConfigsAssumption
<1>4. CodecCount(Widths, codec, count) =
        IF per = 0 THEN Refused
        ELSE IF count = 0 THEN per ELSE IF count % per # 0 THEN Refused ELSE count
  BY <1>1, <1>2 DEF CodecCount
<1>5. QED
  BY <1>3, <1>4

\* The types of the configuration of a command.
LEMMA ConfigTypes ==
  ASSUME NEW name \in Commands, NEW c \in Configs[name]
  PROVE  /\ name \in Clients => c.endpoint.port \in Nat
         /\ name \in {"read", "decode", "poll", "write"} => c.start \in Address
         /\ name \in {"read", "decode", "poll"} => c.count \in Nat
         /\ name = "write" => WriteTyped(c)
         /\ name = "record" => c.plan \in Seq(PlanRequest)
         /\ name = "diagnostic" => c.data \in Data /\ Blankness(c.data)
         /\ name = "scan" => c.start \in Address /\ c.end \in Address /\ c.seedStart \in Address
<1>1. name \in Clients => name \notin {"discover", "static", "replay", "extract", "strings", "profile"}
  BY DEF Clients
<1>2. QED
  BY <1>1, ConfigsAssumption, Zenon DEF EndpointTyped

\* Every command that is a client checks the endpoint.
LEMMA EndpointsAreChecked ==
  ASSUME NEW name \in Clients, NEW c, Accepts(name, c)
  PROVE  validateModbusEndpoint(c.endpoint)
<1>1. ASSUME Endpoint(c) PROVE validateModbusEndpoint(c.endpoint)
  BY <1>1, Zenon DEF Endpoint
<1>2. ASSUME Device(c) PROVE validateModbusEndpoint(c.endpoint)
  BY <1>1, <1>2, Zenon DEF Device
<1>3. CASE name = "read"
  BY <1>2, <1>3, Zenon DEF Accepts, CheckReadConfig
<1>4. CASE name = "decode"
  BY <1>2, <1>4, Zenon DEF Accepts, CheckDecodeConfig
<1>5. CASE name = "poll"
  BY <1>2, <1>5, Zenon DEF Accepts, CheckPollConfig
<1>6. CASE name = "record"
  BY <1>2, <1>6, Zenon DEF Accepts, CheckRecordConfig
<1>7. CASE name = "write"
  BY <1>2, <1>7, Zenon DEF Accepts, CheckWriteConfig
<1>8. CASE name = "diagnostic"
  BY <1>1, <1>8, Zenon DEF Accepts, CheckDiagnosticConfig
<1>9. CASE name = "identify"
  BY <1>9, Zenon DEF Accepts, CheckIdentifyConfig, validateUnitClientConfig
<1>10. CASE name = "reportserverid"
  BY <1>10, Zenon DEF Accepts, CheckIdentifyConfig, validateUnitClientConfig
<1>11. CASE name = "fingerprint"
  BY <1>1, <1>11, Zenon DEF Accepts, CheckFingerprintConfig
<1>12. CASE name = "scan"
  BY <1>2, <1>12, Zenon DEF Accepts, CheckScanConfig
<1>13. ASSUME checkSunSpecBaseConfig(c) PROVE validateModbusEndpoint(c.endpoint)
  BY <1>1, <1>13, Zenon DEF checkSunSpecBaseConfig
<1>14. CASE name = "sunspec detect"
  BY <1>13, <1>14, Zenon DEF Accepts, CheckSunSpecDetectConfig
<1>15. CASE name = "sunspec models"
  BY <1>13, <1>15, Zenon DEF Accepts, CheckSunSpecModelsConfig
<1>16. CASE name \in {"sunspec map", "sunspec probe"}
  <2>1. name = "sunspec map" \/ name = "sunspec probe"
    BY <1>16
  <2>2. QED
    BY <1>13, <2>1, Zenon DEF Accepts
<1>17. QED
  BY <1>3, <1>4, <1>5, <1>6, <1>7, <1>8, <1>9, <1>10, <1>11, <1>12, <1>14, <1>15, <1>16 DEF Clients

\* What is dialled is what the flags name, and has an address.
LEMMA EndpointsAreDialled ==
  ASSUME NEW e, validateModbusEndpoint(e), e.port \in Nat
  PROVE  DialsWhatIsGiven(e)
<1> DEFINE dialled == ModbusURL(e.url, e.ip, e.port)
<1>3. NoEndpoint.host = ""
  BY DEF NoEndpoint
<1>1. CASE e.url # NoUrl
  <2>1. dialled = e.url /\ e.ip = "" /\ ValidateModbusURL(e.url)
    BY <1>1 DEF validateModbusEndpoint, ValidateModbusAddress, ExactlyOneSet, ModbusURL
  <2>2. CASE IsSerialURL(e.url)
    <3>1. e.url.host # ""
      BY <2>1, <2>2 DEF ValidateModbusURL
    <3>2. PICK h : h = e.url.host
      OBVIOUS
    <3>3. CaptureEndpoint(e.url) = [host |-> h, port |-> 0] /\ h # ""
      BY <2>2, <3>1, <3>2 DEF CaptureEndpoint
    <3>4. [host |-> h, port |-> 0].host = h
      OBVIOUS
    <3>5. CaptureEndpoint(e.url).host # ""
      BY <3>3, <3>4, Zenon
    <3>6. CaptureEndpoint(e.url) # NoEndpoint
      BY <1>3, <3>5
    <3>7. QED
      BY <2>1, <3>6 DEF DialsWhatIsGiven
  <2>3. CASE ~IsSerialURL(e.url)
    <3>1. ParseModbusURLHostPort(e.url).host # ""
      BY <2>1, <2>3 DEF ValidateModbusURL
    <3>2. CaptureEndpoint(e.url) = ParseModbusURLHostPort(e.url)
      BY <2>3 DEF CaptureEndpoint
    <3>3. CaptureEndpoint(e.url).host # ""
      BY <3>1, <3>2
    <3>4. CaptureEndpoint(e.url) # NoEndpoint
      BY <1>3, <3>3
    <3>5. QED
      BY <2>1, <3>4 DEF DialsWhatIsGiven
  <2>4. QED
    BY <2>2, <2>3
<1>2. CASE e.url = NoUrl
  <2>1. e.ip # ""
    BY <1>2, Zenon DEF validateModbusEndpoint, ValidateModbusAddress, ExactlyOneSet
  <2>2. e.port # 0
    BY <2>1, Zenon DEF validateModbusEndpoint
  <2>3. dialled = [scheme |-> "tcp", host |-> e.ip, port |-> e.port]
    BY <1>2, <2>1, <2>2 DEF ModbusURL, Url
  <2> HIDE DEF dialled
  <2>4. dialled.scheme = "tcp" /\ dialled.host = e.ip /\ dialled.port = e.port
    BY <2>3
  <2>5. dialled.scheme \in networkSchemes /\ ~IsSerialURL(dialled)
    BY <2>4 DEF networkSchemes, IsSerialURL, serialSchemes
  <2>6. dialled.port # BadPort
    BY <2>4 DEF BadPort
  <2>7. PICK h, p : h = dialled.host /\ p = IF dialled.port = NoPort THEN DefaultPort ELSE dialled.port
    OBVIOUS
  <2>8. CaptureEndpoint(dialled) = [host |-> h, port |-> p] /\ h # ""
    <3>1. ParseModbusURLHostPort(dialled) = [host |-> h, port |-> p]
      BY <2>1, <2>4, <2>5, <2>6, <2>7 DEF ParseModbusURLHostPort
    <3>2. QED
      BY <2>1, <2>4, <2>5, <2>7, <3>1 DEF CaptureEndpoint
  <2>9. CaptureEndpoint(dialled).host # ""
    <3>1. [host |-> h, port |-> p].host = h
      OBVIOUS
    <3>2. QED
      BY <2>8, <3>1, Zenon
  <2>10. CaptureEndpoint(dialled) # NoEndpoint
    BY <1>3, <2>9
  <2>11. QED
    BY <2>4, <2>10 DEF DialsWhatIsGiven, dialled
<1>4. QED
  BY <1>1, <1>2

\* The data of a diagnostic within its limit, and the requests without any.
LEMMA DiagnosticsFit ==
  ASSUME NEW unit, NEW sub, NEW n, n <= (IF sub = 0 THEN MaxEcho ELSE 2)
  PROVE  Allowed(Request(unit, 8, sub, n))
<1>1. PICK r : r = Request(unit, 8, sub, n)
  OBVIOUS
<1>2. r.function = 8 /\ r.start = sub /\ r.count = n
  BY <1>1, RequestFields
<1>3. r.function \notin ReadFunctions \cup {5, 6, 15, 16} /\ r.function # 20
  BY <1>2 DEF ReadFunctions
<1>4. QED
  BY <1>1, <1>2, <1>3, Zenon DEF Allowed

\* A request of a function without parameters.
LEMMA OthersFit ==
  ASSUME NEW unit, NEW function \in {7, 11, 12, 17, 24, 43}
  PROVE  Allowed(Request(unit, function, 0, 0))
<1>1. PICK r : r = Request(unit, function, 0, 0)
  OBVIOUS
<1>2. r.function = function
  BY <1>1, RequestFields
<1>3. r.function \notin ReadFunctions \cup {5, 6, 15, 16} /\ r.function # 8 /\ r.function # 20
  BY <1>2 DEF ReadFunctions
<1>4. QED
  BY <1>1, <1>3, Zenon DEF Allowed

\* A register holds the two's complement of a negative number.
LEMMA RegistersMean ==
  ASSUME NEW v \in Int, RegisterRange(v)
  PROVE  v % Space \in {v, v + Space}
<1>1. PICK space \in Nat \ {0} : space = Space
  BY Limits
<1>2. PICK half : half = space \div 2
  OBVIOUS
<1>3. half \in Nat /\ half <= space
  BY <1>2
<1>4. -half <= v /\ v < space
  BY <1>1, <1>2, Limits DEF RegisterRange
<1>5. PICK q, m : q = v \div space /\ m = v % space
  OBVIOUS
<1>6. q \in Int /\ m \in 0 .. space - 1 /\ v = q * space + m
  BY <1>5
<1>7. q = 0 \/ q = -1
  <2>1. CASE q >= 1
    <3>1. q * space >= 1 * space
      BY <1>6, <2>1
    <3>2. QED
      BY <1>4, <1>6, <3>1
  <2>2. CASE q <= -2
    <3>1. (-2) * space >= q * space
      BY <1>6, <2>2
    <3>2. QED
      BY <1>3, <1>4, <1>6, <3>1
  <2>3. QED
    BY <1>6, <2>1, <2>2
<1>8. QED
  BY <1>1, <1>5, <1>6, <1>7

\* The requests of a recording plan that were checked fit.
LEMMA PlannedRequestsFit ==
  ASSUME NEW r \in PlanRequest, Check(r), NEW unit
  PROVE  Allowed(PlannedRequest(unit, r))
<1>0. /\ r.start \in Address /\ r.count \in Nat /\ r.records \in Seq(FileRecord)
      /\ r.function \in SpecReadFunctions
  BY DEF PlanRequest, Check, IsSpecRead
<1>1. CASE r.function \in ReadFunctions
  <2>1. r.function # 8 /\ r.function # 20 /\ r.function # 43
    BY <1>1 DEF ReadFunctions
  <2>2. PlannedRequest(unit, r) = Request(unit, r.function, r.start, r.count)
    BY <1>1, <2>1, Zenon DEF PlannedRequest
  <2>3. r.count \in 1 .. ReadLimit(r.function) /\ validateExclusiveRegisterWindow(r.start, r.count)
    BY <1>1, <2>1, Zenon DEF Check
  <2>4. ReadLimit(r.function) \in Nat
    BY Limits DEF ReadLimit
  <2>5. 1 <= r.count /\ r.count <= ReadLimit(r.function) /\ r.start + r.count <= Space
    BY <2>3, <2>4, <1>0 DEF validateExclusiveRegisterWindow
  <2>6. QED
    BY <1>0, <1>1, <2>2, <2>5, ReadsFit
<1>2. CASE r.function = 8
  <2>1. r.function \notin ReadFunctions /\ r.function # 20 /\ r.function # 43
    BY <1>2 DEF ReadFunctions
  <2>2. PlannedRequest(unit, r) = Request(unit, 8, r.sub, PlannedBytes(r.data))
    BY <1>2, <2>1, Zenon DEF PlannedRequest
  <2>3. IF r.sub = 0 THEN PlannedBytes(r.data) <= MaxEcho ELSE PlannedBytes(r.data) = 2
    BY <1>2, <2>1, Zenon DEF Check
  <2>4. QED
    BY <2>2, <2>3, DiagnosticsFit
<1>3. CASE r.function = 20
  <2>1. r.function \notin ReadFunctions /\ r.function # 8 /\ r.function # 43
    BY <1>3 DEF ReadFunctions
  <2>2. PlannedRequest(unit, r) = Request(unit, 20, 0, FileResponseSize(r.records))
    BY <1>3, <2>1, Zenon DEF PlannedRequest
  <2>3. FileRecordsFit(r.records)
    BY <1>3, <2>1, Zenon DEF Check
  <2>4. Len(r.records) >= 1 /\ FileResponseSize(r.records) <= MaxFileResponse
    <3>1. Len(r.records) \in 1 .. MaxFileRequests /\ FileResponseSize(r.records) <= MaxFileResponse
      BY <2>3, Zenon DEF FileRecordsFit
    <3>2. MaxFileRequests \in Nat
      BY LimitsAssumption
    <3>3. QED
      BY <3>1, <3>2
  <2>5. FileResponseSize(r.records) \in Nat \ {0}
    BY <1>0, <2>4, FileResponsesAreLong
  <2>6. FileResponseSize(r.records) \in 1 .. MaxFileResponse
    BY <2>4, <2>5, Limits
  <2>7. PICK q : q = PlannedRequest(unit, r)
    OBVIOUS
  <2>8. q.function = 20 /\ q.count \in 1 .. MaxFileResponse
    BY <2>2, <2>6, <2>7, RequestFields
  <2>9. q.function \notin ReadFunctions \cup {5, 6, 15, 16} /\ q.function # 8
    BY <2>8 DEF ReadFunctions
  <2>10. QED
    BY <2>7, <2>8, <2>9, Zenon DEF Allowed
<1>4. CASE r.function \in {7, 11, 12, 17, 24, 43}
  <2>1. r.function \notin ReadFunctions /\ r.function # 8 /\ r.function # 20
    BY <1>4 DEF ReadFunctions
  <2>2. PlannedRequest(unit, r) = Request(unit, r.function, 0, 0)
    BY <2>1, Zenon DEF PlannedRequest
  <2>3. QED
    BY <1>4, <2>2, OthersFit
<1>5. QED
  BY <1>0, <1>1, <1>2, <1>3, <1>4 DEF SpecReadFunctions

\* What the values of a write become: registers that mean them, and as many
\* coils or registers as its function takes.
LEMMA WritesFit ==
  ASSUME NEW c, c.start \in Address, WriteTyped(c), PlanWrite(Widths, c) # NoPlan,
         NEW r, r = WriteRequest(c)
  PROVE  /\ Allowed(r)
         /\ r.registers # <<>> =>
              /\ Len(r.registers) = Len(Given(c.values))
              /\ \A i \in DOMAIN Given(c.values) : Means(r.registers[i], Given(c.values)[i].n)
<1>1. PICK values : values = Given(c.values)
  OBVIOUS
<1> DEFINE coils == c.function \in {5, 15}
           plain == c.codec = NoCodec
           n == IF coils \/ plain THEN Len(values) ELSE Len(values) * Widths[c.codec]
           function == IF c.function # 0 THEN c.function ELSE IF n = 1 THEN 6 ELSE 16
           plan == [function |-> function, count |-> n,
                    registers |-> IF coils \/ ~plain THEN <<>>
                                  ELSE [i \in DOMAIN values |-> RegisterOf(values[i])]]
<1>2. values \in Seq(Value)
  BY <1>1, GivenAreValues DEF WriteTyped
<1>3. PlanWrite(Widths, c) =
        IF /\ values # <<>> /\ c.function \in {0, 5, 6, 15, 16}
           /\ \A i \in DOMAIN values : ValueFits(Widths, c, values[i])
           /\ QuantityFits(function, n)
           /\ c.start + n <= Space
        THEN plan ELSE NoPlan
  BY <1>1 DEF PlanWrite
<1> HIDE DEF plan
<1>4. /\ values # <<>> /\ c.function \in {0, 5, 6, 15, 16}
      /\ \A i \in DOMAIN values : ValueFits(Widths, c, values[i])
      /\ QuantityFits(function, n) /\ c.start + n <= Space
      /\ PlanWrite(Widths, c) = plan
  <2> HIDE DEF function, n
  <2>1. QED
    BY <1>3
<1>5. Len(values) \in Nat \ {0} /\ DOMAIN values = 1 .. Len(values)
  BY <1>2, <1>4
<1>6. n \in Nat \ {0}
  <2>1. CASE coils \/ plain
    BY <1>5, <2>1
  <2>2. CASE ~(coils \/ plain)
    <3>1. ValueFits(Widths, c, values[1])
      BY <1>4, <1>5
    <3>2. c.codec \in DOMAIN Widths
      BY <2>2, <3>1 DEF ValueFits
    <3>3. PICK w : w = Widths[c.codec]
      OBVIOUS
    <3>4. w \in Nat /\ w # 0
      BY <3>2, <3>3, ConfigsAssumption DEF WriteTyped
    <3>5. n = Len(values) * w
      BY <2>2, <3>3
    <3>6. QED
      BY <1>5, <3>4, <3>5
  <2>3. QED
    BY <2>1, <2>2
<1>7. plan.function = function /\ plan.count = n
  BY DEF plan
<1>8. plan.registers = IF coils \/ ~plain THEN <<>> ELSE [i \in DOMAIN values |-> RegisterOf(values[i])]
  BY DEF plan
<1>9. function \in {5, 6, 15, 16}
  BY <1>4
<1>10. r.function = function /\ r.start = c.start /\ r.count = n /\ r.registers = plan.registers
  <2>1. r = [Request(c.unit, plan.function, c.start, plan.count) EXCEPT !.registers = plan.registers]
    BY <1>4 DEF WriteRequest
  <2>2. QED
    BY <1>7, <2>1 DEF Request
<1> HIDE DEF n, function
<1>11. n <= Limit(function)
  <2>1. CASE function \in {5, 6}
    <3>1. function # 15 /\ function # 16
      BY <2>1
    <3>2. Limit(function) = 1 /\ n = 1
      BY <1>4, <2>1, <3>1, Zenon DEF Limit, QuantityFits
    <3>3. QED
      BY <3>2
  <2>2. CASE function = 15
    <3>1. function \notin {5, 6} /\ function # 16
      BY <2>2
    <3>2. QED
      BY <1>4, <2>2, <3>1, Zenon DEF Limit, QuantityFits
  <2>3. CASE function = 16
    <3>1. function \notin {5, 6} /\ function # 15
      BY <2>3
    <3>2. QED
      BY <1>4, <2>3, <3>1, Zenon DEF Limit, QuantityFits
  <2>4. QED
    BY <1>9, <2>1, <2>2, <2>3
<1>12. Allowed(r)
  <2>1. r.function \in ReadFunctions \cup {5, 6, 15, 16} /\ r.start \in Address /\ r.count \in Int
    BY <1>6, <1>9, <1>10
  <2>2. 1 <= r.count /\ r.count <= Limit(r.function) /\ r.start + r.count <= Space
    BY <1>4, <1>6, <1>10, <1>11
  <2>3. QED
    BY <2>1, <2>2, WindowsFit
<1>13. ASSUME r.registers # <<>>
       PROVE  Len(r.registers) = Len(values)
             /\ \A i \in DOMAIN values : Means(r.registers[i], values[i].n)
  <2>1. ~coils /\ plain /\ r.registers = [i \in DOMAIN values |-> RegisterOf(values[i])]
    BY <1>8, <1>10, <1>13
  <2>2. Len(r.registers) = Len(values)
    BY <1>5, <2>1
  <2>3. ASSUME NEW i \in DOMAIN values PROVE Means(r.registers[i], values[i].n)
    <3>1. PICK v : v = values[i].n
      OBVIOUS
    <3>2. v \in Int
      <4>1. values[i] \in Value
        BY <1>2
      <4>2. QED
        BY <3>1, <4>1 DEF Value
    <3>3. RegisterRange(v)
      BY <1>4, <2>1, <3>1 DEF ValueFits, parseRegisterValue
    <3>4. r.registers[i] = v % Space
      BY <2>1, <3>1 DEF RegisterOf
    <3>5. v % Space \in {v, v + Space}
      BY <3>2, <3>3, RegistersMean
    <3>6. QED
      BY <3>1, <3>4, <3>5 DEF Means
  <2>4. QED
    BY <2>2, <2>3
<1>14. QED
  BY <1>1, <1>12, <1>13

\* Every request that an accepted configuration sends fits.
LEMMA AcceptedFits ==
  ASSUME NEW name \in Commands, NEW c \in Configs[name], Accepts(name, c),
         NEW requests, requests = Sends(name, c), NEW i \in DOMAIN requests
  PROVE  /\ Allowed(requests[i])
         /\ name = "write" /\ requests[i].registers # <<>> =>
              /\ Len(requests[i].registers) = Len(Given(c.values))
              /\ \A k \in DOMAIN Given(c.values) : Means(requests[i].registers[k], Given(c.values)[k].n)
         /\ name = "scan" => requests[i].start .. requests[i].start + requests[i].count - 1
                              \subseteq c.start .. c.end
<1>0. name \in Senders
  BY OthersSendNothing
<1>1. CASE name = "read"
  <2>1. requests = <<Request(c.unit, c.function, c.start, c.count)>>
    BY <1>1, Zenon DEF Sends
  <2>2. CheckReadConfig(c)
    BY <1>1, Zenon DEF Accepts
  <2>3. /\ c.function \in ReadFunctions /\ c.count \in 1 .. MaxBlock
        /\ validateExclusiveRegisterWindow(c.start, c.count)
    BY <2>2, Zenon DEF CheckReadConfig, validateFunctionCode
  <2>4. c.start \in Address /\ c.count \in Nat
    BY <1>1, ConfigTypes
  <2>5. ReadLimit(c.function) \in Nat /\ MaxBlock <= ReadLimit(c.function)
    BY Limits DEF ReadLimit
  <2>6. 1 <= c.count /\ c.count <= ReadLimit(c.function) /\ c.start + c.count <= Space
    BY <2>3, <2>4, <2>5, Limits DEF validateExclusiveRegisterWindow
  <2>7. Allowed(Request(c.unit, c.function, c.start, c.count))
    BY <2>3, <2>4, <2>6, ReadsFit
  <2>8. QED
    BY <1>1, <2>1, <2>7
<1>2. CASE name = "decode"
  <2>1. PICK total : total = CodecCount(Widths, c.codec, c.count)
    OBVIOUS
  <2>2. requests = <<Request(c.unit, c.function, c.start, total)>>
    BY <1>2, <2>1, Zenon DEF Sends
  <2>3. CheckDecodeConfig(c)
    BY <1>2, Zenon DEF Accepts
  <2>4. /\ c.function \in {3, 4} /\ total # Refused /\ total <= MaxBlock
        /\ validateExclusiveRegisterWindow(c.start, total)
    BY <2>1, <2>3, Zenon DEF CheckDecodeConfig, validateDecodeFunctionCode
  <2>5. c.start \in Address /\ c.count \in Nat
    BY <1>2, ConfigTypes
  <2>6. total \in Nat \ {0}
    BY <2>1, <2>4, <2>5, CodecCounts
  <2>7. c.function \in ReadFunctions /\ MaxBlock <= ReadLimit(c.function)
        /\ ReadLimit(c.function) \in Nat
    BY <2>4, Limits DEF ReadFunctions, ReadLimit
  <2>8. 1 <= total /\ total <= ReadLimit(c.function) /\ c.start + total <= Space
    BY <2>4, <2>6, <2>7, Limits DEF validateExclusiveRegisterWindow
  <2>9. Allowed(Request(c.unit, c.function, c.start, total))
    BY <2>5, <2>6, <2>7, <2>8, ReadsFit
  <2>10. QED
    BY <1>2, <2>2, <2>9
<1>3. CASE name = "poll"
  <2>1. PICK count : count = ResolvePollCodec(Widths, c.codec, c.count)
    OBVIOUS
  <2>2. requests = <<Request(c.unit, c.function, c.start, count)>>
    BY <1>3, <2>1, Zenon DEF Sends
  <2>3. CheckPollConfig(c)
    BY <1>3, Zenon DEF Accepts
  <2>4. /\ c.function \in ReadFunctions /\ count \in 1 .. ReadLimit(c.function)
        /\ validateExclusiveRegisterWindow(c.start, count)
    BY <2>1, <2>3, Zenon DEF CheckPollConfig, validateFunctionCode
  <2>5. c.start \in Address
    BY <1>3, ConfigTypes
  <2>6. ReadLimit(c.function) \in Nat
    BY Limits DEF ReadLimit
  <2>7. count \in Int /\ 1 <= count /\ count <= ReadLimit(c.function) /\ c.start + count <= Space
    BY <2>4, <2>6, Limits DEF validateExclusiveRegisterWindow
  <2>8. Allowed(Request(c.unit, c.function, c.start, count))
    BY <2>4, <2>5, <2>7, ReadsFit
  <2>9. QED
    BY <1>3, <2>2, <2>8
<1>4. CASE name = "record"
  <2>1. PICK plan : plan = Parsed(c.plan, c.function)
    OBVIOUS
  <2>2. requests = [k \in DOMAIN plan |-> PlannedRequest(c.unit, plan[k])]
    BY <1>4, <2>1, Zenon DEF Sends
  <2>3. \A k \in DOMAIN plan : Check(plan[k])
    <3>1. CheckRecordConfig(c)
      BY <1>4, Zenon DEF Accepts
    <3>2. QED
      BY <2>1, <3>1, Zenon DEF CheckRecordConfig, PlanFits
  <2>4. i \in DOMAIN plan /\ requests[i] = PlannedRequest(c.unit, plan[i])
    BY <2>2
  <2>5. plan[i] \in PlanRequest
    <3>1. c.plan \in Seq(PlanRequest)
      BY <1>4, ConfigTypes
    <3>2. DOMAIN plan = DOMAIN c.plan
      BY <2>1 DEF Parsed
    <3>3. PICK r, given : r = plan[i] /\ given = c.plan[i]
      OBVIOUS
    <3>4. r = IF given.function = 0 THEN [given EXCEPT !.function = c.function] ELSE given
      BY <2>1, <2>4, <3>2, <3>3 DEF Parsed
    <3>5. given \in PlanRequest
      BY <2>4, <3>1, <3>2, <3>3
    <3>6. CASE given.function # 0
      BY <3>3, <3>4, <3>5, <3>6
    <3>7. CASE given.function = 0
      <4>1. c.function \in Nat
        <5>1. CheckRecordConfig(c)
          BY <1>4, Zenon DEF Accepts
        <5>2. c.function \in ReadFunctions
          BY <5>1, Zenon DEF CheckRecordConfig, validateFunctionCode
        <5>3. QED
          BY <5>2 DEF ReadFunctions
      <4>2. [given EXCEPT !.function = c.function] \in PlanRequest
        BY <3>5, <4>1 DEF PlanRequest
      <4>3. QED
        BY <3>3, <3>4, <3>7, <4>2
    <3>8. QED
      BY <3>6, <3>7
  <2>6. Allowed(requests[i])
    BY <2>3, <2>4, <2>5, PlannedRequestsFit
  <2>7. QED
    BY <1>4, <2>6
<1>5. CASE name = "write"
  <2>1. requests = <<WriteRequest(c)>>
    BY <1>5, Zenon DEF Sends
  <2>2. CheckWriteConfig(c)
    BY <1>5, Zenon DEF Accepts
  <2>3. PlanWrite(Widths, c) # NoPlan
    BY <2>2, Zenon DEF CheckWriteConfig
  <2>4. c.start \in Address /\ WriteTyped(c)
    BY <1>5, ConfigTypes
  <2>5. PICK r : r = WriteRequest(c)
    OBVIOUS
  <2>6. requests[i] = r
    BY <2>1, <2>5
  <2>7. QED
    BY <1>5, <2>3, <2>4, <2>5, <2>6, WritesFit
<1>6. CASE name = "diagnostic"
  <2>1. requests = <<Request(c.unit, 8, c.sub, SentBytes(c.data))>>
    BY <1>6, Zenon DEF Sends
  <2>2. CheckDiagnosticConfig(c)
    BY <1>6, Zenon DEF Accepts
  <2>3. ~c.data.blank => validateDiagnosticFC08Payload(c.sub, Bytes(c.data))
    BY <2>2, Zenon DEF CheckDiagnosticConfig
  <2>4. c.data \in Data /\ Blankness(c.data)
    BY <1>6, ConfigTypes
  <2>5. SentBytes(c.data) <= (IF c.sub = 0 THEN MaxEcho ELSE 2)
    <3>1. CASE c.data = NoData
      BY <3>1, Limits DEF SentBytes
    <3>2. CASE c.data = Blanks
      <4>1. c.data # NoData /\ c.data.digits = 1
        BY <3>2 DEF Blanks, NoData
      <4>2. SentBytes(c.data) = 0
        BY <4>1 DEF SentBytes, Bytes
      <4>3. QED
        BY <4>2, Limits
    <3>3. CASE ~c.data.blank
      <4>1. c.data # NoData
        BY <3>3 DEF NoData
      <4>2. SentBytes(c.data) = Bytes(c.data)
        BY <4>1 DEF SentBytes
      <4>3. QED
        BY <2>3, <3>3, <4>2 DEF validateDiagnosticFC08Payload
    <3>4. QED
      BY <2>4, <3>1, <3>2, <3>3 DEF Blankness
  <2>6. QED
    BY <1>6, <2>1, <2>5, DiagnosticsFit
<1>7. CASE name \in {"identify", "reportserverid", "fingerprint"}
  <2>1. PICK function \in {8, 17, 43} : requests = ToUnits(c, function)
    <3>1. CASE name = "identify"
      BY <3>1, Zenon DEF Sends
    <3>2. CASE name = "reportserverid"
      BY <3>2, Zenon DEF Sends
    <3>3. CASE name = "fingerprint"
      BY <3>3, Zenon DEF Sends
    <3>4. QED
      BY <1>7, <3>1, <3>2, <3>3
  <2>2. PICK units : units = ParseUnitIDs(c.units)
    OBVIOUS
  <2>3. requests = [k \in DOMAIN units |-> Request(units[k], function, 0, 0)]
    BY <2>1, <2>2 DEF ToUnits
  <2>4. requests[i] = Request(units[i], function, 0, 0)
    BY <2>3
  <2>5. Allowed(Request(units[i], function, 0, 0))
    <3>1. CASE function = 8
      BY <3>1, DiagnosticsFit, Limits
    <3>2. CASE function \in {17, 43}
      BY <3>2, OthersFit
    <3>3. QED
      BY <3>1, <3>2
  <2>6. QED
    BY <1>7, <2>4, <2>5
<1>8. CASE name = "scan"
  <2>1. ScanAlgorithmForExecution(c) = "boundary"
    <3>1. SUFFICES ASSUME ScanAlgorithmForExecution(c) # "boundary" PROVE FALSE
      OBVIOUS
    <3>2. requests = <<>>
      BY <1>8, <3>1, Zenon DEF Sends
    <3>3. QED
      BY <3>2
  <2>2. requests = <<Request(c.unit, c.function, c.seedStart, c.seedCount)>>
    BY <1>8, <2>1, Zenon DEF Sends
  <2>3. CheckScanConfig(c)
    BY <1>8, Zenon DEF Accepts
  <2>4. c.function \in ReadFunctions /\ BoundarySeed(c)
    <3>1. ScanAlgorithmForExecution(c) # "sunspec"
      BY <2>1
    <3>2. QED
      BY <2>1, <2>3, <3>1, Zenon DEF CheckScanConfig, validateFunctionCode
  <2>5. c.start \in Address /\ c.end \in Address /\ c.seedStart \in Address
    BY <1>8, ConfigTypes
  <2>6. c.seedCount \in 1 .. MaxBlock /\ c.start <= c.seedStart
        /\ c.seedStart + c.seedCount - 1 <= c.end
    BY <2>4 DEF BoundarySeed, SeedInRange
  <2>7. c.seedCount \in Int /\ 1 <= c.seedCount /\ c.seedCount <= MaxBlock
        /\ c.seedStart + c.seedCount <= Space
    BY <2>5, <2>6, Limits DEF Address
  <2>8. MaxBlock <= ReadLimit(c.function) /\ ReadLimit(c.function) \in Nat
    BY Limits DEF ReadLimit
  <2>9. Allowed(Request(c.unit, c.function, c.seedStart, c.seedCount))
    BY <2>4, <2>5, <2>7, <2>8, Limits, ReadsFit
  <2>10. c.seedStart .. c.seedStart + c.seedCount - 1 \subseteq c.start .. c.end
    BY <2>5, <2>6, <2>7 DEF Address
  <2>11. requests[i] = Request(c.unit, c.function, c.seedStart, c.seedCount)
    BY <2>2
  <2>12. requests[i].start = c.seedStart /\ requests[i].count = c.seedCount
    BY <2>11, RequestFields
  <2>13. QED
    BY <1>8, <2>9, <2>10, <2>11, <2>12
<1>9. QED
  BY <1>0, <1>1, <1>2, <1>3, <1>4, <1>5, <1>6, <1>7, <1>8 DEF Senders

\* So do those of the command that runs, and it dials the right device.
LEMMA CheckedFits == CheckedInv => AcceptedRequestsFit
<1> SUFFICES ASSUME CheckedInv PROVE AcceptedRequestsFit
  OBVIOUS
<1>1. ASSUME verdict = "done", command \in Clients PROVE DialsWhatIsGiven(config.endpoint)
  <2>1. Accepts(command, config) /\ command \in Commands /\ config \in Configs[command]
    BY <1>1 DEF CheckedInv
  <2>2. validateModbusEndpoint(config.endpoint)
    BY <1>1, <2>1, EndpointsAreChecked
  <2>3. config.endpoint.port \in Nat
    BY <1>1, <2>1, ConfigTypes
  <2>4. QED
    BY <2>2, <2>3, EndpointsAreDialled
<1>2. ASSUME NEW i \in DOMAIN sent
      PROVE  /\ Allowed(sent[i])
             /\ command = "write" => WritesWhatIsGiven(sent[i])
             /\ command = "scan" => SeedIsScanned(sent[i])
  <2>1. sent # <<>>
    OBVIOUS
  <2>2. /\ Accepts(command, config) /\ sent = Sends(command, config)
        /\ command \in Commands /\ config \in Configs[command]
    BY <2>1 DEF CheckedInv
  <2>3. PICK name, c, requests : name = command /\ c = config /\ requests = sent
    OBVIOUS
  <2>4. /\ Allowed(requests[i])
        /\ name = "write" /\ requests[i].registers # <<>> =>
             /\ Len(requests[i].registers) = Len(Given(c.values))
             /\ \A k \in DOMAIN Given(c.values) : Means(requests[i].registers[k], Given(c.values)[k].n)
        /\ name = "scan" => requests[i].start .. requests[i].start + requests[i].count - 1
                             \subseteq c.start .. c.end
    BY <2>2, <2>3, AcceptedFits
  <2>5. QED
    BY <2>3, <2>4, Zenon DEF WritesWhatIsGiven, SeedIsScanned
<1>3. QED
  BY <1>1, <1>2, Zenon DEF AcceptedRequestsFit

\* A configuration that was accepted dials the device it names and sends
\* requests that exist: the check and the later computation agree, for every
\* configuration of every command, and for any limits of the protocol.
THEOREM AcceptedRequestsExist == Spec => []AcceptedRequestsFit
  BY InitInv, StepInv, CheckedFits, PTL DEF Spec
=============================================================================
