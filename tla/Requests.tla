------------------------------ MODULE Requests ------------------------------
(***************************************************************************)
(* The requests that flags and files ask for, and what makes them ones a   *)
(* device can be sent: windows of the address space, codecs, the values of *)
(* a write, the requests of a recording plan, the data of a diagnostic and *)
(* the units of a selector.  Every operator that ends in Fits or is named  *)
(* like the code's check says whether the code lets the request through.   *)
(***************************************************************************)
EXTENDS Integers, SequencesExt

CONSTANTS
  AddrMax,             (* 65535 in the program *)
  MaxBlock, MaxBits,   (* registers and bits of one read: 125 and 2000 *)
  MaxWriteRegisters, MaxWriteCoils,   (* 123 and 1968 *)
  MaxEcho,             (* data bytes of a diagnostic: 250 *)
  MaxFileRequests, MaxFileResponse,   (* of Read File Record: 35 and 251 *)
  MaxUnit              (* 255 *)

ASSUME LimitsAssumption ==
  /\ AddrMax \in Nat /\ MaxUnit \in Nat \ {0}
  /\ MaxBlock \in Nat /\ MaxBits \in Nat /\ MaxWriteRegisters \in Nat /\ MaxWriteCoils \in Nat
  /\ MaxEcho \in Nat /\ MaxFileRequests \in Nat /\ MaxFileResponse \in Nat
  /\ MaxBlock <= MaxBits /\ 2 <= MaxEcho

Space == AddrMax + 1
ReadFunctions == 1 .. 4
BitReads == {1, 2}
ReadLimit(fc) == IF fc \in BitReads THEN MaxBits ELSE MaxBlock

(* Faulty forms of the definitions below: the faults the properties catch. *)
WrappingWindow(start, count) == (start + count) % Space <= AddrMax
UnboundedValue(v) == v \in Int
AnyOrder(part) == part.lo \in 1 .. MaxUnit /\ part.hi \in 0 .. MaxUnit
AnySubFunction(sub) == sub \in 0 .. 255
OneByOne(records) == 0 \notin {records[i].length : i \in DOMAIN records}
-----------------------------------------------------------------------------
\* [start, start + count), in 32 bits: the sum may be one past the last.
validateExclusiveRegisterWindow(start, count) == start + count <= Space
validateInclusiveScanRange(start, end) == start < end

validateFunctionCode(fc) == fc \in ReadFunctions
validateDecodeFunctionCode(fc) == fc \in {3, 4}

(***************************************************************************)
(* Codecs, by the registers one value takes; the codecs of the library are *)
(* a constant of the modules that use these operators.                     *)
(***************************************************************************)
NoCodec == "no codec"
Refused == -1

\* The registers count asks for with a codec: one value, or whole values.
CodecCount(widths, codec, count) ==
  IF codec \notin DOMAIN widths THEN Refused
  ELSE LET per == widths[codec]
       IN  IF per = 0 THEN Refused
           ELSE IF count = 0 THEN per
           ELSE IF count % per # 0 THEN Refused ELSE count

\* A poll needs no codec.
ResolvePollCodec(widths, codec, count) ==
  IF codec = NoCodec THEN count ELSE CodecCount(widths, codec, count)

(***************************************************************************)
(* client write.  A value is a number, or one of the words below.          *)
(***************************************************************************)
Word(w) == [word |-> w, n |-> 0]
Number(v) == [word |-> "", n |-> v]
Blank == Word("blank")
OnOff == {Word("on"), Word("off")}

parseCoilValue(v) == v \in OnOff \cup {Number(0), Number(1)}

\* Negative numbers are written as their two's complement.
RegisterRange(v) == -(Space \div 2) <= v /\ v <= AddrMax
parseRegisterValue(v) == v.word = "" /\ RegisterRange(v.n)
RegisterOf(v) == v.n % Space

\* The bits a codec of so many registers holds decide what it encodes.
CodecEncodes(per, v) == v.word = "" /\ v.n \in 0 .. Space ^ per - 1

NoPlan == [function |-> 0, count |-> 0, registers |-> <<>>]

\* n is the number of coils or registers that the values make.
QuantityFits(function, n) ==
  CASE function \in {5, 6} -> n = 1
    [] function = 15 -> n <= MaxWriteCoils
    [] function = 16 -> n <= MaxWriteRegisters

\* The values without the blanks.
Given(values) ==
  LET among[n \in 0 .. Len(values)] ==
        IF n = 0 THEN <<>>
        ELSE IF values[n] = Blank THEN among[n - 1] ELSE Append(among[n - 1], values[n])
  IN  among[Len(values)]

\* A coil takes no codec; a register takes a value of its own, or what a codec
\* makes of one.
ValueFits(widths, cfg, v) ==
  IF cfg.function \in {5, 15} THEN cfg.codec = NoCodec /\ parseCoilValue(v)
  ELSE IF cfg.codec = NoCodec THEN parseRegisterValue(v)
  ELSE cfg.codec \in DOMAIN widths /\ CodecEncodes(widths[cfg.codec], v)

\* The wire-level form of a write, or NoPlan.
PlanWrite(widths, cfg) ==
  LET values == Given(cfg.values)
      coils == cfg.function \in {5, 15}
      plain == cfg.codec = NoCodec
      n == IF coils \/ plain THEN Len(values) ELSE Len(values) * widths[cfg.codec]
      function == IF cfg.function # 0 THEN cfg.function ELSE IF n = 1 THEN 6 ELSE 16
  IN  IF /\ values # <<>> /\ cfg.function \in {0, 5, 6, 15, 16}
         /\ \A i \in DOMAIN values : ValueFits(widths, cfg, values[i])
         /\ QuantityFits(function, n)
         /\ cfg.start + n <= Space
      THEN [function |-> function, count |-> n,
            registers |-> IF coils \/ ~plain THEN <<>> ELSE [i \in DOMAIN values |-> RegisterOf(values[i])]]
      ELSE NoPlan

(***************************************************************************)
(* Diagnostics.  Data is given in hex digits, or left blank.               *)
(***************************************************************************)
Hex(digits) == [blank |-> FALSE, hex |-> TRUE, digits |-> digits]
NotHex == [blank |-> FALSE, hex |-> FALSE, digits |-> 2]
NoData == [blank |-> TRUE, hex |-> TRUE, digits |-> 0]
Blanks == [NoData EXCEPT !.digits = 1]

Decodes(data) == data.hex /\ data.digits % 2 = 0
Bytes(data) == data.digits \div 2

DiagnosticSubFunctions == (0 .. 4) \cup (10 .. 18) \cup {20}
StateChanging == {1, 3, 4, 10, 20}
\* A code outside the table counts as changing the state.
DiagnosticChangesState(sub) == sub \in StateChanging \/ sub \notin DiagnosticSubFunctions
IsDataDiagnostic(sub) == sub \in {0, 2} \cup 11 .. 18

validateDiagnosticFC08Payload(sub, n) == n <= MaxEcho /\ (sub # 0 => n <= 2)

\* The bytes `client diagnostic` sends: blanks alone are no data, and are sent
\* as none at all; without the flag two zero bytes are sent.
SentBytes(data) == IF data = NoData THEN 2 ELSE Bytes(data)

(***************************************************************************)
(* Recording plans: Check of one request.                                  *)
(***************************************************************************)
FileRecordFits(f) == f.file # 0 /\ f.record <= 9999 /\ f.length # 0
FileResponseSize(records) ==
  LET size[n \in 0 .. Len(records)] == IF n = 0 THEN 0 ELSE size[n - 1] + 2 + 2 * records[n].length
  IN  size[Len(records)]

FileRecordsFit(records) ==
  /\ Len(records) \in 1 .. MaxFileRequests
  /\ \A i \in DOMAIN records : FileRecordFits(records[i])
  /\ FileResponseSize(records) <= MaxFileResponse

\* DiagnosticData: 0000 when none is given.
PlannedBytes(data) == IF data.blank THEN 2 ELSE Bytes(data)

\* capture.IsReadFunction and the rules of IsSpecRead.
SpecReadFunctions == ReadFunctions \cup {7, 8, 11, 12, 17, 20, 24, 43}
IsSpecRead(r) == r.function \in SpecReadFunctions /\ (r.function = 8 => IsDataDiagnostic(r.sub))

Check(r) ==
  /\ CASE r.function \in ReadFunctions ->
            r.count \in 1 .. ReadLimit(r.function) /\ validateExclusiveRegisterWindow(r.start, r.count)
       [] r.function = 8 ->
            /\ IsDataDiagnostic(r.sub) /\ (r.data.blank \/ Decodes(r.data))
            /\ IF r.sub = 0 THEN PlannedBytes(r.data) <= MaxEcho ELSE PlannedBytes(r.data) = 2
       [] r.function = 20 -> FileRecordsFit(r.records)
       [] r.function = 43 -> r.code <= 4
       [] OTHER -> r.function \in {7, 11, 12, 17, 24}
  /\ IsSpecRead(r)

\* Parse: a request without a function gets the default one.
Parsed(plan, defaultFC) ==
  [i \in DOMAIN plan |-> IF plan[i].function = 0 THEN [plan[i] EXCEPT !.function = defaultFC] ELSE plan[i]]
PlanFits(plan) == plan # <<>> /\ \A i \in DOMAIN plan : Check(plan[i])

(***************************************************************************)
(* The selector of units: "all", or parts that each run from lo to hi; a   *)
(* single unit is a part of its own, and what is not a number is Garbage.  *)
(***************************************************************************)
Garbage == -1
Part(lo, hi) == [lo |-> lo, hi |-> hi]
AllUnits == [all |-> TRUE, parts |-> <<>>]
Selector(parts) == [all |-> FALSE, parts |-> parts]
NoUnits == <<>>

GoodPart(part) == part.lo \in 1 .. MaxUnit /\ part.hi \in part.lo .. MaxUnit

\* The loop over a part counts in 8 bits until it meets its end.
WalkPart(part) ==
  IF part.lo <= part.hi THEN part.lo .. part.hi ELSE (part.lo .. MaxUnit) \cup (0 .. part.hi)

\* slices.Sort of a set of bytes.
Ascending(ids) ==
  LET below[n \in 0 .. MaxUnit + 1] ==
        IF n = 0 THEN <<>>
        ELSE IF n - 1 \in ids THEN Append(below[n - 1], n - 1) ELSE below[n - 1]
  IN  below[MaxUnit + 1]

ParseUnitIDs(selector) ==
  LET parts == IF selector.all THEN <<Part(1, MaxUnit)>> ELSE selector.parts
  IN  IF \A i \in DOMAIN parts : GoodPart(parts[i])
      THEN Ascending(UNION {WalkPart(parts[i]) : i \in DOMAIN parts})
      ELSE NoUnits

\* The candidate bases, each once and in their order; blank parts are skipped.
BlankBase == -2
BasesParse(bases) == \A i \in DOMAIN bases : bases[i] \in (0 .. AddrMax) \cup {BlankBase}
ParseSunSpecBases(bases) ==
  FoldLeft(LAMBDA out, b : IF b = BlankBase \/ Contains(out, b) THEN out ELSE Append(out, b), <<>>, bases)
=============================================================================
