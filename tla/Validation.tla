----------------------------- MODULE Validation -----------------------------
(***************************************************************************)
(* The checks that every command makes of its configuration before it      *)
(* starts, and what it then asks of a device.  A check only reads the      *)
(* configuration; the command later computes from the same configuration,  *)
(* often again and in 16 bits, what it sends.  This module puts the two    *)
(* side by side.                                                           *)
(***************************************************************************)
EXTENDS Endpoints, Requests

CONSTANTS
  Widths,             (* codec to the registers of one value               *)
  MaxDelay,           (* 60000 ms                                          *)
  MaxDiscoverHosts,   (* 65536                                             *)
  MaxSpeed,           (* of a replay, 31536000                             *)
  Width,              (* bits of an address of a subnet                    *)
  Configs             (* command to the configurations it may be given     *)

Hosts == INSTANCE Subnets

Commands == DOMAIN Configs
Parallels == 1 .. 64

(***************************************************************************)
(* The types of the configurations that the numbers below depend on: an    *)
(* address has the width of one, and so on.  No codec of the library takes *)
(* no register, though the checks of decode and poll would refuse it.      *)
(***************************************************************************)
Address == 0 .. AddrMax
Value == [word : STRING, n : Int]
Data == [blank : BOOLEAN, hex : BOOLEAN, digits : Nat]
FileRecord == [file : Nat, record : Nat, length : Nat]
PlanRequest == [function : Nat, start : Address, count : Nat, sub : Nat, data : Data,
                records : Seq(FileRecord), code : Nat]

Blankness(data) == data.blank => data \in {NoData, Blanks}
EndpointTyped(e) == e.port \in Nat
WriteTyped(c) == c.values \in Seq(Value) /\ (c.codec \in DOMAIN Widths => Widths[c.codec] # 0)

ASSUME ConfigsAssumption ==
  /\ \A codec \in DOMAIN Widths : Widths[codec] \in Nat
  /\ \A name \in Commands : \A c \in Configs[name] :
       /\ name \notin {"discover", "static", "replay", "extract", "strings", "profile"} =>
            EndpointTyped(c.endpoint)
       /\ name \in {"read", "decode", "poll", "write"} => c.start \in Address
       /\ name \in {"read", "decode", "poll"} => c.count \in Nat
       /\ name = "write" => WriteTyped(c)
       /\ name = "record" => c.plan \in Seq(PlanRequest)
       /\ name = "diagnostic" => c.data \in Data /\ Blankness(c.data)
       /\ name = "scan" => c.start \in Address /\ c.end \in Address /\ c.seedStart \in Address

VARIABLES
  command, config,
  verdict,    (* "unchecked", "accepted" or "refused"                      *)
  sent        (* what the accepted command sends, in order                 *)

vars == <<command, config, verdict, sent>>

(* Faulty forms of the definitions below: the faults the properties catch. *)
NotAsked(c) == c.yes \in BOOLEAN
SeedAlone(c) == c.seedStart + c.seedCount - 1 <= AddrMax
-----------------------------------------------------------------------------
(* Files, by what the path leads to: "none" is no path, "dir/" a directory *)
(* named with a trailing slash, "new" a file to be created.                *)
FilePaths == {"none", "file", "new", "dir", "dir/", "file/", "lost/", "lost/new", "file/new"}

validateOutputDir(dir) == dir = "dir"

\* The directory of a path: of "new" and "file" it is the current one.
ParentOf(path) == CASE path \in {"dir/"} -> "dir"
                    [] path \in {"file/", "file/new"} -> "file"
                    [] path \in {"lost/", "lost/new"} -> "lost"
                    [] OTHER -> "dir"

InputFile(path) == path = "file"
OutputFile(path) == path # "none" => validateOutputDir(ParentOf(path)) /\ path # "dir"

checkSelection(c) == c.function <= 4

\* The registers of a device profile; the ones not used are skipped.
validateDeviceProfileFile(profile) ==
  /\ profile # <<>>
  /\ \A i \in DOMAIN profile :
       LET r == profile[i]
       IN  r.property = "not.used" \/
             /\ r.property # "" /\ r.size # 0
             /\ r.start + r.size <= Space
             /\ r.format = "known"
-----------------------------------------------------------------------------
(* The checks of each command, in the order in which the code makes them.  *)
Endpoint(c) == validateModbusEndpoint(c.endpoint) /\ validateOptionalTimeoutMilliseconds(c.timeout)
Device(c) == Endpoint(c) /\ c.unit \in 1 .. MaxUnit

CheckReadConfig(c) ==
  /\ Device(c) /\ validateFunctionCode(c.function)
  /\ c.count \in 1 .. MaxBlock
  /\ validateExclusiveRegisterWindow(c.start, c.count)
  /\ OutputFile(c.output)

CheckDecodeConfig(c) ==
  /\ Device(c) /\ validateDecodeFunctionCode(c.function)
  /\ LET total == CodecCount(Widths, c.codec, c.count)
     IN  total # Refused /\ total <= MaxBlock /\ validateExclusiveRegisterWindow(c.start, total)

CheckPollConfig(c) ==
  /\ Device(c) /\ validateFunctionCode(c.function)
  /\ c.function \in BitReads => c.codec = NoCodec
  /\ LET count == ResolvePollCodec(Widths, c.codec, c.count)
     IN  count \in 1 .. ReadLimit(c.function) /\ validateExclusiveRegisterWindow(c.start, count)
  /\ c.interval # 0

CheckRecordConfig(c) ==
  /\ Device(c) /\ validateFunctionCode(c.function)
  /\ c.interval <= c.duration
  /\ InputFile(c.blocks) /\ PlanFits(Parsed(c.plan, c.function))
  /\ OutputFile(c.output)

\* Changes of the device need --yes, which is asked for first.
CheckConfirmed(c) == c.yes
CheckDiagnosticConfirmed(c) ==
  c.sub \in DiagnosticSubFunctions /\ DiagnosticChangesState(c.sub) => CheckConfirmed(c)

CheckWriteConfig(c) == CheckConfirmed(c) /\ Device(c) /\ PlanWrite(Widths, c) # NoPlan

CheckDiagnosticConfig(c) ==
  /\ CheckDiagnosticConfirmed(c) /\ Endpoint(c)
  /\ c.sub \in DiagnosticSubFunctions
  /\ ~c.data.blank => Decodes(c.data) /\ validateDiagnosticFC08Payload(c.sub, Bytes(c.data))

\* identify and report-server-id: --parallel is read with "all" only.
validateUnitClientConfig(c) ==
  /\ validateModbusEndpoint(c.endpoint)
  /\ IF c.units.all THEN c.parallel \in Parallels ELSE ParseUnitIDs(c.units) # NoUnits
CheckIdentifyConfig(c) ==
  validateUnitClientConfig(c) /\ validateOptionalTimeoutMilliseconds(c.timeout)

CheckFingerprintConfig(c) == Endpoint(c) /\ ParseUnitIDs(c.units) # NoUnits

\* The seed of the boundary strategy lies in the range that is scanned.
SeedInRange(c) == c.start <= c.seedStart /\ c.seedStart + c.seedCount - 1 <= c.end
BoundarySeed(c) == c.seedCount \in 1 .. MaxBlock /\ SeedInRange(c)

ScanAlgorithms == {"safe", "smart", "deep", "stepped", "linear", "boundary", "sunspec"}
ScanAlgorithmForExecution(c) == IF c.algo = "" THEN "safe" ELSE c.algo

CheckScanConfig(c) ==
  LET algo == ScanAlgorithmForExecution(c)
  IN  /\ Device(c) /\ validateFunctionCode(c.function)
      /\ c.delay <= MaxDelay /\ algo \in ScanAlgorithms
      /\ IF algo = "sunspec"
         THEN (c.base > 0 => c.base + 2 <= AddrMax) /\ BasesParse(c.bases)
         ELSE /\ validateInclusiveScanRange(c.start, c.end)
              /\ algo = "stepped" => c.step >= 1
              /\ algo = "boundary" => BoundarySeed(c)
      /\ OutputFile(c.output)

checkSunSpecBaseConfig(c) == Endpoint(c) /\ c.regtype \in {"", "holding", "input"}
CheckSunSpecDetectConfig(c) ==
  checkSunSpecBaseConfig(c) /\ BasesParse(c.bases) /\ (c.bases # <<>> => ParseSunSpecBases(c.bases) # <<>>)
CheckSunSpecModelsConfig(c) == checkSunSpecBaseConfig(c) /\ c.maxModels >= 0

\* The hosts forEachAssignableHost yields for one subnet: for a /0 it would not
\* stop, but the count above its limit does, and no limit reaches all addresses.
VisitedHosts(cidr) ==
  LET from[h \in Hosts!Addresses \cup {Hosts!NoHost}] ==
        IF h = Hosts!NoHost THEN {} ELSE {h} \cup from[Hosts!NextHost(cidr, h)]
  IN  IF Hosts!Endless(cidr) THEN Hosts!Addresses ELSE from[Hosts!FirstHost(cidr)]

DiscoverHostCountAtMost(subnets, limit) ==
  LET n == Cardinality(UNION {VisitedHosts(subnets[i]) : i \in DOMAIN subnets})
  IN  IF n > limit THEN limit + 1 ELSE n

CheckDiscoverConfig(c) ==
  /\ c.subnets # <<>> /\ \A i \in DOMAIN c.subnets : c.subnets[i] \in Hosts!Cidrs
  /\ c.port # 0 /\ c.parallel \in Parallels
  /\ c.resolveMAC => c.interface # ""
  /\ c.force \/ DiscoverHostCountAtMost(c.subnets, MaxDiscoverHosts) <= MaxDiscoverHosts

\* server static and server replay; an offset is Garbage or a time.
checkMissing(m) == m \in {"", "exception", "zero", "silence"}
checkOffset(d) == d # Garbage
ListensWell(c) == c.port # 0 /\ checkListen(c.listen) /\ InputFile(c.input) /\ checkMissing(c.missing)

CheckStaticServerConfig(c) == ListensWell(c) /\ checkOffset(c.at) /\ ServerTLSLoads(c.tls)
CheckReplayServerConfig(c) ==
  /\ ListensWell(c) /\ c.before \in {"", "hold", "absent"}
  /\ 0 < c.speed /\ c.speed <= MaxSpeed
  /\ checkOffset(c.from) /\ ServerTLSLoads(c.tls)

CheckExtractConfig(c) == checkSelection(c) /\ InputFile(c.input) /\ OutputFile(c.output)
CheckDeviceProfileDecodeConfig(c) == CheckExtractConfig(c) /\ validateDeviceProfileFile(c.profile)

Accepts(name, c) ==
  CASE name = "read" -> CheckReadConfig(c)
    [] name = "decode" -> CheckDecodeConfig(c)
    [] name = "poll" -> CheckPollConfig(c)
    [] name = "record" -> CheckRecordConfig(c)
    [] name = "write" -> CheckWriteConfig(c)
    [] name = "diagnostic" -> CheckDiagnosticConfig(c)
    [] name \in {"identify", "reportserverid"} -> CheckIdentifyConfig(c)
    [] name = "fingerprint" -> CheckFingerprintConfig(c)
    [] name = "scan" -> CheckScanConfig(c)
    [] name = "sunspec detect" -> CheckSunSpecDetectConfig(c)
    [] name = "sunspec models" -> CheckSunSpecModelsConfig(c)
    [] name \in {"sunspec map", "sunspec probe"} -> checkSunSpecBaseConfig(c)
    [] name = "discover" -> CheckDiscoverConfig(c)
    [] name = "static" -> CheckStaticServerConfig(c)
    [] name = "replay" -> CheckReplayServerConfig(c)
    [] name \in {"extract", "strings"} -> CheckExtractConfig(c)
    [] name = "profile" -> CheckDeviceProfileDecodeConfig(c)
-----------------------------------------------------------------------------
(* What an accepted command sends.  start is the first address, or the     *)
(* sub-function of a diagnostic; count the coils, the registers, the data  *)
(* bytes of a diagnostic, or the bytes file records are answered with.     *)
Request(unit, function, start, count) ==
  [unit |-> unit, function |-> function, start |-> start, count |-> count, registers |-> <<>>]

PlannedRequest(unit, r) ==
  CASE r.function \in ReadFunctions -> Request(unit, r.function, r.start, r.count)
    [] r.function = 8 -> Request(unit, 8, r.sub, PlannedBytes(r.data))
    [] r.function = 20 -> Request(unit, 20, 0, FileResponseSize(r.records))
    [] OTHER -> Request(unit, r.function, 0, 0)

WriteRequest(c) ==
  LET plan == PlanWrite(Widths, c)
  IN  [Request(c.unit, plan.function, c.start, plan.count) EXCEPT !.registers = plan.registers]

\* The first request to each unit.
ToUnits(c, function) ==
  LET units == ParseUnitIDs(c.units) IN [i \in DOMAIN units |-> Request(units[i], function, 0, 0)]

Sends(name, c) ==
  CASE name = "read" -> <<Request(c.unit, c.function, c.start, c.count)>>
    [] name = "decode" -> <<Request(c.unit, c.function, c.start, CodecCount(Widths, c.codec, c.count))>>
    [] name = "poll" -> <<Request(c.unit, c.function, c.start, ResolvePollCodec(Widths, c.codec, c.count))>>
    [] name = "record" -> LET plan == Parsed(c.plan, c.function)
                          IN [i \in DOMAIN plan |-> PlannedRequest(c.unit, plan[i])]
    [] name = "write" -> <<WriteRequest(c)>>
    [] name = "diagnostic" -> <<Request(c.unit, 8, c.sub, SentBytes(c.data))>>
    [] name = "identify" -> ToUnits(c, 43)
    [] name = "reportserverid" -> ToUnits(c, 17)
    [] name = "fingerprint" -> ToUnits(c, 8)
    [] name = "scan" /\ ScanAlgorithmForExecution(c) = "boundary" ->
         <<Request(c.unit, c.function, c.seedStart, c.seedCount)>>
    [] OTHER -> <<>>
-----------------------------------------------------------------------------
Init ==
  /\ command \in Commands /\ config \in Configs[command]
  /\ verdict = "unchecked" /\ sent = <<>>

Validate ==
  /\ verdict = "unchecked"
  /\ verdict' = IF Accepts(command, config) THEN "accepted" ELSE "refused"
  /\ UNCHANGED <<command, config, sent>>

Send ==
  /\ verdict = "accepted"
  /\ verdict' = "done" /\ sent' = Sends(command, config)
  /\ UNCHANGED <<command, config>>

Next == Validate \/ Send
Spec == Init /\ [][Next]_vars
-----------------------------------------------------------------------------
(* The reference: the requests the protocol allows, and what was asked.    *)
Limit(function) ==
  CASE function \in {5, 6} -> 1
    [] function = 15 -> MaxWriteCoils
    [] function = 16 -> MaxWriteRegisters
    [] OTHER -> ReadLimit(function)

Allowed(r) ==
  CASE r.function \in ReadFunctions \cup {5, 6, 15, 16} ->
         r.count \in 1 .. Limit(r.function) /\ r.start .. r.start + r.count - 1 \subseteq 0 .. AddrMax
    [] r.function = 8 -> r.count <= (IF r.start = 0 THEN MaxEcho ELSE 2)
    [] r.function = 20 -> r.count \in 1 .. MaxFileResponse
    [] OTHER -> TRUE

Clients == {"read", "decode", "poll", "record", "write", "diagnostic", "identify",
            "reportserverid", "fingerprint", "scan", "sunspec detect", "sunspec models",
            "sunspec map", "sunspec probe"}

\* No flag that names the device is ignored, and what is dialled has an address.
DialsWhatIsGiven(e) ==
  LET dialled == ModbusURL(e.url, e.ip, e.port)
  IN  /\ e.ip # "" => dialled.host = e.ip /\ dialled.port = e.port
      /\ CaptureEndpoint(dialled) # NoEndpoint

\* A register holds the value as a signed or as an unsigned number.
Means(register, v) == register \in {v, v + Space}
WritesWhatIsGiven(r) ==
  LET values == Given(config.values)
  IN  r.registers # <<>> =>
        /\ Len(r.registers) = Len(values)
        /\ \A i \in DOMAIN values : Means(r.registers[i], values[i].n)

SeedIsScanned(r) == r.start .. r.start + r.count - 1 \subseteq config.start .. config.end

\* A command whose configuration was accepted dials the device it was given and
\* sends requests that exist: not empty, within the limit of their function, and
\* with no address that wraps past the last one, whatever width it is computed
\* in; what a write sends are the values it was given, and the seed of a scan
\* lies in its range.
AcceptedRequestsFit ==
  /\ verdict = "done" /\ command \in Clients => DialsWhatIsGiven(config.endpoint)
  /\ \A i \in DOMAIN sent :
       /\ Allowed(sent[i])
       /\ command = "write" => WritesWhatIsGiven(sent[i])
       /\ command = "scan" => SeedIsScanned(sent[i])

Changes(r) == r.function \in {5, 6, 15, 16} \/ (r.function = 8 /\ r.start \in StateChanging)

\* Nothing that changes a device is sent without --yes, neither by a command
\* that takes the flag nor through the plan of a recording, which has none.
ChangesAreConfirmed ==
  \A i \in DOMAIN sent : Changes(sent[i]) => command \in {"write", "diagnostic"} /\ config.yes

Meant(selector) ==
  IF selector.all THEN 1 .. MaxUnit
  ELSE UNION {selector.parts[i].lo .. selector.parts[i].hi : i \in DOMAIN selector.parts}

\* The commands over several units ask every unit the selector means, each once
\* and in ascending order, and never unit 0, which every device takes as its own.
UnitsAskedOnce ==
  command \in {"identify", "reportserverid", "fingerprint"} /\ verdict = "done" =>
    /\ sent # <<>>
    /\ {sent[i].unit : i \in DOMAIN sent} = Meant(config.units) \ {0}
    /\ \A i \in DOMAIN sent : sent[i].unit # 0 /\ (i > 1 => sent[i - 1].unit < sent[i].unit)
=============================================================================
