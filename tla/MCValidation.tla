---------------------------- MODULE MCValidation ----------------------------
(***************************************************************************)
(* Validation with every command: a usual configuration, the same with one *)
(* flag changed, and all combinations of the numbers that together decide  *)
(* what is sent.                                                           *)
(***************************************************************************)
EXTENDS Validation, TLC

\* usual, with one field changed to one of its alternatives.
Vary(usual, alternatives) ==
  {usual} \cup UNION {{[usual EXCEPT ![f] = v] : v \in alternatives[f]} : f \in DOMAIN alternatives}

Serial(p, d, s) == [parity |-> p, dataBits |-> d, stopBits |-> s]
TLS(cert, key, ca) == [cert |-> cert, key |-> key, ca |-> ca]
NoTLS == TLS("", "", "")
Endpoint0(url, ip, port, tls) ==
  [url |-> url, ip |-> ip, port |-> port, serial |-> Serial("", 0, 0), tls |-> tls]
Literal == Endpoint0(NoUrl, "literal", 502, NoTLS)

Secure == Url("tcp+tls", "device", 802)
MCEndpoints ==
  Vary(Literal, [ip |-> {"", "name"}, port |-> {0}, url |-> {Url("tcp", "device", 502)},
                 serial |-> {Serial("odd", 7, 2), Serial("mark", 8, 1), Serial("even", 9, 1), Serial("none", 8, 3)}])
  \cup {Endpoint0(Url(s, h, p), "", 502, NoTLS) :
          s \in {"tcp", "rtu", "asciiovertcp", "http"}, h \in {"", "device"}, p \in {NoPort, BadPort, 0, 502}}
  \cup {Endpoint0(Secure, "", 502, TLS(cert, key, ca)) :
          cert \in {"", "both", "cert", "bad"}, key \in {"", "key"}, ca \in {"", "roots", "bad"}}

Client == [endpoint |-> Literal, timeout |-> 0]
Device0 == Client @@ [unit |-> 1]
Odd == [endpoint |-> MCEndpoints, timeout |-> {1, 199, 200}]
OddDevice == Odd @@ [unit |-> {0, MaxUnit}]
Functions == 0 .. 5
Starts == {0, 1, AddrMax - 2, AddrMax - 1, AddrMax}
Outputs == FilePaths \ {"none"}

MCWidths == "u16" :> 1 @@ "u32" :> 2 @@ "wide" :> MaxBlock + 1 @@ "empty" :> 0
Codecs == DOMAIN MCWidths \cup {NoCodec, "unknown"}

MCRead ==
  LET usual == Device0 @@ [function |-> 3, start |-> 0, count |-> 1, output |-> "none"]
  IN  Vary(usual, OddDevice @@ [function |-> Functions, output |-> Outputs])
        \cup {[usual EXCEPT !.function = f, !.start = a, !.count = n] :
                f \in {1, 4}, a \in Starts, n \in 0 .. MaxBits + 1}

MCDecode ==
  LET usual == Device0 @@ [function |-> 3, start |-> 0, count |-> 0, codec |-> "u16"]
  IN  Vary(usual, OddDevice @@ [function |-> Functions])
        \cup {[usual EXCEPT !.codec = k, !.start = a, !.count = n] :
                k \in Codecs, a \in Starts, n \in 0 .. MaxBlock + 1}

MCPoll ==
  LET usual == Device0 @@ [function |-> 3, start |-> 0, count |-> 1, codec |-> NoCodec, interval |-> 1]
  IN  Vary(usual, OddDevice @@ [function |-> Functions, interval |-> {0}])
        \cup {[usual EXCEPT !.function = f, !.codec = k, !.start = a, !.count = n] :
                f \in {2, 3}, k \in Codecs, a \in Starts, n \in 0 .. MaxBits + 1}

\* Requests of a plan.
Block(function, start, count) ==
  [function |-> function, start |-> start, count |-> count, sub |-> 0, data |-> NoData, records |-> <<>>, code |-> 0]
Diagnose(sub, data) == [Block(8, 0, 0) EXCEPT !.sub = sub, !.data = data]
Record(file, record, length) == [file |-> file, record |-> record, length |-> length]
Files(records) == [Block(20, 0, 0) EXCEPT !.records = records]

PlanRequests ==
  {Block(f, a, n) : f \in {0, 1}, a \in {0, AddrMax - 1, AddrMax}, n \in {0, 1, MaxBlock, MaxBits + 1}}
    \cup {Block(f, 0, 0) : f \in {6, 7, 11, 12, 16, 17, 24, 43, 65}}
    \cup {[Block(43, 0, 0) EXCEPT !.code = k] : k \in {4, 5}}
    \cup {Diagnose(sub, d) : sub \in {0, 1, 2, 4, 10, 19}, d \in {NoData, NotHex, Hex(1), Hex(4), Hex(2 * MaxEcho + 2)}}
    \cup {Files(r) : r \in {<<>>, <<Record(1, 0, 1)>>, <<Record(1, 0, MaxFileResponse)>>, <<Record(0, 0, 1)>>,
                            <<Record(1, 10000, 1)>>, <<Record(1, 0, 0)>>, <<Record(1, 9999, 2), Record(2, 1, 2)>>,
                            <<Record(1, 0, 1), Record(1, 1, 1), Record(1, 2, 1)>>}}
Plans == {<<>>} \cup {<<r>> : r \in PlanRequests} \cup {<<Block(3, 0, 1), r>> : r \in PlanRequests}

MCRecord ==
  LET usual == Device0 @@ [function |-> 3, interval |-> 1, duration |-> 2, blocks |-> "file",
                           plan |-> <<Block(0, 0, 1)>>, output |-> "none"]
  IN  Vary(usual, OddDevice @@ [function |-> Functions, interval |-> {0, 2, 3}, blocks |-> {"none", "dir"},
                                output |-> Outputs])
        \cup {[usual EXCEPT !.function = f, !.plan = p] : f \in {1, 3}, p \in Plans}

Values == {Blank, Word("on"), Word("text")} \cup
          {Number(v) : v \in {-(Space \div 2) - 1, -(Space \div 2), -1, 0, 1, AddrMax, Space, Space + 1}}
ValueLists == {<<>>} \cup {<<v>> : v \in Values} \cup {<<Number(1), v>> : v \in Values}
                \cup {[i \in 1 .. n |-> Number(1)] : n \in 3 .. MaxWriteCoils + 1}
MCWrite ==
  LET usual == Device0 @@ [function |-> 0, start |-> 0, codec |-> NoCodec, values |-> <<Number(1)>>, yes |-> TRUE]
  IN  Vary(usual, OddDevice @@ [yes |-> {FALSE}])
        \cup {[usual EXCEPT !.function = f, !.start = a, !.codec = k, !.values = v] :
                f \in {0, 3, 5, 6, 15, 16}, a \in {0, AddrMax - 1, AddrMax},
                k \in {NoCodec, "u16", "u32", "unknown"}, v \in ValueLists}

MCDiagnostic ==
  LET usual == Client @@ [unit |-> 1, sub |-> 0, data |-> NoData, yes |-> FALSE]
  IN  Vary(usual, Odd)
        \cup {[usual EXCEPT !.sub = k, !.data = d, !.yes = y] :
                k \in {0, 1, 2, 4, 5, 10, 20, 21}, y \in BOOLEAN,
                d \in {NoData, Blanks, NotHex, Hex(1), Hex(2), Hex(4), Hex(6), Hex(2 * MaxEcho + 2)}}

Bounds == {Garbage, 0, 1, 3, MaxUnit, MaxUnit + 1}
Parts == {Part(lo, hi) : lo, hi \in Bounds}
Selectors == {AllUnits} \cup {Selector(<<p>>) : p \in Parts} \cup {Selector(<<Part(2, 3), p>>) : p \in Parts}
MCUnits ==
  LET usual == Client @@ [units |-> AllUnits, parallel |-> 1]
  IN  Vary(usual, Odd @@ [units |-> Selectors, parallel |-> {0, 64, 65}])
        \cup {[usual EXCEPT !.units = Selector(<<Part(1, 1)>>), !.parallel = 0]}

MCScan ==
  LET usual == Device0 @@ [function |-> 3, delay |-> 0, algo |-> "", start |-> 1, end |-> AddrMax - 1, step |-> 1,
                           seedStart |-> 1, seedCount |-> 1, base |-> 0, bases |-> <<>>, output |-> "none"]
  IN  Vary(usual, OddDevice @@ [function |-> Functions, delay |-> {MaxDelay, MaxDelay + 1}, output |-> Outputs,
                                algo |-> ScanAlgorithms \cup {"other"}])
        \cup {[usual EXCEPT !.start = a, !.end = b] : a, b \in Starts}
        \cup {[usual EXCEPT !.algo = "stepped", !.step = 0]}
        \cup {[usual EXCEPT !.algo = "boundary", !.seedStart = a, !.seedCount = n] :
                a \in Starts, n \in 0 .. MaxBlock + 1}
        \cup {[usual EXCEPT !.algo = "sunspec", !.base = b, !.bases = l] :
                b \in Starts, l \in {<<>>, <<BlankBase>>, <<0, AddrMax, 0>>, <<AddrMax + 1>>}}

SunSpec == Client @@ [unit |-> 0, regtype |-> ""]
OddSunSpec == Odd @@ [regtype |-> {"holding", "input", "coil"}]
MCDetect ==
  Vary(SunSpec @@ [bases |-> <<>>],
       OddSunSpec @@ [bases |-> {<<BlankBase>>, <<0, BlankBase, AddrMax, 0>>, <<AddrMax + 1>>}])
MCModels == Vary(SunSpec @@ [maxModels |-> 0], OddSunSpec @@ [maxModels |-> {-1, 1}])

Subnet(first, bits) == [first |-> first, bits |-> bits]
MCDiscover ==
  LET usual == [subnets |-> <<Subnet(8, 2)>>, port |-> 502, parallel |-> 8, resolveMAC |-> FALSE,
                interface |-> "", force |-> FALSE]
  IN  Vary(usual, [port |-> {0}, parallel |-> {0, 64, 65}, resolveMAC |-> {TRUE}, force |-> {TRUE},
                   subnets |-> {<<>>, <<Subnet(-1, 1)>>, <<Subnet(0, 1)>>, <<Subnet(8, 2), Subnet(8, 3)>>,
                                <<Subnet(8, 2), Subnet(4, 2)>>, <<Subnet(5, 4)>>, <<Subnet(0, 0)>>}])
        \cup {[usual EXCEPT !.resolveMAC = TRUE, !.interface = "if"],
              [usual EXCEPT !.force = TRUE, !.subnets = <<Subnet(0, 1), Subnet(8, 1)>>],
              [usual EXCEPT !.force = TRUE, !.subnets = <<Subnet(0, 0)>>]}

ServerTLS == {TLS(cert, key, ca) : cert \in {"", "both", "cert"}, key \in {"", "key"}, ca \in {"", "roots"}}
Listener == [port |-> 502, listen |-> "", input |-> "file", missing |-> "", tls |-> NoTLS]
OddListener == [port |-> {0}, listen |-> {"name", "literal", "host:port"}, input |-> {"none", "dir", "lost/new"},
                missing |-> {"zero", "silence", "other"}, tls |-> ServerTLS]
MCStatic == Vary(Listener @@ [at |-> 0], OddListener @@ [at |-> {Garbage, 5}])
MCReplay ==
  Vary(Listener @@ [from |-> 0, before |-> "", speed |-> 1],
       OddListener @@ [from |-> {Garbage, 5}, before |-> {"hold", "absent", "other"},
                       speed |-> {-1, 0, MaxSpeed, MaxSpeed + 1}])

Register(property, start, size, format) ==
  [property |-> property, start |-> start, size |-> size, format |-> format]
MCExtract ==
  Vary([function |-> 0, input |-> "file", output |-> "none"],
       [function |-> {4, 5}, input |-> FilePaths, output |-> Outputs])
MCProfile ==
  {c @@ [profile |-> <<Register("power", 0, 1, "known")>>] : c \in MCExtract}
    \cup {[function |-> 0, input |-> "file", output |-> "none", profile |-> p] :
            p \in {<<>>, <<Register("", 0, 1, "known")>>, <<Register("power", AddrMax, 2, "known")>>,
                   <<Register("power", 0, 0, "known")>>, <<Register("power", 0, 1, "other")>>,
                   <<Register("not.used", 0, 0, "other")>>}}

MCConfigs ==
  [ read |-> MCRead, decode |-> MCDecode, poll |-> MCPoll, record |-> MCRecord, write |-> MCWrite,
    diagnostic |-> MCDiagnostic, identify |-> MCUnits, reportserverid |-> MCUnits, fingerprint |-> MCUnits,
    scan |-> MCScan, discover |-> MCDiscover, static |-> MCStatic, replay |-> MCReplay,
    extract |-> MCExtract, strings |-> MCExtract, profile |-> MCProfile ]
  @@ "sunspec detect" :> MCDetect @@ "sunspec models" :> MCModels
  @@ "sunspec map" :> Vary(SunSpec, OddSunSpec) @@ "sunspec probe" :> Vary(SunSpec, OddSunSpec)
=============================================================================
