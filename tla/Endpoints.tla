----------------------------- MODULE Endpoints ------------------------------
(***************************************************************************)
(* Where a command connects to, or listens: Modbus URLs, addresses, serial *)
(* lines and TLS files.  A URL is a scheme and an address, of which a host *)
(* and a port are told apart; "" is what is not set, after trimming.       *)
(***************************************************************************)
EXTENDS Integers

networkSchemes == {"tcp", "tcp+tls", "udp", "rtuovertcp", "rtuoverudp", "asciiovertcp"}
serialSchemes == {"rtu", "ascii"}

\* A port of a URL that is not there, and one that is not a number of 16 bits.
NoPort == -1
BadPort == -2
DefaultPort == 502

Url(scheme, host, port) == [scheme |-> scheme, host |-> host, port |-> port]
NoUrl == Url("", "", NoPort)

(* Faulty forms of the definitions below: the faults the properties catch. *)
EitherEndpoint(url, ip) == url # NoUrl \/ ip # ""
AnyHost(url) == url.scheme \in networkSchemes \cup serialSchemes
-----------------------------------------------------------------------------
ModbusURL(url, ip, port) ==
  IF url # NoUrl THEN url
  ELSE IF ip = "" THEN NoUrl
  ELSE Url("tcp", ip, IF port = 0 THEN DefaultPort ELSE port)

IsSerialURL(url) == url.scheme \in serialSchemes
IsTLSURL(url) == url.scheme = "tcp+tls"

NoEndpoint == [host |-> "", port |-> 0]

ParseModbusURLHostPort(url) ==
  IF url.host = "" \/ url.scheme \notin networkSchemes \/ url.port = BadPort THEN NoEndpoint
  ELSE [host |-> url.host, port |-> IF url.port = NoPort THEN DefaultPort ELSE url.port]

\* What the header of a capture says of the device.
CaptureEndpoint(url) ==
  IF IsSerialURL(url) /\ url.host # "" THEN [host |-> url.host, port |-> 0]
  ELSE ParseModbusURLHostPort(url)

ValidateModbusURL(url) ==
  /\ url.scheme \in networkSchemes \cup serialSchemes
  /\ IF IsSerialURL(url) THEN url.host # ""
     ELSE ParseModbusURLHostPort(url).host # "" /\ ParseModbusURLHostPort(url).port # 0

ExactlyOneSet(url, ip) == (url # NoUrl) # (ip # "")

ValidateModbusAddress(url, ip) ==
  ExactlyOneSet(url, ip) /\ (url # NoUrl => ValidateModbusURL(url))

\* Zero values select the defaults.
ValidateSerialConfig(serial) ==
  /\ serial.parity \in {"", "none", "even", "odd"}
  /\ serial.dataBits \in {0} \cup 5 .. 8
  /\ serial.stopBits \in 0 .. 2

(***************************************************************************)
(* The files of the TLS settings: "both" holds a certificate and its key,  *)
(* "cert", "key" and "roots" hold one thing, "bad" holds none.             *)
(***************************************************************************)
KeyPair(cert, key) == cert \in {"cert", "both"} /\ key \in {"key", "both"}

ClientTLSLoads(tls) ==
  /\ tls.cert # "" /\ KeyPair(tls.cert, IF tls.key = "" THEN tls.cert ELSE tls.key)
  /\ tls.ca \in {"", "roots"}

ValidateTLSConfig(url, tls) == IsTLSURL(url) => ClientTLSLoads(tls)

\* A server has no system roots to fall back on for its clients.
ServerTLSEnabled(tls) == tls.cert # "" \/ tls.key # "" \/ tls.ca # ""
ServerTLSLoads(tls) ==
  ServerTLSEnabled(tls) =>
    /\ tls.cert # "" /\ tls.ca = "roots"
    /\ KeyPair(tls.cert, IF tls.key = "" THEN tls.cert ELSE tls.key)

\* validateModbusEndpoint: --ip takes a literal address, never a name.
validateModbusEndpoint(e) ==
  /\ ValidateModbusAddress(e.url, e.ip)
  /\ ValidateSerialConfig(e.serial)
  /\ ValidateTLSConfig(e.url, e.tls)
  /\ e.ip # "" => e.ip = "literal" /\ e.port # 0

\* Zero is the default timeout of every client command.
MinTimeout == 200
validateOptionalTimeoutMilliseconds(ms) == ms = 0 \/ ms >= MinTimeout

checkListen(host) == host \in {"", "literal", "name"}
=============================================================================
