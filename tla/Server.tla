------------------------------- MODULE Server -------------------------------
(***************************************************************************)
(* `server static` and `server replay`: load a capture, build a device per *)
(* target, listen, and answer the requests of several clients from it, as  *)
(* of a fixed time or of the replay time.  Stopped by a signal.            *)
(*                                                                         *)
(* The Modbus server is a library: it reads a request, calls OnRequest,    *)
(* the handler, and OnResponse or OnError with what the handler returned.  *)
(***************************************************************************)
EXTENDS Replay

CONSTANTS
  Clients,      (* connections                                             *)
  Captures,     (* what the input file may hold                            *)
  Configs,      (* what the flags may say                                  *)
  Asked,        (* requests of the clients                                 *)
  MaxElapsed,   (* bound: time the server runs                             *)
  MaxRequests   (* bound: requests in all                                  *)

(***************************************************************************)
(* What the parser of a capture lets through, of the functions it supports *)
(* (a sample of another one is refused in Prepare), and the requests that  *)
(* the library hands on: reads of one address or more, inside the address  *)
(* space.                                                                  *)
(***************************************************************************)
SampleTyped(s) ==
  /\ s.fc \in Tables => s.start \in Nat /\ s.values \in Seq(Int)
  /\ s.fc = Identity => DOMAIN s.objects \subseteq Objects
  /\ s.fc \notin Tables \cup {Identity} => s.req \in Requests /\ s.req.fc = s.fc
CaptureTyped(f) ==
  /\ f.samples \in Seq(Range(f.samples)) /\ f.end \in Int
  /\ \A i \in DOMAIN f.samples :
       f.samples[i].at \in Nat /\ (f.samples[i].fc \in f.supported => SampleTyped(f.samples[i]))
RequestTyped(r) ==
  /\ r.fc \in Tables => r.start \in Nat /\ r.qty \in Nat \ {0} /\ r.start + r.qty - 1 <= AddrMax
  /\ r.fc \notin Tables \cup {Identity} => r.req \in Requests /\ r.req.fc = r.fc

ASSUME ServerAssumption ==
  /\ IsFiniteSet(Clients) /\ MaxElapsed \in Nat /\ MaxRequests \in Nat
  /\ \A c \in Configs : c.missing \in {"exception", "zero", "silence"}
                        /\ c.before \in {"hold", "absent"}
                        /\ c.from \in Nat /\ c.num \in Nat /\ c.den \in Nat \ {0} /\ c.loops \in Nat
  /\ \A f \in Captures : CaptureTyped(f)
  /\ \A r \in Asked : r.refused = "none" => RequestTyped(r)

VARIABLES
  capture,    (* the file: samples, targets (ID to unit), declared end     *)
  config,
  step,       (* "prepare", "listen", "serve" or "returned"                *)
  devices,    (* unit to device                                            *)
  served,     (* history: unit to the target it serves                     *)
  elapsed,    (* time since the server was ready                           *)
  session,    (* per client: the request in progress and its answer        *)
  stats,      (* serveStats                                                *)
  cancelled,
  returned

vars == <<capture, config, step, devices, served, elapsed, session, stats, cancelled, returned>>

Idle == [at |-> "idle"]
NoAnswer == [kind |-> "none"]
Silent == [kind |-> "silent"]
Exception(code) == [kind |-> "exception", code |-> code]
Data(v) == [kind |-> "data", value |-> v]

(* Faulty forms of the definitions below: the faults the properties catch. *)
SilentIsAnswered(answer) == IF answer.kind = "exception" THEN "exceptions" ELSE "answered"
-----------------------------------------------------------------------------
Init ==
  /\ capture \in Captures
  /\ config \in Configs
  /\ step = "prepare"
  /\ devices = <<>> /\ served = <<>>
  /\ elapsed = 0
  /\ session = [c \in Clients |-> Idle]
  /\ stats = [requests |-> 0, answered |-> 0, exceptions |-> 0, silent |-> 0, unrecorded |-> 0]
  /\ cancelled = FALSE
  /\ returned = "none"

Cancel ==
  /\ ~cancelled
  /\ cancelled' = TRUE
  /\ UNCHANGED <<capture, config, step, devices, served, elapsed, session, stats, returned>>

Return(as) == step' = "returned" /\ returned' = as

\* Loaded.End: a truncated file has no declared end (-1 here).
CaptureEnd ==
  IF capture.end >= 0 THEN capture.end
  ELSE Max({capture.samples[i].at : i \in DOMAIN capture.samples} \cup {0})

\* serveTargets: the targets to serve, and the unit each answers on.
Chosen ==
  IF config.target # 0 THEN {config.target} \cap DOMAIN capture.targets ELSE DOMAIN capture.targets
UnitOf(target) == IF config.unit # 0 THEN config.unit ELSE capture.targets[target]

\* Load refuses a sample that is no read of the specification.
Servable ==
  /\ \A i \in DOMAIN capture.samples : capture.samples[i].fc \in capture.supported
  /\ Chosen # {}
  /\ config.unit # 0 => \A x, y \in Chosen : x = y
  /\ \A x, y \in Chosen : UnitOf(x) = UnitOf(y) => x = y

Prepare ==
  /\ step = "prepare"
  /\ IF cancelled THEN Return("cancelled") /\ UNCHANGED <<devices, served>>
     ELSE IF ~Servable THEN Return("invalidInput") /\ UNCHANGED <<devices, served>>
     ELSE LET units == {UnitOf(x) : x \in Chosen}
              target == [u \in units |-> CHOOSE x \in Chosen : UnitOf(x) = u]
          IN /\ served' = target
             /\ devices' = [u \in units |-> Build(capture.samples, target[u])]
             /\ step' = "listen" /\ UNCHANGED returned
  /\ UNCHANGED <<capture, config, elapsed, session, stats, cancelled>>

Listen ==
  /\ step = "listen"
  /\ \/ step' = "serve" /\ UNCHANGED returned
     \/ Return("transportError")
  /\ UNCHANGED <<capture, config, devices, served, elapsed, session, stats, cancelled>>

\* server.Stop() cuts off the sessions; a handler that is running counts no more.
Stop ==
  /\ step = "serve" /\ cancelled
  /\ Return("cancelled")
  /\ UNCHANGED <<capture, config, devices, served, elapsed, session, stats, cancelled>>

Tick ==
  /\ step \in {"listen", "serve"} /\ elapsed < MaxElapsed
  /\ elapsed' = elapsed + 1
  /\ UNCHANGED <<capture, config, step, devices, served, session, stats, cancelled, returned>>
-----------------------------------------------------------------------------
Least(x, y) == IF x < y THEN x ELSE y

\* The replay window ends at the end of the capture; a static device stays at
\* the chosen time (its speed is 0 here).
Clock == [from |-> Least(config.from, CaptureEnd), to |-> CaptureEnd,
          num |-> config.num, den |-> config.den, loops |-> config.loops]
IsStatic == config.num = 0
Now == IF IsStatic THEN Clock.from ELSE ClockAt(Clock, elapsed)

\* absent: the answer to a request the capture holds nothing for.
Absent(d, fc, qty) ==
  IF config.missing = "zero" /\ fc \in Tables THEN Data([i \in 1 .. qty |-> 0])
  ELSE IF config.missing = "silence" THEN Silent
  ELSE IF HasFunction(d, fc) THEN Exception("IllegalDataAddress")
  ELSE Exception("IllegalFunction")

\* values: all of the addresses are recorded, or it is up to --missing.
ZeroFilled(vals) == [i \in DOMAIN vals |-> IF vals[i] = Unrecorded THEN 0 ELSE vals[i]]

ValuesAnswer(d, r, t) ==
  LET vals == Lookup(d, r.fc, r.start, r.qty, t, config.before)
  IN IF \A i \in DOMAIN vals : vals[i] # Unrecorded THEN Data(vals)
     ELSE IF config.missing = "zero" /\ HasFunction(d, r.fc) THEN Data(ZeroFilled(vals))
     ELSE Absent(d, r.fc, r.qty)

\* response, and what the handlers of the functions kept per request make of
\* it: a response too short or of another function counts as unrecorded, one
\* whose counts disagree is a device failure.
ResponseAnswer(d, r, t) ==
  LET resp == ValueAt(d.reqs[r.req], t, config.before)
  IN IF resp \in {Unrecorded, "short"} THEN Absent(d, r.fc, 0)
     ELSE IF resp = "inconsistent" THEN Exception("ServerDeviceFailure")
     ELSE Data(resp)

IdentityAnswer(d, t) ==
  LET id == Identification(d, t, config.before)
  IN IF id.ok THEN Data(id) ELSE Absent(d, Identity, 0)

\* Requests no capture can answer: writes, FC08 sub-functions that change the
\* device, FC20 without records.
NotServed(r) == r.refused # "none"

Answer(r, t) ==
  IF NotServed(r) THEN Exception(r.refused)
  ELSE IF r.unit \notin DOMAIN devices THEN Exception("BadUnitID")
  ELSE LET d == devices[r.unit]
       IN CASE r.fc \in Tables -> ValuesAnswer(d, r, t)
            [] r.fc = Identity -> IdentityAnswer(d, t)
            [] OTHER -> ResponseAnswer(d, r, t)

\* The requests the handlers report as unrecorded.
Recorded(r, t) ==
  LET d == devices[r.unit]
  IN CASE r.fc \in Tables ->
            \A i \in 1 .. r.qty : ValueAt(d.addrs[r.fc][r.start + i - 1], t, config.before) # Unrecorded
       [] r.fc = Identity -> Identification(d, t, config.before).ok
       [] OTHER -> ValueAt(d.reqs[r.req], t, config.before) \notin {Unrecorded, "short"}
CountsUnrecorded(r, t) == ~NotServed(r) /\ r.unit \in DOMAIN devices /\ ~Recorded(r, t)

\* OnRequest.
Arrive(c, r) ==
  /\ step = "serve" /\ session[c] = Idle /\ stats.requests < MaxRequests
  /\ session' = [session EXCEPT ![c] = [at |-> "handler", req |-> r]]
  /\ stats' = [stats EXCEPT !.requests = @ + 1]
  /\ UNCHANGED <<capture, config, step, devices, served, elapsed, cancelled, returned>>

\* The handler reads the clock once and answers from the immutable devices.
Handle(c) ==
  /\ step = "serve" /\ session[c].at = "handler"
  /\ LET r == session[c].req
     IN /\ session' = [session EXCEPT ![c] =
                         [at |-> "answered", req |-> r, t |-> Now, answer |-> Answer(r, Now)]]
        /\ stats' = [stats EXCEPT !.unrecorded = @ + (IF CountsUnrecorded(r, Now) THEN 1 ELSE 0)]
  /\ UNCHANGED <<capture, config, step, devices, served, elapsed, cancelled, returned>>

\* OnResponse and OnError.
Counter(answer) ==
  CASE answer.kind = "data" -> "answered"
    [] answer.kind = "silent" -> "silent"
    [] OTHER -> "exceptions"

Deliver(c) ==
  /\ step = "serve" /\ session[c].at = "answered"
  /\ stats' = [stats EXCEPT ![Counter(session[c].answer)] = @ + 1]
  /\ session' = [session EXCEPT ![c] = Idle]
  /\ UNCHANGED <<capture, config, step, devices, served, elapsed, cancelled, returned>>

Next ==
  \/ Prepare \/ Listen \/ Stop \/ Cancel \/ Tick
  \/ \E c \in Clients : (\E r \in Asked : Arrive(c, r)) \/ Handle(c) \/ Deliver(c)

Spec == Init /\ [][Next]_vars
-----------------------------------------------------------------------------
\* The points of a device are changes: in order of time, no value twice in a row.
Changes(pts) ==
  \A i \in 1 .. Len(pts) - 1 : pts[i].at <= pts[i + 1].at /\ pts[i].v # pts[i + 1].v

TypeOK ==
  /\ capture \in Captures /\ config \in Configs
  /\ step \in {"prepare", "listen", "serve", "returned"}
  /\ \A u \in DOMAIN devices :
       /\ \A fc \in Tables, a \in 0 .. AddrMax : Changes(devices[u].addrs[fc][a])
       /\ \A r \in Requests : Changes(devices[u].reqs[r])
       /\ \A o \in Objects : Changes(devices[u].objs[o])
       /\ Changes(devices[u].conf)
  /\ elapsed \in 0 .. MaxElapsed
  /\ stats \in [{"requests", "answered", "exceptions", "silent", "unrecorded"} -> 0 .. MaxRequests]
  /\ cancelled \in BOOLEAN
  /\ returned \in {"none", "cancelled", "invalidInput", "transportError"}

\* Sample and hold, from the samples alone: of the samples of one address,
\* object or request the latest at or before t holds; before the first one it
\* is the first, or nothing (--before-first).
Held(S, value(_), t) ==
  LET past == {i \in S : capture.samples[i].at <= t}
  IN IF past # {} THEN value(Latest(capture.samples, past))
     ELSE IF S # {} /\ config.before = "hold" THEN value(Earliest(capture.samples, S))
     ELSE Unrecorded

SamplesOf(unit, fc) ==
  {i \in Hosted(capture.samples, served[unit]) : capture.samples[i].fc = fc}
HeldAddress(unit, fc, a, t) ==
  Held({i \in SamplesOf(unit, fc) :
          a \in capture.samples[i].start .. capture.samples[i].start + Len(capture.samples[i].values) - 1},
       LAMBDA i : capture.samples[i].values[a - capture.samples[i].start + 1], t)
HeldObject(unit, o, t) ==
  Held({i \in SamplesOf(unit, Identity) : o \in DOMAIN capture.samples[i].objects},
       LAMBDA i : capture.samples[i].objects[o], t)
HeldResponse(unit, r, t) ==
  Held({i \in SamplesOf(unit, r.fc) : capture.samples[i].req = r.req},
       LAMBDA i : capture.samples[i].resp, t)

\* Every answer is the sample-and-hold of one instant, whatever the order of
\* the file and the points that were dropped; only --missing zero adds to it.
AnswerHolds(r, t, answer) ==
  CASE r.fc \in Tables ->
         LET held == [i \in 1 .. r.qty |-> HeldAddress(r.unit, r.fc, r.start + i - 1, t)]
         IN IF Unrecorded \notin Range(held) \/ config.missing = "zero"
            THEN answer = Data(ZeroFilled(held))
            ELSE answer.kind # "data"
    [] r.fc = Identity ->
         LET held == [o \in Objects |-> HeldObject(r.unit, o, t)]
             known == {o \in Objects : held[o] # Unrecorded}
         IN IF known = {} THEN answer.kind # "data"
            ELSE answer.kind = "data" /\ answer.value.objects = [o \in known |-> held[o]]
    [] OTHER ->
         LET held == HeldResponse(r.unit, r, t)
         IN IF held \in {Unrecorded, "short", "inconsistent"} THEN answer.kind # "data"
            ELSE answer = Data(held)

HoldsLatest ==
  \A c \in Clients :
    session[c].at = "answered" /\ ~NotServed(session[c].req) /\ session[c].req.unit \in DOMAIN devices =>
      AnswerHolds(session[c].req, session[c].t, session[c].answer)

\* Within a round the replay time keeps the pace of the speed, to a tick; it
\* goes back only when a new round begins, never leaves the window, and stays
\* at its end after the last round.
Round(e) == IF Span(Clock) = 0 THEN 0 ELSE Played(Clock, e) \div Span(Clock)
ClockKeepsPace ==
  [][elapsed' # elapsed /\ ~IsStatic =>
       LET advance == (Now' - Now) * config.den
       IN /\ Now' \in Clock.from .. Clock.to
          /\ IF config.loops > 0 /\ Round(elapsed') >= config.loops
             THEN Now' = Clock.to
             ELSE /\ Clock.from < Clock.to => Now' < Clock.to
                  /\ Round(elapsed') = Round(elapsed) /\ Clock.from < Clock.to =>
                       advance > config.num - config.den /\ advance < config.num + config.den]_vars

\* The summary accounts for every request, also those cut off by the end; what
\* is left unanswered is what --missing silence asked for.
CountersAddUp ==
  LET busy == {c \in Clients : session[c] # Idle}
      mute == {c \in Clients : session[c].at = "answered" /\ session[c].answer = Silent}
  IN /\ stats.requests = stats.answered + stats.exceptions + stats.silent + Cardinality(busy)
     /\ config.missing = "silence" => stats.unrecorded = stats.silent + Cardinality(mute)
=============================================================================
