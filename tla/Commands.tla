------------------------------ MODULE Commands ------------------------------
(***************************************************************************)
(* Every command of modbusctl, each from its start to its exit code, with  *)
(* a signal at any time.  The commands that collect in a way of their own  *)
(* are in the modules below; the executor of scan (ScanExecutor) and the   *)
(* unit pools of identify and reportserverid (UnitPool) come in here as    *)
(* one step, and so do the exports of the capture commands.  The serving   *)
(* of a capture (Server) is a stage that only a signal ends.               *)
(***************************************************************************)
EXTENDS DeviceCommands, PollCommand, RecordCommand, FingerprintCommand, SunSpecCommands, Discovery

vars == <<invocationVars, pollVars, recordVars, fingerprintVars, sunspecCommandVars, discoveryVars>>
ownVars == <<pollVars, recordVars, fingerprintVars, sunspecCommandVars, discoveryVars>>

(* Faulty form of a definition below: the fault the properties catch. *)
StoppedIsAnError(err) == FALSE
-----------------------------------------------------------------------------
\* scan connects and opens its capture first.  Its partial result is the one
\* with failed requests; what ends it is a signal or the capture.
ScanCommand ==
  /\ Collecting({"scan"})
  /\ \/ Connect
     \/ StartCapture
     \/ /\ capture = "open"
        /\ \/ \E failed \in BOOLEAN :
                requests' = 2 /\ missed' = failed /\ Collected(NoError, failed)
           \/ \E err \in {Output(Plain("other"))} \cup (IF cancelled THEN {Plain("canceled")} ELSE {}) :
                Sent(err) /\ Collected(err, FALSE)

\* identify and reportserverid: a row per unit, failed or not; a pool of
\* clients that cannot be dialed, or a signal, leaves no result.
UnitsCommand ==
  /\ Collecting({"identify"})
  /\ \/ Connect
     \/ /\ link = "open"
        /\ \/ \E failed \in BOOLEAN :
                requests' = 2 /\ missed' = failed /\ Collected(NoError, failed)
           \/ \E err \in DialErrors \cup (IF cancelled THEN {Plain("canceled")} ELSE {}) :
                Sent(err) /\ Collected(err, FALSE)

\* server static and replay: what keeps them from starting is an error, then
\* they serve until they are stopped, and there is nothing to write: RunE
\* returns nil.
Stopped(err) == "canceled" \in err.causes

ServeErrors ==
  {InvalidInput(Plain("other")), New("transport", Plain("other"))}
  \cup IF cancelled THEN {Plain("canceled")} ELSE {}

ServeReturns(err) ==
  IF Stopped(err)
  THEN stage' = "done" /\ exitCode' = ExitOK /\ UNCHANGED <<failure, partial, stdout>>
  ELSE Fail(typeCommandErrors(WrapCollectError(err)))

ServeCommand ==
  /\ \/ /\ Collecting({"serve"})
        /\ \/ stage' = "serving" /\ UNCHANGED outcome
           \/ \E err \in ServeErrors : ServeReturns(err)
     \/ stage = "serving" /\ cancelled /\ ServeReturns(Plain("canceled"))
  /\ UNCHANGED <<flags, cancelled, device>>

(***************************************************************************)
(* capture decode, extract, frequencies and strings.  The output is        *)
(* refused if it names the input, or created; the capture is loaded and    *)
(* written out.  A write that fails counts as a capture that cannot be     *)
(* loaded, or is not noticed at all (strings and frequencies, and closing  *)
(* the output of any of them): the result is then not there, or not whole. *)
(***************************************************************************)
OutputOpenErrors == {InvalidInput(Plain("other")), Output(Plain("other"))}

ExportCommand ==
  /\ Collecting({"export"})
  /\ \/ \E err \in OutputOpenErrors \cup {WrapCaptureError(Plain("other"))} : Fail(err)
     \/ /\ stage' = "done" /\ exitCode' = ExitOK
        /\ stdout' \in {{"result"}, {}}
        /\ UNCHANGED <<failure, partial>>
  /\ UNCHANGED <<flags, cancelled, device>>

Simple == ScanCommand \/ UnitsCommand \/ ServeCommand \/ ExportCommand
-----------------------------------------------------------------------------
Init ==
  /\ InitInvocation /\ InitPoll /\ InitRecord /\ InitFingerprint /\ InitSunSpecCommand
  /\ InitDiscovery

Step ==
  \/ (Pipeline \/ AskOnce \/ Simple) /\ UNCHANGED ownVars
  \/ Poll /\ UNCHANGED <<recordVars, fingerprintVars, sunspecCommandVars, discoveryVars>>
  \/ Record /\ UNCHANGED <<pollVars, fingerprintVars, sunspecCommandVars, discoveryVars>>
  \/ Fingerprint /\ UNCHANGED <<pollVars, recordVars, sunspecCommandVars, discoveryVars>>
  \/ SunSpecCommand /\ UNCHANGED <<pollVars, recordVars, fingerprintVars, discoveryVars>>
  \/ Discover /\ UNCHANGED <<pollVars, recordVars, fingerprintVars, sunspecCommandVars>>

Clock == TimePasses /\ UNCHANGED <<pollVars, fingerprintVars, sunspecCommandVars, discoveryVars>>

Signal == Interrupt /\ UNCHANGED ownVars

Exited == stage = "done" /\ UNCHANGED vars

Next == Step \/ Clock \/ Signal \/ Exited
Spec == Init /\ [][Next]_vars /\ WF_vars(Step) /\ WF_vars(Clock)
-----------------------------------------------------------------------------
Done == stage = "done"
Succeeded == Done /\ exitCode \in {ExitOK, ExitPartial}

\* The commands that end without a result of their own on standard output.
Streaming == {"poll", "serve", "export"}

(***************************************************************************)
(* Scripts read the exit code alone (docs/exitcodes.md): 0 and 7 mean that *)
(* the result was written, 7 that something the result reports did fail    *)
(* and 0 that nothing did, save a poll that a signal cut short and what    *)
(* record skips; 130 means a signal and no result; a fatal error is one    *)
(* JSON object whenever JSON is asked for, unless it cannot be written.    *)
(***************************************************************************)
ExitCodeTells ==
  Done =>
    /\ Succeeded => failure = NoError /\ (command \in Streaming \/ stdout = {"result"})
    /\ ~Succeeded => "result" \notin stdout
    /\ exitCode = ExitPartial => missed
    /\ exitCode = ExitOK /\ missed => command = "record" \/ (command = "poll" /\ cancelled)
    /\ exitCode = ExitInterrupted => cancelled /\ command \notin Streaming
    /\ format = "json" /\ ~Succeeded => "envelope" \in stdout \/ exitCode = 10

(***************************************************************************)
(* "A write is sent once", and only when it was confirmed; a command that  *)
(* is refused (2 or 3) has sent nothing and left no capture.  decode is    *)
(* refused for what it read.                                               *)
(***************************************************************************)
WriteIsSentOnce ==
  /\ command \in {"write", "reset"} => requests <= 1 /\ (requests > 0 => confirmed)
  /\ Done /\ exitCode \in {2, 3} /\ command # "decode" => requests = 0 /\ capture = "none"

(***************************************************************************)
(* poll: every poll that counts is on the stream, under the kind it is     *)
(* counted by; the read that a signal cut short is neither.  Without a     *)
(* signal there are as many as were wanted.                                *)
(***************************************************************************)
PollsAddUp ==
  Done /\ command = "poll" /\ failure = NoError =>
    /\ summary.polls = Len(emitted)
    /\ summary.failed = Cardinality({i \in DOMAIN emitted : emitted[i] # "none"})
    /\ summary.polls = summary.succeeded + summary.failed
    /\ \A i \in DOMAIN emitted : emitted[i] # "interrupted"
    /\ IF summary.interrupted THEN cancelled ELSE summary.polls = wanted
    /\ exitCode = ExitPartial <=> summary.failed > 0

(***************************************************************************)
(* Whatever way a command ends, it has let go of its link and its capture. *)
(* A device that cannot be reached leaves no capture, and a command that   *)
(* reports success has left a whole one.                                   *)
(***************************************************************************)
CaptureIsFinished ==
  /\ capture # "none" => link # "none"
  /\ Done => link # "open" /\ capture # "open"
  /\ Succeeded /\ command \in {"read", "record", "scan"} => capture = "complete"

(***************************************************************************)
(* discover: no host is asked twice, however the subnets overlap, nor one  *)
(* that is not assignable, except that a /0 is asked at every address;     *)
(* without a signal every assignable host was asked and the devices are    *)
(* those that answer, once each and in order.  Over a /0 there is a result *)
(* only after a signal.                                                    *)
(***************************************************************************)
WalksForever == \E i \in DOMAIN subnets : Endless(subnets[i])

DiscoveryIsExact ==
  LET hosts == UNION {VisitedHosts(subnets[i]) : i \in DOMAIN subnets}
  IN  /\ \A a \in Addresses : probes[a] <= IF a \in hosts THEN 1 ELSE 0
      /\ Succeeded /\ command = "discover" =>
           /\ \A i, j \in DOMAIN raw : i < j => Rank[raw[i]] < Rank[raw[j]]
           /\ {raw[i] : i \in DOMAIN raw} \subseteq answering \cap hosts
           /\ ~cancelled => ~WalksForever /\ {raw[i] : i \in DOMAIN raw} = answering \cap hosts

(***************************************************************************)
(* Every command ends: a signal ends poll, a server and whatever else goes *)
(* on, and without one nothing the device does keeps the others.  The walk *)
(* of a /0 is not over, and once it has met every host it no longer looks  *)
(* for a signal either.                                                    *)
(***************************************************************************)
EndsAlone == command # "serve" /\ (command = "poll" => wanted # 0)

CommandEnds == (cancelled \/ EndsAlone) /\ ~WalksForever ~> Done
=============================================================================
