----------------------------- MODULE Invocation -----------------------------
(***************************************************************************)
(* One run of modbusctl, from the environment to the exit code: the format *)
(* is attached, the flags are checked, the command collects a result, the  *)
(* result is written and the exit code is chosen; a fatal error is typed,  *)
(* classified and rendered once.  A signal cancels the context at any time.*)
(*                                                                         *)
(* What a command does while it collects is in the modules that extend     *)
(* this one.  They share the device link and the capture of this module.   *)
(***************************************************************************)
EXTENDS ExitCodes, Sequences

CONSTANT Commands   (* the commands to choose from *)

VARIABLES
  command,
  format,      (* --format: "json", "text" (or table) or "bad"             *)
  confirmed,   (* --yes                                                    *)
  stage,
  cancelled,   (* SIGINT or SIGTERM arrived                                *)
  failure,     (* the error RunE returned                                  *)
  partial,     (* the result has an embedded failure                       *)
  stdout,      (* what standard output holds, of "result" and "envelope"   *)
  exitCode,
  link,        (* the connection to the device                             *)
  capture,     (* the capture file                                         *)
  requests,    (* history: requests sent, 2 for two or more                *)
  missed       (* history: a request failed                                *)

flags == <<command, format, confirmed>>
outcome == <<failure, partial, stdout, exitCode>>
device == <<link, capture, requests, missed>>
invocationVars == <<flags, stage, cancelled, outcome, device>>

NotExited == -1
Stages == {"start", "attach", "check", "collect", "serving", "write", "fatal", "done"}

\* RunE of discover checks the flags first; serve and the capture commands
\* have no --format.
Preliminaries ==
  IF command \in {"serve", "export"} THEN <<"check", "collect">>
  ELSE IF command = "discover" THEN <<"check", "attach", "collect">>
  ELSE <<"attach", "check", "collect">>

Following(s) ==
  IF s = "start" THEN Head(Preliminaries)
  ELSE Preliminaries[(CHOOSE i \in DOMAIN Preliminaries : Preliminaries[i] = s) + 1]

(* Faulty forms of the definitions below: the faults the properties catch. *)
CloseIsIgnored(err, closed) == err
PartialForNone == {}
UnconfirmedIsFine == FALSE
-----------------------------------------------------------------------------
InitInvocation ==
  /\ command \in Commands
  /\ format \in {"json", "text", "bad"}
  /\ confirmed \in IF command \in {"write", "reset"} THEN BOOLEAN ELSE {FALSE}
  /\ stage = "start" /\ cancelled = FALSE
  /\ failure = NoError /\ partial = FALSE /\ stdout = {} /\ exitCode = NotExited
  /\ link = "none" /\ capture = "none" /\ requests = 0 /\ missed = FALSE

Interrupt ==
  /\ ~cancelled /\ stage # "done"
  /\ cancelled' = TRUE
  /\ UNCHANGED <<flags, stage, outcome, device>>

Fail(err) == stage' = "fatal" /\ failure' = err /\ UNCHANGED <<partial, stdout, exitCode>>

\* Errors RunE returns; the two below come from outside it.
Refuse(err) == Fail(typeCommandErrors(err)) /\ UNCHANGED <<flags, cancelled, device>>

Proceed == stage' = Following(stage) /\ UNCHANGED <<flags, cancelled, outcome, device>>

\* EnvError: a malformed variable ends the run before anything else.
MalformedEnvironment ==
  /\ stage = "start"
  /\ Fail(InvalidInput(Plain("other")))
  /\ UNCHANGED <<flags, cancelled, device>>

\* Cobra refuses an unknown flag or command, or finds a required flag missing.
Dispatch ==
  /\ stage = "start"
  /\ \/ Proceed
     \/ Fail(Plain("other")) /\ UNCHANGED <<flags, cancelled, device>>

AttachOutputFormat ==
  /\ stage = "attach"
  /\ IF format = "bad" THEN Refuse(InvalidInput(Plain("other"))) ELSE Proceed

\* Write and the diagnostics that change the device are confirmed first.
Unconfirmed == command \in {"write", "reset"} /\ ~confirmed

Check ==
  /\ stage = "check"
  /\ IF Unconfirmed THEN Refuse(Typed("usage"))
     ELSE Proceed \/ Refuse(WrapValidation(Plain("other")))

(***************************************************************************)
(* How collecting ends, whether with an error or NoError: the deferred     *)
(* calls finish the capture, whose failure is reported unless an error is  *)
(* there already, and close the link.                                      *)
(***************************************************************************)
finishCapture(err, closed) ==
  IF closed = "torn" /\ err = NoError THEN Output(Plain("other")) ELSE err

Closing(err, closed) ==
  /\ closed \in IF capture = "open" THEN {"complete", "torn"} ELSE {capture}
  /\ capture' = closed
  /\ link' = IF link = "open" THEN "closed" ELSE link

Collected(err, embedded) ==
  \E closed \in {"none", "complete", "torn"} :
    /\ Closing(err, closed)
    /\ LET final == IF capture = "open" THEN finishCapture(err, closed) ELSE err
       IN  IF final = NoError
           THEN stage' = "write" /\ partial' = embedded /\ UNCHANGED <<failure, stdout, exitCode>>
           ELSE Fail(typeCommandErrors(WrapCollectError(final)))
    /\ UNCHANGED <<flags, cancelled>>

\* The commands run with WithSuccessExit(SuccessExitForPayload).
ExitsPartial == {"scan", "identify", "fingerprint", "probe"}

WriteResult ==
  /\ stage = "write"
  /\ \/ /\ stage' = "done" /\ stdout' = stdout \cup {"result"}
        /\ exitCode' = IF command \in ExitsPartial THEN SuccessExitForPayload(partial) ELSE ExitOK
        /\ UNCHANGED <<flags, cancelled, failure, partial, device>>
     \/ Refuse(Output(Plain("other")))

\* The error once, as JSON on standard output when JSON is asked for.
RenderFatal ==
  /\ stage = "fatal"
  /\ stage' = "done"
  /\ LET code == fatalExitCode(classifyFatal(failure))
     IN  \/ exitCode' = code /\ stdout' = IF format = "json" THEN stdout \cup {"envelope"} ELSE stdout
         \/ format = "json" /\ exitCode' = ExitCodeForKind("internal") /\ UNCHANGED stdout
  /\ UNCHANGED <<flags, cancelled, failure, partial, device>>

Pipeline ==
  MalformedEnvironment \/ Dispatch \/ AttachOutputFormat \/ Check \/ WriteResult \/ RenderFatal
-----------------------------------------------------------------------------
(***************************************************************************)
(* The device, for the commands.  An exchange (module Exchange) or a call  *)
(* of the client library ends with an answer or one of these; only a       *)
(* cancelled context ends it as canceled.                                  *)
(***************************************************************************)
Collecting(c) == stage = "collect" /\ command \in c

CallErrors ==
  {Plain(c) : c \in {"exception", "timed out", "closed", "other"}}
  \cup IF cancelled THEN {Plain("canceled")} ELSE {}

DialErrors == {TCPConnectionError(Plain(c)) : c \in {"network timeout", "other"}}

\* openDeviceLink: the TLS files are loaded again, and the device is dialed.
Connect ==
  /\ link = "none"
  /\ \/ link' = "open" /\ UNCHANGED <<flags, stage, cancelled, outcome, capture, requests, missed>>
     \/ \E err \in DialErrors \cup {InvalidInput(Plain("other"))} :
          Collected(err, FALSE) /\ UNCHANGED <<requests, missed>>

\* What a request leaves behind: err is NoError when it was answered.
Sent(err) == requests' = Min({requests + 1, 2}) /\ missed' = (missed \/ err # NoError)

\* startCapture: creating the file fails, or writing its first records does.
StartCapture ==
  /\ link = "open" /\ capture = "none"
  /\ \/ capture' = "open" /\ UNCHANGED <<flags, stage, cancelled, outcome, link, requests, missed>>
     \/ \E left \in {"none", "complete", "torn"} :
          /\ Fail(Output(Plain("other")))
          /\ capture' = left /\ link' = "closed"
          /\ UNCHANGED <<flags, cancelled, requests, missed>>
=============================================================================
