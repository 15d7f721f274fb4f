----------------------------- MODULE ExitCodes ------------------------------
(***************************************************************************)
(* Errors, their kinds and the exit codes the kinds map to.  A Go error is *)
(* a chain: the outermost *errs.Error in it gives the kind, and errors.Is  *)
(* finds what the chain wraps, however deep.  Messages and the stable code *)
(* strings are left out.                                                   *)
(***************************************************************************)
EXTENDS Integers, FiniteSetsExt

Kinds == {"usage", "invalid_input", "transport", "timeout", "protocol", "modbus_exception",
          "output", "internal", "interrupted"}
Untyped == "untyped"

(* What a chain may wrap that the code looks for, and "other" for the rest. *)
Causes == {"no connection", "no client", "not supported", "timed out", "canceled",
           "exception", "closed", "network timeout", "other"}

Errors == [kind : Kinds \cup {Untyped}, causes : SUBSET Causes]
NoError == [kind |-> "none", causes |-> {}]

Plain(cause) == [kind |-> Untyped, causes |-> {cause}]
New(kind, cause) == [kind |-> kind, causes |-> cause.causes]
Typed(kind) == [kind |-> kind, causes |-> {}]
IsTyped(err) == err.kind # Untyped

InvalidInput(cause) == New("invalid_input", cause)
Output(cause) == New("output", cause)
WrapValidation(cause) == IF IsTyped(cause) THEN cause ELSE InvalidInput(cause)

TCPConnectionError(cause) == [cause EXCEPT !.causes = @ \cup {"no connection"}]
ClientSetupError(cause) == [cause EXCEPT !.causes = @ \cup {"no client"}]

(***************************************************************************)
(* What the collectors make of a library error: the first cause, in the    *)
(* order the code asks, that the chain wraps.                              *)
(***************************************************************************)
Classification ==
  << <<"no connection", "transport">>, <<"no client", "protocol">>, <<"not supported", "protocol">>,
     <<"timed out", "timeout">>, <<"canceled", "interrupted">>, <<"exception", "modbus_exception">>,
     <<"closed", "transport">>, <<"network timeout", "timeout">> >>

classifyUnwrappedCollect(err) ==
  LET found == {i \in DOMAIN Classification : Classification[i][1] \in err.causes}
  IN  IF found = {} THEN Untyped ELSE Classification[Min(found)][2]

WrapCollectError(err) ==
  IF IsTyped(err) THEN err
  ELSE LET kind == classifyUnwrappedCollect(err)
       IN  New(IF kind = Untyped THEN "internal" ELSE kind, err)

\* The kind an error has when it is reported inside a result.
EmbeddedErrorKind(err) == WrapCollectError(err).kind

\* Capture files that cannot be loaded or selected from.
WrapCaptureError(err) == IF IsTyped(err) THEN err ELSE InvalidInput(err)

(***************************************************************************)
(* The last steps, for every command: an untyped error of a command is     *)
(* internal, one of the command line parser is a usage error, and a chain  *)
(* that wraps a cancellation is an interruption whatever its kind.         *)
(***************************************************************************)
typeCommandErrors(err) == IF IsTyped(err) THEN err ELSE New("internal", err)

classifyFatal(err) ==
  IF "canceled" \in err.causes THEN New("interrupted", err)
  ELSE IF IsTyped(err) THEN err ELSE New("usage", err)

ExitOK == 0
ExitPartial == 7
ExitInterrupted == 130

ExitCodeForKind(kind) ==
  CASE kind = "usage" -> 2
    [] kind = "invalid_input" -> 3
    [] kind = "transport" -> 4
    [] kind = "timeout" -> 5
    [] kind \in {"protocol", "modbus_exception"} -> 6
    [] kind = "interrupted" -> ExitInterrupted
    [] OTHER -> 10

fatalExitCode(err) == ExitCodeForKind(IF IsTyped(err) THEN err.kind ELSE "internal")

\* SuccessExitForPayload: the exit code of a result that was written.
SuccessExitForPayload(partial) == IF partial THEN ExitPartial ELSE ExitOK
=============================================================================
