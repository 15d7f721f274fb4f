---------------------------- MODULE PollCommand -----------------------------
(***************************************************************************)
(* client poll: read the same block on a fixed cadence and write every     *)
(* sample to a stream, until the wanted number of polls was taken or the   *)
(* run is cancelled, which is its normal end.  A failed read is a sample   *)
(* with an error and is counted; the exit code says that there were some.  *)
(***************************************************************************)
EXTENDS Invocation

CONSTANTS
  PollsWanted,   (* choices of --polls, 0 for unbounded                    *)
  MaxPolls       (* bound: polls of an unbounded run                       *)

ASSUME PollAssumption == PollsWanted \subseteq Nat /\ MaxPolls \in Nat

VARIABLES
  wanted,
  pollAt,    (* where the loop is *)
  n,         (* the loop variable *)
  sample,    (* the kind of the error of the sample at hand, or "none" *)
  summary,
  emitted    (* the samples on the stream *)

pollVars == <<wanted, pollAt, n, sample, summary, emitted>>

(* Faulty forms of the definitions below: the faults the properties catch. *)
CountEveryFailure(err) == FALSE
NeverPartial(s) == ExitOK
-----------------------------------------------------------------------------
InitPoll ==
  /\ wanted \in IF command = "poll" THEN PollsWanted ELSE {0}
  /\ pollAt = "connect" /\ n = 1 /\ sample = "none"
  /\ summary = [polls |-> 0, succeeded |-> 0, failed |-> 0, interrupted |-> FALSE]
  /\ emitted = <<>>

Polling(at) == Collecting({"poll"}) /\ pollAt = at
Goto(at) == pollAt' = at /\ UNCHANGED <<flags, stage, cancelled, outcome, link, capture>>

PollExit(s) == IF s.failed > 0 THEN ExitPartial ELSE ExitOK

\* finish, and the deferred link.Close; RunClientStream sets the exit code.
FinishPoll(interrupted) ==
  /\ summary' = [summary EXCEPT !.interrupted = interrupted]
  /\ exitCode' = PollExit(summary')
  /\ stage' = "done" /\ link' = "closed"
  /\ UNCHANGED <<flags, cancelled, failure, partial, stdout, capture, pollAt, wanted, n>>

PollConnect ==
  /\ Polling("connect")
  /\ Connect
  /\ pollAt' = "loop"
  /\ UNCHANGED <<wanted, n, sample, summary, emitted>>

PollAgain ==
  /\ Polling("loop")
  /\ IF cancelled THEN FinishPoll(TRUE)
     ELSE /\ wanted # 0 \/ n <= MaxPolls
          /\ Goto("read")
          /\ UNCHANGED <<wanted, n, summary>>
  /\ UNCHANGED <<requests, missed, sample, emitted>>

\* "A read cut short by cancellation is the end of the run, not a failed poll."
CutShort(err) == err # NoError /\ cancelled

\* A read that fails with two attempts, or values the codec does not decode.
PollRead ==
  /\ Polling("read")
  /\ \E err \in CallErrors \cup DialErrors \cup {NoError, InvalidInput(Plain("other"))} :
       /\ Sent(err)
       /\ IF CutShort(err) THEN FinishPoll(TRUE) /\ UNCHANGED sample
          ELSE /\ sample' = IF err = NoError THEN "none" ELSE EmbeddedErrorKind(err)
               /\ summary' = [summary EXCEPT !.polls = @ + 1,
                                !.failed = IF err = NoError THEN @ ELSE @ + 1,
                                !.succeeded = IF err = NoError THEN @ + 1 ELSE @]
               /\ Goto("emit")
               /\ UNCHANGED <<wanted, n>>
  /\ UNCHANGED emitted

\* The stream may be closed by its reader, which ends the run with an error.
PollEmit ==
  /\ Polling("emit")
  /\ \/ /\ emitted' = Append(emitted, sample)
        /\ IF wanted # 0 /\ n = wanted THEN FinishPoll(FALSE)
           ELSE Goto("sleep") /\ UNCHANGED <<wanted, n, summary>>
     \/ /\ Collected(Output(Plain("other")), FALSE)
        /\ UNCHANGED <<wanted, pollAt, n, summary, emitted>>
  /\ UNCHANGED <<requests, missed, sample>>

\* A slow poll leaves no time to sleep, and then nothing notices a signal.
PollSleep ==
  /\ Polling("sleep")
  /\ \/ n' = n + 1 /\ Goto("loop") /\ UNCHANGED <<wanted, summary>>
     \/ cancelled /\ FinishPoll(TRUE)
  /\ UNCHANGED <<requests, missed, sample, emitted>>

Poll == PollConnect \/ PollAgain \/ PollRead \/ PollEmit \/ PollSleep
=============================================================================
