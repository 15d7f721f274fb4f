------------------------------ MODULE Exchange ------------------------------
(***************************************************************************)
(* One exchange on a device link: up to Retries attempts of a request.  A  *)
(* busy device is asked again, a dropped connection is re-dialed first,    *)
(* and every attempt is bracketed by the recorder's Begin and Commit.  The *)
(* caller may be cancelled at any time; only the waits notice.             *)
(*                                                                         *)
(* The recorder is the module Recorder, driven by this one link.  The      *)
(* Modbus client is a library: a call exchanges some PDUs and returns an   *)
(* outcome; a call that is dropped leaves its connection broken.           *)
(***************************************************************************)
EXTENDS Recorder

CONSTANTS
  Retries,       (* attempts: 1 for read and scan, 2 for poll, 5 for record *)
  Delayed,       (* --delay is not 0                                       *)
  Link,          (* this link, among the callers of the recorder           *)
  MaxExchanges   (* bound: exchanges on the link                           *)

ASSUME ExchangeAssumption ==
  /\ Retries \in Nat \ {0}
  /\ MaxExchanges \in Nat \ {0}
  /\ Delayed \in BOOLEAN
  /\ Link \in Callers
  /\ MaxAttempts >= Retries * MaxExchanges

VARIABLES
  step,       (* where the exchange is, "idle" between two exchanges       *)
  started,    (* exchanges begun                                           *)
  attempt,    (* the loop variable                                         *)
  client,     (* the link's client: "live", "broken" or "closed"           *)
  err,        (* outcome of the last call                                  *)
  result,     (* what the last exchange returned                           *)
  cancelled,  (* the caller's context is cancelled                         *)
  calls,      (* history: calls of this exchange                           *)
  before      (* history: the latest token when this exchange began        *)

linkVars == <<started, attempt, client, err, result, cancelled, calls, before>>
vars == <<recVars, step, linkVars>>

Steps == {"idle", "wait", "dial", "begin", "call", "commit", "decide"}
CallOutcomes == {"ok", "busy", "exception", "dropped", "failed"}
Results == CallOutcomes \cup {"none", "cancelled", "dialFailed", "writeFailed"}

TypeOK ==
  /\ RecTypeOK
  /\ step \in Steps
  /\ started \in 0 .. MaxExchanges
  /\ attempt \in 1 .. Retries + 1
  /\ client \in {"live", "broken", "closed"}
  /\ err \in CallOutcomes \cup {"none"}
  /\ result \in Results
  /\ cancelled \in BOOLEAN
  /\ calls \in 0 .. Retries
  /\ before \in 0 .. nextTok

(* Faulty forms of the definitions below: the faults the properties catch. *)
RetryAnyException == err \in {"busy", "exception", "failed"}
ReconnectUnlessLast == err = "dropped" /\ attempt < Retries
RecordAnyEnd(o) == IF o = "dropped" THEN "ok" ELSE "failed"
-----------------------------------------------------------------------------
Init ==
  /\ RecInit
  /\ step = "idle" /\ started = 0 /\ attempt = 1
  /\ client = "live"
  /\ err = "none" /\ result = "none"
  /\ cancelled = FALSE
  /\ calls = 0 /\ before = 0

Cancel ==
  /\ ~cancelled
  /\ cancelled' = TRUE
  /\ UNCHANGED <<recVars, step, started, attempt, client, err, result, calls, before>>

Start ==
  /\ step = "idle" /\ started < MaxExchanges
  /\ started' = started + 1
  /\ step' = "wait"
  /\ attempt' = 1
  /\ calls' = 0 /\ before' = nextTok /\ err' = "none" /\ result' = "none"
  /\ UNCHANGED <<recVars, client, cancelled>>

Goto(next) == step' = next /\ UNCHANGED <<started, attempt, client, err, result, cancelled, calls, before>>

Return(value) ==
  /\ step' = "idle" /\ result' = value
  /\ UNCHANGED <<started, attempt, err, cancelled, calls, before>>

NextAttempt == attempt + 1
TryAgain ==
  /\ step' = "wait" /\ attempt' = NextAttempt
  /\ UNCHANGED <<started, err, result, cancelled, calls, before>>

\* The head of the loop: out of attempts, or the delay, which a cancelled
\* context cuts short.
MoreAttempts == attempt <= Retries

Exhausted ==
  /\ step = "wait" /\ ~MoreAttempts
  /\ Return(err)
  /\ UNCHANGED <<recVars, client>>

Wait ==
  /\ step = "wait" /\ MoreAttempts
  /\ IF Delayed /\ cancelled
     THEN Return("cancelled") /\ UNCHANGED client
     ELSE Goto("dial")
  /\ UNCHANGED recVars

\* reconnect: the old client is closed; the dial succeeds or fails.
Redialed == client' = "live"
DialFailed == client' = "closed" /\ Return("dialFailed")

\* "A previous re-dial may have failed and left the link closed."
Dial ==
  /\ step = "dial"
  /\ \/ client # "closed" /\ Goto("begin")
     \/ /\ client = "closed" /\ Redialed
        /\ step' = "begin"
        /\ UNCHANGED <<started, attempt, err, result, cancelled, calls, before>>
     \/ client = "closed" /\ DialFailed
  /\ UNCHANGED recVars

BeginAttempt ==
  /\ step = "begin"
  /\ Begin(Link)
  /\ step' = "call" /\ calls' = calls + 1
  /\ UNCHANGED <<started, attempt, client, err, result, cancelled, before>>

\* The client hands each PDU it exchanges to the tap.
Exchanges == step = "call" /\ OnPDU(Link, "read") /\ UNCHANGED <<step, linkVars>>

CallReturns ==
  /\ step = "call"
  /\ \E outcome \in CallOutcomes :
       /\ err' = outcome
       /\ client' = IF outcome = "dropped" THEN "broken" ELSE client
  /\ step' = "commit"
  /\ UNCHANGED <<recVars, started, attempt, result, cancelled, calls, before>>

\* What Commit makes of the error of the call.
CommitAs(o) == CASE o = "ok" -> "ok"
                 [] o \in {"busy", "exception"} -> "exception"
                 [] OTHER -> "failed"

CommitAttempt ==
  /\ step = "commit"
  /\ \/ CommitDrops(Link, CommitAs(err)) /\ Goto("decide")
     \/ CommitWrites(Link, CommitAs(err)) /\ Goto("decide")
     \/ CommitFails(Link, CommitAs(err)) /\ Return("writeFailed") /\ UNCHANGED client

\* shouldRetry and shouldReconnect.
ShouldRetry == err = "busy"
ShouldReconnect == err = "dropped"

Finished ==
  /\ step = "decide" /\ ~ShouldRetry /\ ~ShouldReconnect
  /\ Return(err)
  /\ UNCHANGED <<recVars, client>>

\* A busy device: wait 20 ms, unless the next attempt waits anyway.
RetryBusy ==
  /\ step = "decide" /\ ShouldRetry
  /\ IF ~Delayed /\ cancelled THEN Return("cancelled") ELSE TryAgain
  /\ UNCHANGED <<recVars, client>>

Reconnect ==
  /\ step = "decide" /\ ~ShouldRetry /\ ShouldReconnect
  /\ \/ Redialed /\ TryAgain
     \/ DialFailed
  /\ UNCHANGED recVars

Next == \/ Start \/ Cancel
        \/ Exhausted \/ Wait \/ Dial \/ BeginAttempt \/ Exchanges \/ CallReturns
        \/ CommitAttempt \/ Finished \/ RetryBusy \/ Reconnect

Spec == Init /\ [][Next]_vars
-----------------------------------------------------------------------------
\* A connection that was dropped is re-dialed (or the link closed) before
\* exchange returns, also after the last attempt: no call ever goes out on it,
\* and the next read works.
BrokenLinkIsReplaced ==
  /\ client = "broken" => step \in {"commit", "decide"}
  /\ step = "call" => client = "live"

\* "A failed or retried attempt leaves no sample" (README.md 353): an exchange
\* that succeeded has added the PDUs of its last attempt, and one that failed
\* nothing.
AddedAt == {i \in DOMAIN samples : samples[i].tok > before}

OnlySuccessIsRecorded ==
  step = "idle" /\ started > 0 /\ ~Exceptions =>
    IF result = "ok"
    THEN LET exs == heard[nextTok]
         IN \E from \in 0 .. Len(samples) :
              /\ AddedAt = from + 1 .. from + Len(exs)
              /\ \A i \in DOMAIN exs : samples[from + i] = [tok |-> nextTok, pdu |-> exs[i]]
    ELSE result # "writeFailed" => AddedAt = {}

\* A failure that is no busy or gateway exception and no dropped connection
\* is final: the device is not asked again.
FinalFailuresEnd ==
  [][step = "begin" /\ calls > 0 => err \in {"busy", "dropped"}]_vars

\* "Keep err as the read failure: if this was the last attempt it is what the
\* caller must see, not the outcome of the re-dial."
LastReadFailureIsReturned ==
  step = "idle" /\ calls = Retries => result \in {err, "writeFailed", "cancelled"}
=============================================================================
