------------------------------ MODULE Recorder ------------------------------
(***************************************************************************)
(* The capture recorder: every request attempt is bracketed by Begin and   *)
(* Commit; the PDUs the client exchanges in between are kept per attempt   *)
(* and written as samples only when Commit accepts the attempt.  Samples   *)
(* reach the file when a Commit finds the last flush FlushEvery ago, and   *)
(* when the recorder is closed.  A mutex makes every method atomic.        *)
(*                                                                         *)
(* The file format (mbcap) is a library: a writer that appends samples,    *)
(* may fail, and holds a partial block in memory until it is flushed.      *)
(***************************************************************************)
EXTENDS Integers, Sequences

CONSTANTS
  Callers,     (* goroutines that send requests                            *)
  Exceptions,  (* --record-exceptions                                      *)
  FlushEvery,  (* 10 seconds                                               *)
  MaxAttempts, (* bound: attempts in all                                   *)
  MaxPDUs,     (* bound: PDUs of one attempt                               *)
  MaxTime      (* bound: the clock                                         *)

ASSUME RecorderAssumption ==
  /\ Exceptions \in BOOLEAN
  /\ FlushEvery \in Nat \ {0}
  /\ MaxAttempts \in Nat /\ MaxPDUs \in Nat /\ MaxTime \in Nat

VARIABLES
  now,        (* time since Create                                         *)
  nextTok,    (* token of the latest attempt                               *)
  token,      (* each caller's attempt in progress, 0 when it has none     *)
  pending,    (* attempt -> its PDUs not committed yet                     *)
  samples,    (* what has been handed to the writer                        *)
  flushed,    (* how many of them are in the file                          *)
  lastFlush,  (* when Commit last decided to flush                         *)
  closed,
  heard,      (* history: attempt -> every PDU it exchanged                *)
  ending      (* history: attempt -> how its Commit went                   *)

recVars == <<now, nextTok, token, pending, samples, flushed, lastFlush, closed, heard, ending>>

Tokens == 1 .. MaxAttempts
Kinds == {"read", "write", "unknown"}
Outcomes == {"ok", "exception", "failed"}
PDU == [kind : Kinds, at : 0 .. MaxTime]
Sample == [tok : Tokens, pdu : PDU]

RecTypeOK ==
  /\ now \in 0 .. MaxTime
  /\ nextTok \in 0 .. MaxAttempts
  /\ token \in [Callers -> 0 .. nextTok]
  /\ \A c, d \in Callers : token[c] = token[d] /\ token[c] # 0 => c = d
  /\ pending \in [Tokens -> Seq(PDU)]
  /\ samples \in Seq(Sample)
  /\ flushed \in 0 .. Len(samples)
  /\ lastFlush \in 0 .. now
  /\ closed \in BOOLEAN
  /\ heard \in [Tokens -> Seq(PDU)]
  /\ ending \in [Tokens -> [outcome : Outcomes \cup {"none"}, kept : {"all", "some", "late"}]]

(* Faulty forms of the definitions below: the faults the properties catch. *)
KeepAny(outcome) == TRUE
SameToken == 1
FlushDueNever == FALSE
LeavePending(tok) == pending
-----------------------------------------------------------------------------
RecInit ==
  /\ now = 0
  /\ nextTok = 0
  /\ token = [c \in Callers |-> 0]
  /\ pending = [t \in Tokens |-> <<>>]
  /\ samples = <<>>
  /\ flushed = 0
  /\ lastFlush = 0
  /\ closed = FALSE
  /\ heard = [t \in Tokens |-> <<>>]
  /\ ending = [t \in Tokens |-> [outcome |-> "none", kept |-> "all"]]

Tick ==
  /\ now < MaxTime
  /\ now' = now + 1
  /\ UNCHANGED <<nextTok, token, pending, samples, flushed, lastFlush, closed, heard, ending>>

\* Begin: a token for the attempt, carried by its context.
NewToken == nextTok + 1

Begin(c) ==
  /\ token[c] = 0 /\ nextTok < MaxAttempts
  /\ nextTok' = NewToken
  /\ token' = [token EXCEPT ![c] = nextTok']
  /\ UNCHANGED <<now, pending, samples, flushed, lastFlush, closed, heard, ending>>

\* onPDU: the tap files the exchange under the token of its context.
OnPDU(c, kind) ==
  LET tok == token[c]
      pdu == [kind |-> kind, at |-> now]
  IN /\ tok # 0 /\ Len(heard[tok]) < MaxPDUs
     /\ pending' = [pending EXCEPT ![tok] = Append(@, pdu)]
     /\ heard' = [heard EXCEPT ![tok] = Append(@, pdu)]
     /\ UNCHANGED <<now, nextTok, token, samples, flushed, lastFlush, closed, ending>>

Keep(outcome) == outcome = "ok" \/ (Exceptions /\ outcome = "exception")

\* Commit goes through the PDUs in order and skips the writes: the reads among
\* the first n of them.
ReadsAmong(exs) ==
  LET first[n \in 0 .. Len(exs)] ==
        IF n = 0 THEN <<>>
        ELSE IF exs[n].kind = "write" THEN first[n - 1] ELSE Append(first[n - 1], exs[n])
  IN first

\* It stops at the first PDU that is no read of the Modbus standard.
Unknown(exs) == {i \in DOMAIN exs : exs[i].kind = "unknown"}
Recordable(exs) ==
  LET end == IF Unknown(exs) = {} THEN Len(exs)
             ELSE (CHOOSE i \in Unknown(exs) : \A j \in Unknown(exs) : i <= j) - 1
  IN ReadsAmong(exs)[end]

SamplesOf(tok, exs) == [i \in DOMAIN exs |-> [tok |-> tok, pdu |-> exs[i]]]

Forget(tok) == [pending EXCEPT ![tok] = <<>>]
Writable(tok) == ~closed /\ pending[tok] # <<>>

\* The attempt is over, and how Commit went with it.
Ended(c, outcome, kept) ==
  /\ token' = [token EXCEPT ![c] = 0]
  /\ pending' = Forget(token[c])
  /\ ending' = [ending EXCEPT ![token[c]] = [outcome |-> outcome, kept |-> kept]]
  /\ UNCHANGED <<now, nextTok, closed, heard>>

FlushDue == now - lastFlush >= FlushEvery

\* Commit drops an attempt it does not keep, has nothing of, or is too late for.
CommitDrops(c, outcome) ==
  /\ token[c] # 0
  /\ ~Writable(token[c]) \/ ~Keep(outcome)
  /\ Ended(c, outcome, IF closed THEN "late" ELSE "all")
  /\ UNCHANGED <<samples, flushed, lastFlush>>

\* Commit writes an attempt it keeps, and flushes when that is due.
CommitWrites(c, outcome) ==
  LET tok == token[c]
  IN /\ tok # 0 /\ Writable(tok) /\ Keep(outcome)
     /\ Unknown(pending[tok]) = {}
     /\ samples' = samples \o SamplesOf(tok, Recordable(pending[tok]))
     /\ IF FlushDue
        THEN lastFlush' = now /\ flushed' = Len(samples')
        ELSE UNCHANGED <<lastFlush, flushed>>
     /\ Ended(c, outcome, "all")

\* Commit fails: on a PDU it must not record, on a sample the writer refuses
\* (the samples before it stay), or on the flush.
CommitFails(c, outcome) ==
  LET tok == token[c]
      wanted == SamplesOf(tok, Recordable(pending[tok]))
  IN /\ tok # 0 /\ Writable(tok) /\ Keep(outcome)
     /\ \/ /\ Unknown(pending[tok]) # {}
           /\ samples' = samples \o wanted
           /\ UNCHANGED lastFlush
        \/ /\ \E n \in 1 .. Len(wanted) : samples' = samples \o SubSeq(wanted, 1, n - 1)
           /\ UNCHANGED lastFlush
        \/ /\ FlushDue /\ Unknown(pending[tok]) = {}
           /\ samples' = samples \o wanted
           /\ lastFlush' = now
     /\ UNCHANGED flushed
     /\ Ended(c, outcome, "some")

\* Close writes what is left and the end of the capture; it may fail.
Close ==
  /\ ~closed
  /\ closed' = TRUE
  /\ flushed' \in {flushed, Len(samples)}
  /\ UNCHANGED <<now, nextTok, token, pending, samples, lastFlush, heard, ending>>

RecNext ==
  \/ Tick \/ Close
  \/ \E c \in Callers :
       \/ Begin(c)
       \/ \E kind \in Kinds : OnPDU(c, kind)
       \/ \E outcome \in Outcomes :
            CommitDrops(c, outcome) \/ CommitWrites(c, outcome) \/ CommitFails(c, outcome)

RecSpec == RecInit /\ [][RecNext]_recVars
-----------------------------------------------------------------------------
SamplesAt(tok) == {i \in DOMAIN samples : samples[i].tok = tok}
ReadsOf(tok) == ReadsAmong(heard[tok])[Len(heard[tok])]

\* The capture holds the first n reads of an attempt, one after the other.
Holds(tok, n) ==
  \E from \in 0 .. Len(samples) :
    /\ SamplesAt(tok) = from + 1 .. from + n
    /\ \A i \in 1 .. n : samples[from + i].pdu = ReadsOf(tok)[i]

\* Commit was asked to keep the attempt.
Accepted(tok) ==
  ending[tok].outcome = "ok" \/ (Exceptions /\ ending[tok].outcome = "exception")

HoldsWhatIsAccepted(tok) ==
  IF Accepted(tok) /\ ending[tok].kept # "late"
  THEN \E n \in 0 .. Len(ReadsOf(tok)) :
         /\ Holds(tok, n)
         /\ ending[tok].kept = "all" => n = Len(ReadsOf(tok))
  ELSE SamplesAt(tok) = {}

\* "Exchanges are written only for attempts that Commit accepts": the capture
\* holds all the reads of an accepted attempt, once, in order and together,
\* the first of them when Commit failed on it, and nothing of any other attempt.
CaptureHoldsAccepted == \A tok \in Tokens : HoldsWhatIsAccepted(tok)

\* No PDUs of a finished attempt stay behind in memory, however it ended.
NothingLingers ==
  \A tok \in Tokens : pending[tok] # <<>> => \E c \in Callers : token[c] = tok

\* A commit flushes when it is due: what is not in the file arrived within
\* FlushEvery of the last flush.
UnflushedAreRecent ==
  ~closed => \A i \in flushed + 1 .. Len(samples) :
    ending[samples[i].tok].kept = "all" => samples[i].pdu.at < lastFlush + FlushEvery
=============================================================================
