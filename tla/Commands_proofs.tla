-------------------------- MODULE Commands_proofs --------------------------
(***************************************************************************)
(* Proofs about the commands from their start to their exit code, for any  *)
(* plan, units, polls, subnets and workers, and a signal at any time.      *)
(***************************************************************************)
EXTENDS Commands, FiniteSetTheorems, WellFoundedInduction, TLAPS

Capturing == {"read", "record", "scan"}
Changing == {"write", "reset"}
AskingOnce == {"read", "decode", "diagnostic", "reset", "write"}

\* What may end a run: only a signal makes a cancellation of it, a command
\* that streams is never interrupted, and a command that is refused has done
\* nothing yet.
Blamed(err) ==
  /\ err \in Errors
  /\ err.kind = "interrupted" => "canceled" \in err.causes
  /\ "canceled" \in err.causes => cancelled /\ command \notin Streaming
  /\ err.kind \in {"usage", "invalid_input", Untyped} /\ command # "decode" =>
       requests = 0 /\ capture = "none"

\* The stages before a result or an error is there.
Running == {"start", "attach", "check", "collect", "serving"}

TypeInv ==
  /\ stage \in Stages
  /\ link \in {"none", "open", "closed"}
  /\ capture \in {"none", "open", "complete", "torn"}
  /\ requests \in 0 .. 2
  /\ cancelled \in BOOLEAN /\ partial \in BOOLEAN /\ missed \in BOOLEAN
  /\ stage # "done" => stdout = {}
  /\ stage \notin {"fatal", "done"} => failure = NoError

\* The link and the capture are opened and closed in the collecting stage,
\* the capture after the link and only by the commands that record.
LinkInv ==
  /\ stage = "serving" => command = "serve"
  /\ stage \in Running \ {"collect"} \/ command \in {"serve", "export"} => link = "none"
  /\ command \in {"serve", "export"} => stage # "attach"
  /\ stage = "collect" => link # "closed" /\ capture \in {"none", "open"}
  /\ stage \in {"write", "fatal", "done"} => link # "open" /\ capture # "open"
  /\ link = "none" => capture = "none" /\ requests = 0 /\ ~missed
  /\ command \notin Capturing => capture = "none"

\* A change is confirmed before it is collected, and collecting ends with it.
ChangeInv ==
  command \in Changing =>
    /\ requests <= 1
    /\ stage = "collect" => confirmed /\ requests = 0
    /\ requests > 0 => confirmed

FatalInv == stage = "fatal" => Blamed(failure)

\* What a result that is written next says, and the capture that goes with it.
WriteInv ==
  stage = "write" =>
    /\ command # "poll"
    /\ command \in Capturing => capture = "complete"
    /\ partial => missed
    /\ missed => command = "record" \/ (partial /\ command \in ExitsPartial)

\* Where a command is while it collects, and what it knows of what it missed.
RecordInv ==
  stage \in Running /\ command = "record" =>
    /\ recordAt \in {"plan", "connect"} => link = "none"
    /\ recordAt = "capture" => link = "open"
    /\ recordAt \in {"loop", "send", "sleep"} => capture = "open"
    /\ recordAt \in {"plan", "connect", "capture", "loop", "send", "sleep"}

SingleInv ==
  stage \in Running /\ command \in AskingOnce \cup {"scan", "identify", "serve", "export", "discover"} =>
    ~missed

UnitRow == [supported : Nat, error : Kinds \cup {"none"}]

FingerprintInv ==
  stage \in Running /\ command = "fingerprint" =>
    /\ fingerprintAt \in {"connect", "ask", "pause"}
    /\ fingerprintAt = "connect" <=> link = "none"
    /\ rows \in Seq(UnitRow) /\ row \in UnitRow
    /\ row.error = "none"
    /\ missed <=> \E i \in DOMAIN rows : rows[i].error # "none"

SunSpecInv ==
  stage \in Running /\ command \in SunSpecCommandNames =>
    /\ sunspecAt \in {"connect", "functions", "detect", "headers"}
    /\ sunspecAt = "connect" <=> link = "none"
    /\ embedded \in BOOLEAN
    /\ embedded <=> missed
    /\ command # "probe" => ~missed /\ sunspecAt # "functions"

\* The failures on the stream, by their places.
Failures(samples) == {i \in DOMAIN samples : samples[i] # "none"}

\* The counters of poll follow the stream; the sample at hand is counted
\* before it is written.
PollInv ==
  stage \in Running /\ command = "poll" =>
    /\ pollAt \in {"connect", "loop", "read", "emit", "sleep"}
    /\ pollAt = "connect" <=> link = "none"
    /\ wanted \in Nat /\ n \in Nat
    /\ summary \in [polls : Nat, succeeded : Nat, failed : Nat, interrupted : BOOLEAN]
    /\ emitted \in Seq(Kinds \cup {"none"})
    /\ \A i \in DOMAIN emitted : emitted[i] # "interrupted"
    /\ summary.polls = summary.succeeded + summary.failed
    /\ IF pollAt = "emit"
       THEN /\ sample \in (Kinds \ {"interrupted"}) \cup {"none"}
            /\ summary.polls = Len(emitted) + 1
            /\ summary.failed = Cardinality(Failures(emitted)) + (IF sample # "none" THEN 1 ELSE 0)
       ELSE /\ summary.polls = Len(emitted)
            /\ summary.failed = Cardinality(Failures(emitted))
    /\ n = IF pollAt = "sleep" THEN Len(emitted) ELSE Len(emitted) + 1
    /\ missed <=> summary.failed > 0

\* What is true of a run that is over stays true.
DoneInv ==
  Done => ExitCodeTells /\ WriteIsSentOnce /\ CaptureIsFinished /\ PollsAddUp

IInv ==
  /\ TypeInv /\ LinkInv /\ ChangeInv /\ FatalInv /\ WriteInv
  /\ RecordInv /\ SingleInv /\ FingerprintInv /\ SunSpecInv /\ PollInv
  /\ DoneInv
-----------------------------------------------------------------------------
\* The errors of the calls, the dials and the collectors are errors, and what
\* is wrapped around a cause keeps it.
LEMMA PlainErrors ==
  ASSUME NEW c \in Causes
  PROVE  Plain(c) \in Errors /\ Plain(c).kind = Untyped /\ Plain(c).causes = {c}
<1>1. {c} \in SUBSET Causes
  OBVIOUS
<1>2. ASSUME NEW S \in SUBSET Causes, NEW k
      PROVE  /\ [kind |-> k, causes |-> S].kind = k /\ [kind |-> k, causes |-> S].causes = S
             /\ k = Untyped => [kind |-> k, causes |-> S] \in Errors
  BY DEF Errors
<1>3. QED
  BY <1>1, <1>2 DEF Plain

\* The error of a failed dial keeps the causes of what it wraps.
LEMMA DialErrorsAreErrors ==
  ASSUME NEW err \in Errors
  PROVE  /\ TCPConnectionError(err) \in Errors /\ TCPConnectionError(err).kind = err.kind
         /\ TCPConnectionError(err).causes = err.causes \cup {"no connection"}
<1>1. err.causes \cup {"no connection"} \in SUBSET Causes
  BY DEF Errors, Causes
<1>2. QED
  BY <1>1 DEF TCPConnectionError, Errors

\* A typed error keeps the causes of what it wraps.
LEMMA NewErrors ==
  ASSUME NEW err \in Errors, NEW kind \in Kinds
  PROVE  New(kind, err) \in Errors /\ New(kind, err).kind = kind /\ New(kind, err).causes = err.causes
  BY DEF New, Errors

\* An error is not the absence of one; it is typed or not, and has known causes.
LEMMA ErrorsAreErrors ==
  ASSUME NEW err \in Errors
  PROVE  err # NoError /\ err.kind \in Kinds \cup {Untyped} /\ err.causes \subseteq Causes
  BY DEF Errors, NoError, Kinds, Untyped

\* The kind of an error of the library is one the classification lists, and it
\* is an interruption only when the chain wraps a cancellation.
LEMMA ClassifiedKind ==
  ASSUME NEW err \in Errors
  PROVE  /\ classifyUnwrappedCollect(err) \in
              {"transport", "protocol", "timeout", "interrupted", "modbus_exception", Untyped}
         /\ classifyUnwrappedCollect(err) = "interrupted" => "canceled" \in err.causes
<1> DEFINE found == {i \in DOMAIN Classification : Classification[i][1] \in err.causes}
<1>1. DOMAIN Classification = 1 .. 8
  BY DEF Classification
<1>2. \A i \in 1 .. 8 :
        /\ Classification[i][2] \in {"transport", "protocol", "timeout", "interrupted", "modbus_exception"}
        /\ Classification[i][2] = "interrupted" => Classification[i][1] = "canceled"
  <2>1. /\ Classification[1][2] = "transport" /\ Classification[2][2] = "protocol"
        /\ Classification[3][2] = "protocol" /\ Classification[4][2] = "timeout"
        /\ Classification[5][1] = "canceled" /\ Classification[5][2] = "interrupted"
        /\ Classification[6][2] = "modbus_exception" /\ Classification[7][2] = "transport"
        /\ Classification[8][2] = "timeout"
    BY DEF Classification
  <2>2. \A i \in 1 .. 8 : i \in {1, 2, 3, 4, 5, 6, 7, 8}
    OBVIOUS
  <2>3. QED
    BY <2>1, <2>2
<1>3. ASSUME found # {} PROVE Min(found) \in found
  <2>1. found \subseteq 1 .. 8
    BY <1>1
  <2> HIDE DEF found
  <2>2. \E m \in found : \A k \in found : m <= k
    <3>1. PICK some \in found : TRUE
      BY <1>3
    <3>2. CASE 1 \in found BY <3>2, <2>1
    <3>3. CASE 1 \notin found /\ 2 \in found BY <3>3, <2>1
    <3>4. CASE 1 \notin found /\ 2 \notin found /\ 3 \in found BY <3>4, <2>1
    <3>5. CASE found \cap 1 .. 3 = {} /\ 4 \in found BY <3>5, <2>1
    <3>6. CASE found \cap 1 .. 4 = {} /\ 5 \in found BY <3>6, <2>1
    <3>7. CASE found \cap 1 .. 5 = {} /\ 6 \in found BY <3>7, <2>1
    <3>8. CASE found \cap 1 .. 6 = {} /\ 7 \in found BY <3>8, <2>1
    <3>9. CASE found \cap 1 .. 7 = {} BY <3>1, <3>9, <2>1
    <3>10. QED BY <3>2, <3>3, <3>4, <3>5, <3>6, <3>7, <3>8, <3>9
  <2>3. QED
    BY <2>2 DEF Min
<1>4. CASE found = {}
  BY <1>4 DEF classifyUnwrappedCollect, Untyped
<1>5. CASE found # {}
  <2>1. classifyUnwrappedCollect(err) = Classification[Min(found)][2]
    BY <1>5 DEF classifyUnwrappedCollect
  <2>2. Min(found) \in 1 .. 8 /\ Classification[Min(found)][1] \in err.causes
    BY <1>1, <1>3, <1>5
  <2>3. QED
    BY <1>2, <2>1, <2>2
<1>6. QED
  BY <1>4, <1>5

\* What RunE returns for an error of a collector: typed, with the same causes,
\* and blaming the user only if the error did.
LEMMA ReturnedError ==
  ASSUME NEW err \in Errors
  PROVE  LET returned == typeCommandErrors(WrapCollectError(err))
         IN  /\ returned \in Errors /\ returned.kind # Untyped
             /\ returned.causes = err.causes
             /\ returned.kind = "interrupted" => err.kind = "interrupted" \/ "canceled" \in err.causes
             /\ returned.kind \in {"usage", "invalid_input"} => err.kind = returned.kind
<1> DEFINE kind == classifyUnwrappedCollect(err)
           found == IF kind = Untyped THEN "internal" ELSE kind
<1>1. CASE err.kind # Untyped
  BY <1>1 DEF typeCommandErrors, WrapCollectError, IsTyped
<1>2. CASE err.kind = Untyped
  <2>1. /\ kind \in {"transport", "protocol", "timeout", "interrupted", "modbus_exception", Untyped}
        /\ kind = "interrupted" => "canceled" \in err.causes
    BY ClassifiedKind
  <2> HIDE DEF kind
  <2>2. /\ found \in Kinds \ {"usage", "invalid_input"} /\ found # Untyped
        /\ found = "interrupted" => "canceled" \in err.causes
    BY <2>1 DEF Kinds, Untyped
  <2>3. WrapCollectError(err) = New(found, err)
    BY <1>2 DEF WrapCollectError, IsTyped, kind
  <2> HIDE DEF found
  <2>4. /\ New(found, err) \in Errors /\ New(found, err).kind = found
        /\ New(found, err).causes = err.causes
    BY <2>2, NewErrors
  <2>5. typeCommandErrors(New(found, err)) = New(found, err)
    BY <2>2, <2>4 DEF typeCommandErrors, IsTyped
  <2>6. QED
    BY <2>2, <2>3, <2>4, <2>5
<1>3. QED
  BY <1>1, <1>2

\* The kind a failure has inside a result: an interruption is a cancellation.
LEMMA EmbeddedKind ==
  ASSUME NEW err \in Errors, err.kind \in {Untyped, "invalid_input"}
  PROVE  /\ EmbeddedErrorKind(err) \in Kinds
         /\ EmbeddedErrorKind(err) = "interrupted" => "canceled" \in err.causes
<1> DEFINE kind == classifyUnwrappedCollect(err)
           found == IF kind = Untyped THEN "internal" ELSE kind
<1>1. /\ kind \in {"transport", "protocol", "timeout", "interrupted", "modbus_exception", Untyped}
      /\ kind = "interrupted" => "canceled" \in err.causes
  BY ClassifiedKind
<1> HIDE DEF kind
<1>2. found \in Kinds /\ (found = "interrupted" => "canceled" \in err.causes)
  BY <1>1 DEF Kinds, Untyped
<1>3. CASE err.kind = Untyped
  <2>1. WrapCollectError(err) = New(found, err)
    BY <1>3 DEF WrapCollectError, IsTyped, kind
  <2> HIDE DEF found
  <2>2. QED
    BY <1>2, <2>1, NewErrors DEF EmbeddedErrorKind
<1>4. CASE err.kind = "invalid_input"
  <2>1. err.kind # Untyped /\ err.kind \in Kinds
    BY <1>4 DEF Untyped, Kinds
  <2>2. QED
    BY <1>4, <2>1 DEF EmbeddedErrorKind, WrapCollectError, IsTyped
<1>5. QED
  BY <1>3, <1>4

\* The errors the device and the dial make, and the others a command meets.
LEMMA DeviceErrors ==
  /\ \A err \in CallErrors :
       err \in Errors /\ err.kind = Untyped /\ ("canceled" \in err.causes => cancelled)
  /\ \A err \in DialErrors :
       err \in Errors /\ err.kind = Untyped /\ "canceled" \notin err.causes
<1>1. \A c \in {"exception", "timed out", "closed", "other", "canceled", "network timeout"} : c \in Causes
  BY DEF Causes
<1>2. ASSUME NEW err \in CallErrors
      PROVE  err \in Errors /\ err.kind = Untyped /\ ("canceled" \in err.causes => cancelled)
  <2>1. PICK c \in {"exception", "timed out", "closed", "other", "canceled"} :
          err = Plain(c) /\ (c = "canceled" => cancelled)
    BY DEF CallErrors
  <2>2. QED
    BY <1>1, <2>1, PlainErrors
<1>3. ASSUME NEW err \in DialErrors
      PROVE  err \in Errors /\ err.kind = Untyped /\ "canceled" \notin err.causes
  <2>1. PICK c \in {"network timeout", "other"} : err = TCPConnectionError(Plain(c))
    BY DEF DialErrors
  <2>2. c \in Causes /\ c # "canceled"
    BY <1>1
  <2>3. Plain(c) \in Errors /\ Plain(c).kind = Untyped /\ Plain(c).causes = {c}
    BY <2>2, PlainErrors
  <2>4. err \in Errors /\ err.kind = Untyped /\ err.causes = {c} \cup {"no connection"}
    BY <2>1, <2>3, DialErrorsAreErrors
  <2>5. QED
    BY <2>2, <2>4
<1>4. QED
  BY <1>2, <1>3

\* The errors that commands make up themselves, plain and typed.
LEMMA OtherErrors ==
  /\ Plain("other") \in Errors /\ Plain("other").kind = Untyped /\ Plain("other").causes = {"other"}
  /\ Plain("canceled") \in Errors /\ Plain("canceled").kind = Untyped
  /\ Plain("canceled").causes = {"canceled"}
  /\ \A kind \in Kinds :
       /\ New(kind, Plain("other")) \in Errors /\ New(kind, Plain("other")).kind = kind
       /\ "canceled" \notin New(kind, Plain("other")).causes
  /\ Output(Plain("other")) = New("output", Plain("other"))
  /\ InvalidInput(Plain("other")) = New("invalid_input", Plain("other"))
<1>1. "other" \in Causes /\ "canceled" \in Causes
  BY DEF Causes
<1>2. QED
  BY <1>1, PlainErrors, NewErrors DEF Output, InvalidInput

\* A request counts, up to two, and is missed when it failed.
LEMMA SentFacts ==
  ASSUME requests \in 0 .. 2, missed \in BOOLEAN, NEW err, Sent(err)
  PROVE  /\ requests' \in 1 .. 2 /\ (requests = 0 => requests' = 1)
         /\ missed' = (missed \/ err # NoError)
<1>1. ASSUME NEW k \in 0 .. 2 PROVE Min({k + 1, 2}) = IF k = 0 THEN 1 ELSE 2
  <2>1. \E x \in {k + 1, 2} : \A y \in {k + 1, 2} : x <= y
    OBVIOUS
  <2>2. QED
    BY <2>1 DEF Min
<1>2. QED
  BY <1>1 DEF Sent
-----------------------------------------------------------------------------
\* What is left of the invariant once a command has collected, or while it goes
\* on: the part that is not about one command.
Common == TypeInv /\ LinkInv /\ ChangeInv /\ FatalInv /\ WriteInv /\ DoneInv

\* Once a command no longer runs, the parts of the invariant about the
\* command in progress say nothing.
LEMMA EndedIsCommon ==
  ASSUME Common', stage' \notin Running
  PROVE  IInv'
BY DEF Common, IInv, RecordInv, SingleInv, FingerprintInv, SunSpecInv, PollInv

\* A command that fails with an error it may be blamed for.
LEMMA FailKeeps ==
  ASSUME Common, stage \in Running, NEW err, Fail(err), Blamed(err)',
         UNCHANGED <<flags, cancelled>>,
         link' \in {"none", "closed"}, capture' \in {"none", "complete", "torn"},
         requests' \in 0 .. 2, missed' \in BOOLEAN,
         link' = "none" => capture' = "none" /\ requests' = 0 /\ ~missed',
         command \notin Capturing => capture' = "none",
         command \in {"serve", "export"} => link' = "none",
         command \in Changing => requests' <= 1 /\ (requests' > 0 => confirmed)
  PROVE  IInv'
<1>1. stage' = "fatal" /\ failure' = err
      /\ UNCHANGED <<command, format, confirmed, cancelled, partial, stdout, exitCode>>
  BY DEF Fail, flags
<1>2. TypeInv'
  BY <1>1 DEF Common, TypeInv, Running, Stages
<1>3. LinkInv'
  BY <1>1 DEF LinkInv, Running
<1>4. ChangeInv'
  BY <1>1 DEF ChangeInv
<1>5. FatalInv' /\ WriteInv' /\ DoneInv'
  BY <1>1 DEF FatalInv, WriteInv, DoneInv, Done
<1>6. QED
  BY <1>1, <1>2, <1>3, <1>4, <1>5, EndedIsCommon DEF Common, Running

\* The end of collecting, whatever the command: an error, its own or that of
\* the capture, or a result that says what was missed.
LEMMA CollectedKeeps ==
  ASSUME Common, stage = "collect", NEW err, NEW reported \in BOOLEAN, Collected(err, reported),
         command \notin {"serve", "export"},
         requests' \in 0 .. 2, missed' \in BOOLEAN,
         link = "none" => requests' = 0 /\ ~missed',
         command \in Changing => requests' <= 1,
         err = NoError =>
           /\ command # "poll"
           /\ command \in Capturing => capture = "open"
           /\ reported => missed'
           /\ missed' => command = "record" \/ (reported /\ command \in ExitsPartial),
         err # NoError =>
           /\ err \in Errors
           /\ err.kind = "interrupted" => "canceled" \in err.causes
           /\ "canceled" \in err.causes => cancelled /\ command \notin Streaming
           /\ err.kind \in {"usage", "invalid_input"} /\ command # "decode" => link = "none"
  PROVE  IInv'
<1>1. PICK closed \in {"none", "complete", "torn"} :
        /\ Closing(err, closed)
        /\ LET final == IF capture = "open" THEN finishCapture(err, closed) ELSE err
           IN  IF final = NoError
               THEN stage' = "write" /\ partial' = reported
               /\ UNCHANGED <<failure, stdout, exitCode>>
               ELSE Fail(typeCommandErrors(WrapCollectError(final)))
        /\ UNCHANGED <<flags, cancelled>>
  BY DEF Collected
<1> DEFINE final == IF capture = "open" THEN finishCapture(err, closed) ELSE err
<1>2. /\ capture' = closed /\ link' = IF link = "open" THEN "closed" ELSE link
      /\ IF capture = "open" THEN closed \in {"complete", "torn"} ELSE closed = capture
      /\ UNCHANGED <<command, format, confirmed, cancelled>>
  BY <1>1 DEF Closing, flags
<1>3. /\ link \in {"none", "open"} /\ capture \in {"none", "open"}
      /\ link' \in {"none", "closed"} /\ (link' = "none" <=> link = "none")
      /\ link' = "none" => capture' = "none" /\ requests' = 0 /\ ~missed'
      /\ command \notin Capturing => capture' = "none"
      /\ command \in Changing => confirmed
  BY <1>2 DEF Common, TypeInv, LinkInv, ChangeInv
<1>4. CASE final = NoError
  <2>1. stage' = "write" /\ partial' = reported /\ UNCHANGED <<failure, stdout, exitCode>>
    BY <1>1, <1>4
  <2>2. err = NoError /\ closed # "torn"
    <3>1. Output(Plain("other")) # NoError
      BY OtherErrors, ErrorsAreErrors DEF Kinds
    <3>2. CASE capture = "open"
      BY <1>2, <1>4, <3>1, <3>2 DEF finishCapture
    <3>3. CASE capture # "open"
      BY <1>2, <1>3, <1>4, <3>3
    <3>4. QED
      BY <3>2, <3>3
  <2>3. command \in Capturing => capture' = "complete"
    BY <1>2, <2>2
  <2>4. TypeInv' /\ LinkInv' /\ ChangeInv'
    <3>1. TypeInv'
      BY <1>2, <1>3, <2>1 DEF Common, TypeInv, Stages
    <3>2. LinkInv'
      BY <1>2, <1>3, <2>1 DEF LinkInv, Running
    <3>3. ChangeInv'
      BY <1>2, <1>3, <2>1 DEF ChangeInv
    <3>4. QED
      BY <3>1, <3>2, <3>3
  <2>5. WriteInv' /\ FatalInv' /\ DoneInv'
    BY <1>2, <2>1, <2>2, <2>3 DEF WriteInv, FatalInv, DoneInv, Done
  <2>6. QED
    BY <2>1, <2>4, <2>5, EndedIsCommon DEF Common, Running
<1>5. CASE final # NoError
  <2>1. Fail(typeCommandErrors(WrapCollectError(final)))
    BY <1>1, <1>5
  <2>2. /\ final \in Errors
        /\ final.kind = "interrupted" => "canceled" \in final.causes
        /\ "canceled" \in final.causes => cancelled /\ command \notin Streaming
        /\ final.kind \in {"usage", "invalid_input"} /\ command # "decode" => link = "none"
    <3>1. CASE final = err
      BY <1>5, <3>1
    <3>2. CASE final # err
      <4>1. final = Output(Plain("other"))
        BY <3>2 DEF finishCapture
      <4>2. "output" \in Kinds
        BY DEF Kinds
      <4>3. final \in Errors /\ final.kind = "output" /\ "canceled" \notin final.causes
        BY <4>1, <4>2, OtherErrors
      <4>4. QED
        BY <4>3
    <3>3. QED
      BY <3>1, <3>2
  <2> DEFINE returned == typeCommandErrors(WrapCollectError(final))
  <2>3. /\ returned \in Errors /\ returned.kind # Untyped /\ returned.causes = final.causes
        /\ returned.kind = "interrupted" => final.kind = "interrupted" \/ "canceled" \in final.causes
        /\ returned.kind \in {"usage", "invalid_input"} => final.kind = returned.kind
    BY <2>2, ReturnedError
  <2>4. PICK r : r = returned
    OBVIOUS
  <2> HIDE DEF final, returned
  <2>5. Blamed(r)'
    BY <1>2, <1>3, <2>2, <2>3, <2>4 DEF Blamed
  <2>6. QED
    <3>1. Fail(r)
      BY <2>1, <2>4 DEF returned
    <3>2. stage \in Running /\ UNCHANGED <<flags, cancelled>>
      BY <1>1 DEF Running
    <3>3. capture' \in {"none", "complete", "torn"}
      BY <1>2
    <3>4. command \in Changing => requests' <= 1 /\ confirmed
      BY <1>3
    <3>5. QED
      BY <1>3, <2>5, <3>1, <3>2, <3>3, <3>4, FailKeeps
<1>6. QED
  BY <1>4, <1>5

\* A command that goes on collecting, with its link and capture as they may be,
\* keeps what is common to all commands.
LEMMA GoesOnKeeps ==
  ASSUME Common, stage = "collect", UNCHANGED <<flags, stage, cancelled, outcome>>,
         link' \in {"none", "open"}, capture' \in {"none", "open"},
         requests' \in 0 .. 2, missed' \in BOOLEAN,
         link' = "none" => capture' = "none" /\ requests' = 0 /\ ~missed',
         command \notin Capturing => capture' = "none",
         command \notin {"serve", "export"},
         command \in Changing => requests' = 0
  PROVE  Common'
<1>1. UNCHANGED <<command, format, confirmed, stage, cancelled, failure, partial, stdout, exitCode>>
  BY DEF flags, outcome
<1>2. TypeInv'
  BY <1>1 DEF Common, TypeInv
<1>3. LinkInv'
  BY <1>1 DEF LinkInv, Running
<1>4. ChangeInv'
  BY <1>1 DEF Common, ChangeInv
<1>5. FatalInv' /\ WriteInv' /\ DoneInv'
  BY <1>1 DEF FatalInv, WriteInv, DoneInv, Done
<1>6. QED
  BY <1>2, <1>3, <1>4, <1>5 DEF Common

\* Connecting opens the link or ends the command.
LEMMA ConnectKeeps ==
  ASSUME Common, stage = "collect", Connect, command \notin {"serve", "export"}
  PROVE  \/ IInv' /\ stage' \notin Running
         \/ /\ link' = "open" /\ Common'
            /\ UNCHANGED <<flags, stage, cancelled, outcome, capture, requests, missed>>
<1>1. CASE link' = "open"
           /\ UNCHANGED <<flags, stage, cancelled, outcome, capture, requests, missed>>
  <2>1. UNCHANGED <<stage, capture, requests, missed>>
        /\ UNCHANGED <<flags, stage, cancelled, outcome>>
    BY <1>1
  <2>2. /\ capture' \in {"none", "open"} /\ requests' \in 0 .. 2 /\ missed' \in BOOLEAN
        /\ command \notin Capturing => capture' = "none"
        /\ command \in Changing => requests' = 0
    BY <2>1 DEF Common, TypeInv, LinkInv, ChangeInv
  <2>3. QED
    BY <1>1, <2>1, <2>2, GoesOnKeeps
<1>2. ASSUME NEW err \in DialErrors \cup {InvalidInput(Plain("other"))},
             Collected(err, FALSE), UNCHANGED <<requests, missed>>
      PROVE  IInv' /\ stage' \notin Running
  <2>1. link = "none"
    BY DEF Connect
  <2>2. /\ requests' = 0 /\ missed' = FALSE
    BY <1>2, <2>1 DEF Common, TypeInv, LinkInv
  <2>3. "invalid_input" \in Kinds
    BY DEF Kinds
  <2>4. /\ err \in Errors /\ err # NoError /\ err.kind \in {Untyped, "invalid_input"}
        /\ "canceled" \notin err.causes
    BY <2>3, DeviceErrors, OtherErrors, ErrorsAreErrors
  <2>5. IInv'
    <3>1. requests' \in 0 .. 2 /\ requests' <= 1
      BY <2>2
    <3>2. missed' \in BOOLEAN /\ ~missed' /\ FALSE \in BOOLEAN
      BY <2>2, Zenon
    <3>3. err.kind # "interrupted"
      BY <2>4 DEF Untyped
    <3>4. QED
      BY <1>2, <2>1, <2>2, <2>4, <3>1, <3>2, <3>3, CollectedKeeps
  <2>6. stage' \notin Running
    BY <1>2 DEF Collected, Fail, Running
  <2>7. QED
    BY <2>5, <2>6
<1>3. QED
  BY <1>1, <1>2 DEF Connect

\* Starting a capture opens it or ends the command.
LEMMA StartCaptureKeeps ==
  ASSUME Common, stage = "collect", StartCapture, command \in Capturing
  PROVE  \/ IInv' /\ stage' \notin Running
         \/ /\ link = "open" /\ capture' = "open" /\ Common'
            /\ UNCHANGED <<flags, stage, cancelled, outcome, link, requests, missed>>
<1>1. link = "open" /\ command \notin {"serve", "export"} /\ command \notin Changing
  BY DEF StartCapture, Capturing, Changing
<1>2. requests \in 0 .. 2 /\ missed \in BOOLEAN
  BY DEF Common, TypeInv
<1>3. CASE capture' = "open"
           /\ UNCHANGED <<flags, stage, cancelled, outcome, link, requests, missed>>
  <2>1. UNCHANGED <<link, requests, missed>> /\ UNCHANGED <<flags, stage, cancelled, outcome>>
    BY <1>3
  <2>2. QED
    BY <1>1, <1>2, <1>3, <2>1, GoesOnKeeps
<1>4. ASSUME NEW left \in {"none", "complete", "torn"}, Fail(Output(Plain("other"))),
             capture' = left, link' = "closed", UNCHANGED <<flags, cancelled, requests, missed>>
      PROVE  IInv' /\ stage' \notin Running
  <2>1. "output" \in Kinds
    BY DEF Kinds
  <2> DEFINE err == Output(Plain("other"))
  <2>2. err \in Errors /\ err.kind = "output" /\ "canceled" \notin err.causes
    BY <2>1, OtherErrors
  <2> HIDE DEF err
  <2>3. PICK e : e = err
    OBVIOUS
  <2>4. Blamed(e)'
    BY <2>2, <2>3 DEF Blamed, Untyped
  <2>5. Fail(e)
    BY <1>4, <2>3 DEF err
  <2>6. UNCHANGED <<flags, cancelled>> /\ UNCHANGED <<requests, missed>> /\ stage \in Running
    BY <1>4 DEF Running
  <2>7. IInv'
    BY <1>1, <1>2, <1>4, <2>4, <2>5, <2>6, FailKeeps
  <2>8. QED
    BY <2>5, <2>7 DEF Fail, Running
<1>5. QED
  BY <1>3, <1>4 DEF StartCapture
-----------------------------------------------------------------------------
(* The stages every command goes through.                                  *)

\* The stage that follows is a later one, and a command that changes the
\* device only collects after its check.
LEMMA FollowingStage ==
  ASSUME stage \in {"start", "attach", "check"},
         command \in {"serve", "export"} => stage # "attach"
  PROVE  /\ Following(stage) \in {"attach", "check", "collect"}
         /\ command \in {"serve", "export"} => Following(stage) # "attach"
         /\ Following(stage) = "collect" /\ command \in Changing => stage = "check"
<1> DEFINE index == CHOOSE i \in DOMAIN Preliminaries : Preliminaries[i] = stage
<1>1. CASE command \in {"serve", "export"}
  <2>1. Preliminaries = <<"check", "collect">>
    BY <1>1 DEF Preliminaries
  <2>2. stage = "check" => index = 1
    BY <2>1
  <2>3. QED
    BY <1>1, <2>1, <2>2 DEF Following, Changing
<1>2. CASE command = "discover"
  <2>1. Preliminaries = <<"check", "attach", "collect">>
    BY <1>2 DEF Preliminaries
  <2>2. (stage = "check" => index = 1) /\ (stage = "attach" => index = 2)
    BY <2>1
  <2>3. QED
    BY <1>2, <2>1, <2>2 DEF Following, Changing
<1>3. CASE command \notin {"serve", "export", "discover"}
  <2>1. Preliminaries = <<"attach", "check", "collect">>
    BY <1>3 DEF Preliminaries
  <2>2. (stage = "attach" => index = 1) /\ (stage = "check" => index = 2)
    BY <2>1
  <2>3. QED
    BY <1>3, <2>1, <2>2 DEF Following, Changing
<1>4. QED
  BY <1>1, <1>2, <1>3

\* Moving on to the next stage keeps the invariant.
LEMMA ProceedKeeps ==
  ASSUME IInv, stage \in {"start", "attach", "check"}, Proceed, UNCHANGED ownVars,
         stage = "check" => ~Unconfirmed
  PROVE  IInv'
<1>1. UNCHANGED <<command, format, confirmed, cancelled, failure, partial, stdout, exitCode,
                  link, capture, requests, missed>>
  BY DEF Proceed, flags, outcome, device
<1>2. /\ stage' \in {"attach", "check", "collect"}
      /\ command \in {"serve", "export"} => stage' # "attach"
      /\ stage' = "collect" /\ command \in Changing => stage = "check"
  BY FollowingStage DEF IInv, LinkInv, Proceed
<1>3. link = "none" /\ capture = "none" /\ requests = 0
  BY DEF IInv, LinkInv, Running
<1>4. TypeInv'
  BY <1>1, <1>2 DEF IInv, TypeInv, Stages
<1>5. LinkInv'
  BY <1>1, <1>2, <1>3 DEF IInv, LinkInv, Running
<1>6. ChangeInv'
  BY <1>1, <1>2, <1>3 DEF ChangeInv, Unconfirmed, Changing
<1>7. FatalInv' /\ WriteInv' /\ DoneInv'
  BY <1>2 DEF FatalInv, WriteInv, DoneInv, Done
<1>8. RecordInv' /\ SingleInv'
  BY <1>1, <1>2 DEF IInv, RecordInv, SingleInv, ownVars, recordVars, Running
<1>9. FingerprintInv'
  BY <1>1, <1>2 DEF IInv, FingerprintInv, ownVars, fingerprintVars, Running
<1>10. SunSpecInv'
  BY <1>1, <1>2 DEF IInv, SunSpecInv, ownVars, sunspecCommandVars, Running
<1>11. PollInv'
  BY <1>1, <1>2 DEF IInv, PollInv, ownVars, pollVars, Running, Failures
<1>12. QED
  BY <1>4, <1>5, <1>6, <1>7, <1>8, <1>9, <1>10, <1>11 DEF IInv

\* A command that is refused before it collects.
LEMMA RefusedKeeps ==
  ASSUME IInv, stage \in {"start", "attach", "check"}, NEW err \in Errors,
         err.kind # "interrupted", "canceled" \notin err.causes,
         Fail(err), UNCHANGED <<flags, cancelled, device>>
  PROVE  IInv'
<1>1. UNCHANGED <<flags, cancelled>> /\ UNCHANGED <<link, capture, requests, missed>>
  BY DEF device
<1>2. Common /\ stage \in Running /\ link = "none" /\ capture = "none" /\ requests = 0 /\ ~missed
  BY DEF IInv, Common, LinkInv, Running
<1>3. Blamed(err)'
  BY <1>1, <1>2 DEF Blamed
<1>4. missed' \in BOOLEAN
  BY <1>1, <1>2 DEF Common, TypeInv
<1>5. QED
  BY <1>1, <1>2, <1>3, <1>4, FailKeeps

\* Giving an untyped error its kind never makes an interruption of it.
LEMMA TypedErrors ==
  ASSUME NEW err \in Errors, err.kind # "interrupted", "canceled" \notin err.causes
  PROVE  /\ typeCommandErrors(err) \in Errors /\ typeCommandErrors(err).kind # "interrupted"
         /\ "canceled" \notin typeCommandErrors(err).causes
<1>1. "internal" \in Kinds
  BY DEF Kinds
<1>2. New("internal", err) \in Errors /\ New("internal", err).kind = "internal"
      /\ New("internal", err).causes = err.causes
  BY <1>1, NewErrors
<1>3. QED
  BY <1>2 DEF typeCommandErrors

\* A fatal error never exits as a success, and its exit code tells its kind.
LEMMA FatalExitCodes ==
  ASSUME NEW kind \in Kinds
  PROVE  /\ ExitCodeForKind(kind) \in {2, 3, 4, 5, 6, 10, 130}
         /\ ExitCodeForKind(kind) = 130 => kind = "interrupted"
         /\ ExitCodeForKind(kind) \in {2, 3} => kind \in {"usage", "invalid_input"}
<1>1. kind \in {"usage", "invalid_input", "transport", "timeout", "protocol", "modbus_exception",
          "output", "internal", "interrupted"}
  BY DEF Kinds
<1>2. QED
  BY <1>1 DEF ExitCodeForKind, ExitInterrupted

\* Writing the result, and what the runner makes of it, keeps the invariant.
LEMMA WriteResultKeeps ==
  ASSUME IInv, WriteResult, UNCHANGED ownVars
  PROVE  IInv'
<1>1. Common /\ stage = "write"
  BY DEF IInv, Common, WriteResult
<1>2. /\ failure = NoError /\ stdout = {} /\ link # "open" /\ capture # "open"
      /\ command # "poll" /\ (command \in Capturing => capture = "complete")
      /\ partial => missed
      /\ missed => command = "record" \/ (partial /\ command \in ExitsPartial)
      /\ link = "none" => capture = "none" /\ requests = 0 /\ ~missed
      /\ link \in {"none", "open", "closed"}
      /\ command \notin {"serve", "export"} \/ link = "none"
  BY <1>1 DEF Common, TypeInv, LinkInv, WriteInv
<1>3. ASSUME stage' = "done", stdout' = stdout \cup {"result"},
             exitCode' = IF command \in ExitsPartial THEN SuccessExitForPayload(partial) ELSE ExitOK,
             UNCHANGED <<flags, cancelled, failure, partial, device>>
      PROVE  IInv'
  <2>1. /\ UNCHANGED <<command, format, confirmed, cancelled, failure, partial, link, capture, requests, missed>>
        /\ stdout' = {"result"}
    BY <1>2, <1>3 DEF flags, device
  <2>2. exitCode' = IF command \in ExitsPartial /\ partial THEN ExitPartial ELSE ExitOK
    BY <1>3 DEF SuccessExitForPayload
  <2>3. TypeInv' /\ LinkInv' /\ ChangeInv'
    <3>1. TypeInv'
      BY <1>1, <1>2, <1>3, <2>1 DEF Common, TypeInv, Stages
    <3>2. LinkInv'
      BY <1>1, <1>2, <1>3, <2>1 DEF Common, LinkInv, Running
    <3>3. ChangeInv'
      BY <1>1, <1>3, <2>1 DEF Common, ChangeInv
    <3>4. QED
      BY <3>1, <3>2, <3>3
  <2>4. ExitCodeTells'
    BY <1>2, <1>3, <2>1, <2>2 DEF ExitCodeTells, Succeeded, Done, ExitOK, ExitPartial,
      ExitInterrupted
  <2>5. WriteIsSentOnce'
    BY <1>3, <2>1, <2>2, <2>3 DEF WriteIsSentOnce, ChangeInv, Changing, Done, ExitOK, ExitPartial
  <2>6. CaptureIsFinished' /\ PollsAddUp'
    BY <1>2, <2>1 DEF CaptureIsFinished, PollsAddUp, Capturing
  <2>7. QED
    BY <1>3, <2>3, <2>4, <2>5, <2>6, EndedIsCommon DEF Common, DoneInv, FatalInv, WriteInv, Running
<1>4. ASSUME Refuse(Output(Plain("other")))
      PROVE  IInv'
  <2>1. "output" \in Kinds
    BY DEF Kinds
  <2>2. PICK e : e = Output(Plain("other"))
    OBVIOUS
  <2>3. e \in Errors /\ e.kind = "output" /\ "canceled" \notin e.causes
    BY <2>1, <2>2, OtherErrors
  <2>4. typeCommandErrors(e) = e
    BY <2>3 DEF typeCommandErrors, IsTyped, Untyped
  <2>5. Fail(e) /\ UNCHANGED <<flags, cancelled, device>>
    BY <1>4, <2>2, <2>4 DEF Refuse
  <2>6. /\ stage' = "fatal" /\ failure' = e
        /\ UNCHANGED <<command, format, confirmed, cancelled, partial, stdout, exitCode, link, capture, requests, missed>>
    BY <2>5 DEF Fail, flags, device
  <2>7. TypeInv' /\ LinkInv' /\ ChangeInv'
    <3>1. TypeInv'
      BY <1>1, <2>6 DEF Common, TypeInv, Stages
    <3>2. LinkInv'
      BY <1>1, <1>2, <2>6 DEF Common, LinkInv, Running
    <3>3. ChangeInv'
      BY <1>1, <2>6 DEF Common, ChangeInv
    <3>4. QED
      BY <3>1, <3>2, <3>3
  <2>8. FatalInv' /\ WriteInv' /\ DoneInv'
    BY <2>3, <2>6 DEF FatalInv, Blamed, WriteInv, DoneInv, Done, Untyped
  <2>9. QED
    BY <2>6, <2>7, <2>8, EndedIsCommon DEF Common, Running
<1>5. QED
  BY <1>3, <1>4 DEF WriteResult

\* Reporting a fatal error and choosing its exit code keeps the invariant.
LEMMA RenderFatalKeeps ==
  ASSUME IInv, RenderFatal, UNCHANGED ownVars
  PROVE  IInv'
<1> DEFINE fatal == classifyFatal(failure)
           code == fatalExitCode(fatal)
<1>1. Common /\ stage = "fatal" /\ stage' = "done"
  BY DEF IInv, Common, RenderFatal
<1>2. /\ stdout = {} /\ link # "open" /\ capture # "open" /\ failure \in Errors /\ failure # NoError
      /\ failure.kind = "interrupted" => "canceled" \in failure.causes
      /\ "canceled" \in failure.causes => cancelled /\ command \notin Streaming
      /\ failure.kind \in {"usage", "invalid_input", Untyped} /\ command # "decode" =>
           requests = 0 /\ capture = "none"
  BY <1>1, ErrorsAreErrors DEF Common, TypeInv, LinkInv, FatalInv, Blamed
<1>3. /\ UNCHANGED <<command, format, confirmed, cancelled, failure, partial, link, capture, requests, missed>>
      /\ \/ exitCode' = code /\ stdout' = IF format = "json" THEN {"envelope"} ELSE {}
         \/ format = "json" /\ exitCode' = ExitCodeForKind("internal") /\ stdout' = {}
  <2>1. stdout \cup {"envelope"} = {"envelope"}
    BY <1>2
  <2>2. QED
    BY <1>2, <2>1 DEF RenderFatal, flags, device
<1>4. /\ fatal.kind \in Kinds /\ fatal \in Errors
      /\ fatal.kind = "interrupted" => "canceled" \in failure.causes
      /\ fatal.kind \in {"usage", "invalid_input"} => failure.kind \in {"usage", "invalid_input", Untyped}
  <2>1. /\ "interrupted" \in Kinds /\ "usage" \in Kinds
        /\ failure.kind \in Kinds \cup {Untyped}
    BY <1>2, ErrorsAreErrors DEF Kinds
  <2>2. CASE "canceled" \in failure.causes
    BY <1>2, <2>1, <2>2, NewErrors DEF classifyFatal
  <2>3. CASE "canceled" \notin failure.causes /\ failure.kind # Untyped
    BY <1>2, <2>1, <2>3 DEF classifyFatal, IsTyped
  <2>4. CASE "canceled" \notin failure.causes /\ failure.kind = Untyped
    BY <1>2, <2>1, <2>4, NewErrors DEF classifyFatal, IsTyped
  <2>5. QED
    BY <2>2, <2>3, <2>4
<1> HIDE DEF fatal
<1>5. /\ code \in {2, 3, 4, 5, 6, 10, 130}
      /\ code = 130 => cancelled /\ command \notin Streaming
      /\ code \in {2, 3} /\ command # "decode" => requests = 0 /\ capture = "none"
  <2>1. fatal.kind # Untyped
    BY <1>4 DEF Kinds, Untyped
  <2>2. code = ExitCodeForKind(fatal.kind)
    BY <2>1 DEF fatalExitCode, IsTyped
  <2>3. QED
    BY <1>2, <1>4, <2>2, FatalExitCodes
<1>6. ExitCodeForKind("internal") = 10
  BY DEF ExitCodeForKind
<1> HIDE DEF code
<1>7. TypeInv' /\ LinkInv' /\ ChangeInv'
  <2>1. TypeInv'
    BY <1>1, <1>3 DEF Common, TypeInv, Stages
  <2>2. LinkInv'
    BY <1>1, <1>2, <1>3 DEF Common, LinkInv, Running
  <2>3. ChangeInv'
    BY <1>1, <1>3 DEF Common, ChangeInv
  <2>4. QED
    BY <2>1, <2>2, <2>3
<1>8. ExitCodeTells'
  BY <1>1, <1>2, <1>3, <1>5, <1>6
  DEF ExitCodeTells, Succeeded, Done, ExitOK, ExitPartial, ExitInterrupted
<1>9. WriteIsSentOnce'
  BY <1>3, <1>5, <1>6, <1>7 DEF WriteIsSentOnce, ChangeInv, Changing, Done
<1>10. CaptureIsFinished' /\ PollsAddUp'
  <2>1. capture # "none" => link # "none"
    BY <1>1 DEF Common, LinkInv
  <2>2. QED
    BY <1>2, <1>3, <1>5, <1>6, <2>1
    DEF CaptureIsFinished, PollsAddUp, Succeeded, ExitOK, ExitPartial
<1>11. QED
  BY <1>1, <1>7, <1>8, <1>9, <1>10, EndedIsCommon DEF Common, DoneInv, FatalInv, WriteInv, Running

\* Every step of the runner itself keeps the invariant.
LEMMA PipelineKeeps ==
  ASSUME IInv, Pipeline, UNCHANGED ownVars
  PROVE  IInv'
<1>1. ASSUME NEW err \in {InvalidInput(Plain("other")), Plain("other"), Typed("usage"), WrapValidation(Plain("other"))}
      PROVE  err \in Errors /\ err.kind # "interrupted" /\ "canceled" \notin err.causes
  <2>1. "usage" \in Kinds /\ "invalid_input" \in Kinds
    BY DEF Kinds
  <2>2. Typed("usage") \in Errors /\ Typed("usage").kind = "usage" /\ Typed("usage").causes = {}
    BY <2>1 DEF Typed, Errors
  <2>3. WrapValidation(Plain("other")) = InvalidInput(Plain("other"))
    BY OtherErrors DEF WrapValidation, IsTyped
  <2>4. QED
    BY <2>1, <2>2, <2>3, OtherErrors DEF Untyped
<1>2. ASSUME MalformedEnvironment PROVE IInv'
  <2>1. PICK e : e = InvalidInput(Plain("other"))
    OBVIOUS
  <2>2. QED
    BY <1>1, <1>2, <2>1, RefusedKeeps DEF MalformedEnvironment
<1>3. ASSUME Dispatch PROVE IInv'
  <2>1. PICK e : e = Plain("other")
    OBVIOUS
  <2>2. QED
    BY <1>1, <1>3, <2>1, RefusedKeeps, ProceedKeeps DEF Dispatch
<1>4. ASSUME NEW err \in {InvalidInput(Plain("other")), Typed("usage"), WrapValidation(Plain("other"))},
             Refuse(err), stage \in {"attach", "check"}
      PROVE  IInv'
  <2>1. PICK e : e = typeCommandErrors(err)
    OBVIOUS
  <2>2. e \in Errors /\ e.kind # "interrupted" /\ "canceled" \notin e.causes
    BY <1>1, <2>1, TypedErrors
  <2>3. QED
    BY <1>4, <2>1, <2>2, RefusedKeeps DEF Refuse
<1>5. ASSUME AttachOutputFormat PROVE IInv'
  BY <1>4, <1>5, ProceedKeeps DEF AttachOutputFormat
<1>6. ASSUME Check PROVE IInv'
  BY <1>4, <1>6, ProceedKeeps DEF Check
<1>7. QED
  BY <1>2, <1>3, <1>5, <1>6, WriteResultKeeps, RenderFatalKeeps DEF Pipeline
-----------------------------------------------------------------------------
(* The commands that ask the device one thing, and those of one step.      *)

SingleCommands == AskingOnce \cup {"scan", "identify", "serve", "export", "discover"}

\* A command that asks once and goes on keeps the invariant when it has
\* missed nothing.
LEMMA SingleGoesOn ==
  ASSUME Common', command' \in SingleCommands, ~missed'
  PROVE  IInv'
BY DEF IInv, Common, RecordInv, SingleInv, FingerprintInv, SunSpecInv, PollInv,
       SingleCommands, AskingOnce, SunSpecCommandNames, Walkers

\* Connecting keeps the invariant of the commands that ask once.
LEMMA SingleConnectKeeps ==
  ASSUME IInv, stage = "collect", command \in SingleCommands \ {"serve", "export"}, Connect
  PROVE  IInv'
<1>1. Common /\ ~missed
  BY DEF IInv, Common, SingleInv, SingleCommands, Running
<1>2. CASE link' = "open" /\ Common'
           /\ UNCHANGED <<flags, stage, cancelled, outcome, capture, requests, missed>>
  <2>1. command' \in SingleCommands /\ ~missed'
    BY <1>1, <1>2 DEF flags
  <2>2. QED
    BY <1>2, <2>1, SingleGoesOn
<1>3. QED
  BY <1>1, <1>2, ConnectKeeps

\* Starting the capture keeps the invariant of the commands that ask once.
LEMMA SingleStartCaptureKeeps ==
  ASSUME IInv, stage = "collect", command \in {"read", "scan"}, StartCapture
  PROVE  IInv'
<1>1. Common /\ ~missed /\ command \in SingleCommands /\ command \in Capturing
  BY DEF IInv, Common, SingleInv, SingleCommands, AskingOnce, Capturing, Running
<1>2. CASE link = "open" /\ capture' = "open" /\ Common'
           /\ UNCHANGED <<flags, stage, cancelled, outcome, link, requests, missed>>
  <2>1. command' \in SingleCommands /\ ~missed'
    BY <1>1, <1>2 DEF flags
  <2>2. QED
    BY <1>2, <2>1, SingleGoesOn
<1>3. QED
  BY <1>1, <1>2, StartCaptureKeeps

\* The request that is sent ends the command.
LEMMA AskedKeeps ==
  ASSUME IInv, stage = "collect", link = "open",
         command \in SingleCommands \ {"serve", "export", "discover"},
         NEW err, NEW error, Sent(err), Collected(error, FALSE), error = NoError => err = NoError,
         error = NoError /\ command \in Capturing => capture = "open",
         error # NoError =>
           /\ error \in Errors /\ error.kind # "interrupted"
           /\ "canceled" \in error.causes => cancelled
           /\ error.kind \in {"usage", "invalid_input"} => command = "decode"
  PROVE  IInv'
<1>1. Common /\ ~missed /\ requests \in 0 .. 2 /\ missed \in BOOLEAN
  BY DEF IInv, Common, SingleInv, SingleCommands, Running, TypeInv
<1>2. /\ requests' \in 0 .. 2 /\ (requests = 0 => requests' <= 1)
      /\ missed' \in BOOLEAN /\ (error = NoError => ~missed')
  <2>1. /\ requests' \in 1 .. 2 /\ (requests = 0 => requests' = 1)
        /\ missed' = (missed \/ err # NoError)
    BY <1>1, SentFacts
  <2>2. missed' \in BOOLEAN /\ (error = NoError => ~missed')
    BY <1>1, <2>1, Zenon
  <2>3. QED
    BY <2>1, <2>2
<1>3. command \in Changing => requests' <= 1
  BY <1>1, <1>2 DEF Common, ChangeInv
<1>4. command \notin Streaming /\ command # "poll" /\ command \notin {"serve", "export"}
  BY DEF SingleCommands, AskingOnce, Streaming
<1>5. QED
  BY <1>1, <1>2, <1>3, <1>4, CollectedKeeps

\* A command that sends its one request, or fails to, keeps the invariant.
LEMMA AskOnceKeeps ==
  ASSUME IInv, AskOnce, UNCHANGED ownVars
  PROVE  IInv'
<1>1. "output" \in Kinds /\ "invalid_input" \in Kinds /\ "modbus_exception" \in Kinds
  BY DEF Kinds
<1>2. capture = "open" => link \in {"open", "closed"}
  BY DEF IInv, LinkInv, TypeInv
<1>3. stage = "collect" => link # "closed"
  BY DEF IInv, LinkInv
<1>4. ASSUME CollectRead PROVE IInv'
  <2>1. stage = "collect" /\ command = "read"
        /\ command \in SingleCommands \ {"serve", "export", "discover"}
    BY <1>4 DEF CollectRead, Collecting, SingleCommands, AskingOnce
  <2>2. ASSUME capture = "open",
               NEW err \in CallErrors \cup DialErrors \cup {NoError, Output(Plain("other"))},
               Sent(err), Collected(err, FALSE)
        PROVE  IInv'
    <3>1. err # NoError => err \in Errors /\ err.kind \in {Untyped, "output"} /\ ("canceled" \in err.causes => cancelled)
      BY <1>1, DeviceErrors, OtherErrors
    <3>2. QED
      BY <1>2, <1>3, <2>1, <2>2, <3>1, AskedKeeps DEF Untyped
  <2>3. QED
    BY <1>4, <2>1, <2>2, SingleConnectKeeps, SingleStartCaptureKeeps DEF CollectRead
<1>5. ASSUME CollectDecode PROVE IInv'
  <2>1. /\ stage = "collect" /\ command = "decode" /\ command \notin Capturing
        /\ command \in SingleCommands \ {"serve", "export", "discover"}
    BY <1>5 DEF CollectDecode, Collecting, SingleCommands, AskingOnce, Capturing
  <2>2. ASSUME link = "open", NEW err \in CallErrors \cup DialErrors \cup {NoError},
               Sent(err), Collected(err, FALSE)
        PROVE  IInv'
    <3>1. err # NoError => err \in Errors /\ err.kind = Untyped /\ ("canceled" \in err.causes => cancelled)
      BY DeviceErrors
    <3>2. QED
      BY <2>1, <2>2, <3>1, AskedKeeps DEF Untyped
  <2>3. ASSUME link = "open", Sent(NoError), Collected(InvalidInput(Plain("other")), FALSE)
        PROVE  IInv'
    <3>1. PICK error : error = InvalidInput(Plain("other"))
      OBVIOUS
    <3>2. error \in Errors /\ error.kind = "invalid_input" /\ "canceled" \notin error.causes
          /\ error # NoError
      BY <1>1, <3>1, OtherErrors, ErrorsAreErrors
    <3>3. QED
      BY <2>1, <2>3, <3>1, <3>2, AskedKeeps
  <2>4. QED
    BY <1>5, <2>1, <2>2, <2>3, SingleConnectKeeps DEF CollectDecode
<1>6. ASSUME CollectDiagnostics PROVE IInv'
  <2>1. /\ stage = "collect" /\ command \notin Capturing
        /\ command \in SingleCommands \ {"serve", "export", "discover"}
    BY <1>6 DEF CollectDiagnostics, Collecting, SingleCommands, AskingOnce, Capturing
  <2>2. ASSUME link = "open", NEW err \in CallErrors, Sent(err),
               Collected(New("modbus_exception", err), FALSE)
        PROVE  IInv'
    <3>1. PICK error : error = New("modbus_exception", err)
      OBVIOUS
    <3>2. /\ error \in Errors /\ error.kind = "modbus_exception" /\ error # NoError
          /\ "canceled" \in error.causes => cancelled
      BY <1>1, <3>1, DeviceErrors, NewErrors, ErrorsAreErrors
    <3>3. QED
      BY <2>1, <2>2, <3>1, <3>2, AskedKeeps
  <2>3. ASSUME link = "open", Sent(NoError), Collected(NoError, FALSE)
        PROVE  IInv'
    <3>1. PICK error : error = NoError
      OBVIOUS
    <3>2. QED
      BY <2>1, <2>3, <3>1, AskedKeeps
  <2>4. QED
    BY <1>6, <2>1, <2>2, <2>3, SingleConnectKeeps DEF CollectDiagnostics
<1>7. ASSUME CollectWrite PROVE IInv'
  <2>1. /\ stage = "collect" /\ command \notin Capturing
        /\ command \in SingleCommands \ {"serve", "export", "discover"}
    BY <1>7 DEF CollectWrite, Collecting, SingleCommands, AskingOnce, Capturing
  <2>2. ASSUME link = "open", NEW err \in CallErrors \cup {NoError}, Sent(err), Collected(err, FALSE)
        PROVE  IInv'
    <3>1. err # NoError => err \in Errors /\ err.kind = Untyped /\ ("canceled" \in err.causes => cancelled)
      BY DeviceErrors
    <3>2. QED
      BY <2>1, <2>2, <3>1, AskedKeeps DEF Untyped
  <2>3. QED
    BY <1>7, <2>1, <2>2, SingleConnectKeeps DEF CollectWrite
<1>8. QED
  BY <1>4, <1>5, <1>6, <1>7 DEF AskOnce

\* scan, identify and reportserverid: the requests of a whole collection.
LEMMA CollectionKeeps ==
  ASSUME IInv, stage = "collect", command \in {"scan", "identify"}, command \in Capturing => capture = "open",
         link = "open", NEW failed \in BOOLEAN, requests' = 2, missed' = failed, Collected(NoError, failed)
  PROVE  IInv'
<1>1. Common /\ command \notin Changing /\ command \in ExitsPartial
  BY DEF IInv, Common, Changing, ExitsPartial
<1>2. PICK error : error = NoError
  OBVIOUS
<1>3. requests' \in 0 .. 2
  OBVIOUS
<1>4. missed' \in BOOLEAN /\ (failed => missed') /\ (missed' => failed)
  BY Zenon
<1>5. QED
  BY <1>1, <1>2, <1>3, <1>4, CollectedKeeps

\* serve keeps the invariant, however it ends.
LEMMA ServeKeeps ==
  ASSUME IInv, ServeCommand, UNCHANGED ownVars
  PROVE  IInv'
<1>1. stage \in {"collect", "serving"} /\ command = "serve" /\ UNCHANGED <<flags, cancelled, device>>
  BY DEF ServeCommand, Collecting, IInv, LinkInv
<1>2. /\ Common /\ link = "none" /\ capture = "none" /\ requests = 0 /\ ~missed
      /\ failure = NoError /\ stdout = {}
  BY <1>1 DEF IInv, Common, LinkInv, TypeInv
<1>3. "invalid_input" \in Kinds /\ "transport" \in Kinds
  BY DEF Kinds
<1>4. ASSUME NEW err \in ServeErrors, ~Stopped(err), Fail(typeCommandErrors(WrapCollectError(err)))
      PROVE  IInv'
  <2>1. err \in {InvalidInput(Plain("other")), New("transport", Plain("other"))}
    BY <1>4, OtherErrors DEF ServeErrors, Stopped
  <2>2. err \in Errors /\ err.kind \in {"invalid_input", "transport"}
        /\ "canceled" \notin err.causes
    BY <1>3, <2>1, OtherErrors
  <2>3. PICK e : e = typeCommandErrors(WrapCollectError(err))
    OBVIOUS
  <2>4. e \in Errors /\ e.kind # "interrupted" /\ "canceled" \notin e.causes
    BY <2>2, <2>3, ReturnedError
  <2>5. UNCHANGED <<flags, cancelled>> /\ UNCHANGED <<link, capture, requests, missed>>
    BY <1>1 DEF device
  <2>6. Blamed(e)'
    BY <1>2, <2>4, <2>5 DEF Blamed
  <2>7. stage \in Running /\ missed' \in BOOLEAN
    BY <1>1, <1>2, <2>5 DEF Running, Common, TypeInv
  <2>8. Fail(e)
    BY <1>4, <2>3
  <2>9. QED
    BY <1>2, <2>5, <2>6, <2>7, <2>8, FailKeeps
<1>5. ASSUME stage' = "done", exitCode' = ExitOK, UNCHANGED <<failure, partial, stdout>>
      PROVE  IInv'
  <2>1. UNCHANGED <<command, format, confirmed, cancelled, link, capture, requests, missed>>
    BY <1>1 DEF flags, device
  <2>2. TypeInv' /\ LinkInv' /\ ChangeInv'
    <3>1. TypeInv'
      BY <1>2, <1>5, <2>1 DEF Common, TypeInv, Stages
    <3>2. LinkInv'
      BY <1>2, <1>5, <2>1 DEF LinkInv, Running
    <3>3. ChangeInv'
      BY <1>2, <1>5, <2>1 DEF ChangeInv
    <3>4. QED
      BY <3>1, <3>2, <3>3
  <2>3. ExitCodeTells' /\ WriteIsSentOnce' /\ CaptureIsFinished' /\ PollsAddUp'
    BY <1>1, <1>2, <1>5, <2>1 DEF ExitCodeTells, WriteIsSentOnce, CaptureIsFinished, PollsAddUp,
       Succeeded, Done, Streaming, ExitOK, ExitPartial, ExitInterrupted
  <2>4. QED
    BY <1>5, <2>2, <2>3, EndedIsCommon DEF Common, DoneInv, FatalInv, WriteInv, Running
<1>6. CASE stage = "collect" /\ stage' = "serving" /\ UNCHANGED outcome
  <2>1. UNCHANGED <<command, format, confirmed, cancelled, link, capture, requests, missed>>
        /\ UNCHANGED <<failure, partial, stdout, exitCode>>
    BY <1>1, <1>6 DEF flags, device, outcome
  <2>2. TypeInv'
    BY <1>2, <1>6, <2>1 DEF Common, TypeInv, Stages
  <2>3. LinkInv'
    BY <1>1, <1>2, <1>6, <2>1 DEF Common, LinkInv, Running
  <2>4. ChangeInv' /\ FatalInv' /\ WriteInv' /\ DoneInv'
    BY <1>1, <1>6, <2>1 DEF ChangeInv, FatalInv, WriteInv, DoneInv, Done, Changing
  <2>5. RecordInv' /\ SingleInv' /\ FingerprintInv' /\ SunSpecInv' /\ PollInv'
    <3>1. command' = "serve" /\ ~missed'
      BY <1>1, <1>2, <2>1
    <3>2. RecordInv' /\ SingleInv'
      BY <3>1 DEF RecordInv, SingleInv
    <3>3. FingerprintInv' /\ PollInv'
      BY <3>1 DEF FingerprintInv, PollInv
    <3>4. SunSpecInv'
      BY <3>1 DEF SunSpecInv, SunSpecCommandNames, Walkers
    <3>5. QED
      BY <3>2, <3>3, <3>4
  <2>6. QED
    BY <2>2, <2>3, <2>4, <2>5 DEF IInv
<1>7. ASSUME NEW err \in ServeErrors \cup {Plain("canceled")}, ServeReturns(err) PROVE IInv'
  <2>1. CASE Stopped(err)
    BY <1>5, <1>7, <2>1 DEF ServeReturns
  <2>2. CASE ~Stopped(err)
    <3>1. Stopped(Plain("canceled"))
      BY PlainErrors DEF Stopped, Causes
    <3>2. err \in ServeErrors
      BY <1>7, <2>2, <3>1
    <3>3. QED
      BY <1>4, <1>7, <2>2, <3>2 DEF ServeReturns
  <2>3. QED
    BY <2>1, <2>2
<1>8. QED
  BY <1>6, <1>7 DEF ServeCommand, Collecting

\* export keeps the invariant, however it ends.
LEMMA ExportKeeps ==
  ASSUME IInv, ExportCommand, UNCHANGED ownVars
  PROVE  IInv'
<1>1. stage = "collect" /\ command = "export" /\ UNCHANGED <<flags, cancelled, device>>
  BY DEF ExportCommand, Collecting
<1>2. /\ Common /\ link = "none" /\ capture = "none" /\ requests = 0 /\ ~missed
      /\ failure = NoError /\ stdout = {}
  BY <1>1 DEF IInv, Common, LinkInv, TypeInv
<1>3. "invalid_input" \in Kinds /\ "output" \in Kinds
  BY DEF Kinds
<1>4. ASSUME NEW err \in OutputOpenErrors \cup {WrapCaptureError(Plain("other"))}, Fail(err)
      PROVE  IInv'
  <2>1. WrapCaptureError(Plain("other")) = InvalidInput(Plain("other"))
    BY OtherErrors DEF WrapCaptureError, IsTyped
  <2>2. err \in Errors /\ err.kind \in {"invalid_input", "output"} /\ "canceled" \notin err.causes
    BY <1>3, <2>1, OtherErrors DEF OutputOpenErrors
  <2>3. UNCHANGED <<flags, cancelled>> /\ UNCHANGED <<link, capture, requests, missed>>
    BY <1>1 DEF device
  <2>4. Blamed(err)'
    BY <1>2, <2>2, <2>3 DEF Blamed
  <2>5. stage \in Running /\ missed' \in BOOLEAN
    BY <1>1, <1>2, <2>3 DEF Running, Common, TypeInv
  <2>6. QED
    BY <1>2, <1>4, <2>3, <2>4, <2>5, FailKeeps
<1>5. ASSUME stage' = "done", exitCode' = ExitOK, stdout' \in {{"result"}, {}}, UNCHANGED <<failure, partial>>
      PROVE  IInv'
  <2>1. UNCHANGED <<command, format, confirmed, cancelled, link, capture, requests, missed>>
    BY <1>1 DEF flags, device
  <2>2. TypeInv' /\ LinkInv' /\ ChangeInv'
    <3>1. TypeInv'
      BY <1>2, <1>5, <2>1 DEF Common, TypeInv, Stages
    <3>2. LinkInv'
      BY <1>2, <1>5, <2>1 DEF LinkInv, Running
    <3>3. ChangeInv'
      BY <1>2, <1>5, <2>1 DEF ChangeInv
    <3>4. QED
      BY <3>1, <3>2, <3>3
  <2>3. ExitCodeTells' /\ WriteIsSentOnce' /\ CaptureIsFinished' /\ PollsAddUp'
    BY <1>1, <1>2, <1>5, <2>1 DEF ExitCodeTells, WriteIsSentOnce, CaptureIsFinished, PollsAddUp,
       Succeeded, Done, Streaming, ExitOK, ExitPartial, ExitInterrupted
  <2>4. QED
    BY <1>5, <2>2, <2>3, EndedIsCommon DEF Common, DoneInv, FatalInv, WriteInv, Running
<1>6. QED
  BY <1>4, <1>5 DEF ExportCommand

\* Every step of the commands that ask once keeps the invariant.
LEMMA SimpleKeeps ==
  ASSUME IInv, Simple, UNCHANGED ownVars
  PROVE  IInv'
<1>1. "output" \in Kinds
  BY DEF Kinds
<1>2. stage = "collect" /\ capture = "open" => link = "open"
  BY DEF IInv, LinkInv, TypeInv
<1>3. ASSUME NEW err \in {Output(Plain("other"))} \cup DialErrors \cup (IF cancelled THEN {Plain("canceled")} ELSE {})
      PROVE  /\ err \in Errors /\ err # NoError /\ err.kind \in {Untyped, "output"}
             /\ "canceled" \in err.causes => cancelled
  BY <1>1, DeviceErrors, OtherErrors, ErrorsAreErrors
<1>4. ASSUME ScanCommand PROVE IInv'
  <2>1. /\ stage = "collect" /\ command = "scan"
        /\ command \in SingleCommands \ {"serve", "export", "discover"}
    BY <1>4 DEF ScanCommand, Collecting, SingleCommands
  <2>2. ASSUME capture = "open",
               NEW err \in {Output(Plain("other"))} \cup (IF cancelled THEN {Plain("canceled")} ELSE {}),
               Sent(err), Collected(err, FALSE)
        PROVE  IInv'
    BY <1>2, <1>3, <2>1, <2>2, AskedKeeps DEF Untyped
  <2>3. QED
    BY <1>2, <1>4, <2>1, <2>2, CollectionKeeps, SingleConnectKeeps, SingleStartCaptureKeeps
    DEF ScanCommand
<1>5. ASSUME UnitsCommand PROVE IInv'
  <2>1. /\ stage = "collect" /\ command = "identify" /\ command \notin Capturing
        /\ command \in SingleCommands \ {"serve", "export", "discover"}
    BY <1>5 DEF UnitsCommand, Collecting, SingleCommands, Capturing
  <2>2. ASSUME link = "open", NEW err \in DialErrors \cup (IF cancelled THEN {Plain("canceled")} ELSE {}),
               Sent(err), Collected(err, FALSE)
        PROVE  IInv'
    BY <1>3, <2>1, <2>2, AskedKeeps DEF Untyped
  <2>3. QED
    BY <1>5, <2>1, <2>2, CollectionKeeps, SingleConnectKeeps DEF UnitsCommand
<1>6. QED
  BY <1>4, <1>5, ServeKeeps, ExportKeeps DEF Simple

\* Every step of a discovery keeps the invariant.
LEMMA DiscoverKeeps ==
  ASSUME IInv, Discover
  PROVE  IInv'
<1>1. /\ stage = "collect" /\ command = "discover" /\ command \in SingleCommands
      /\ command \notin Capturing /\ command \notin Changing
  BY DEF Discover, Produce, TakeJob, ProbeHost, EndDiscovery, Discovering, Collecting,
    SingleCommands,
     Capturing, Changing
<1>2. Common /\ ~missed
  BY <1>1 DEF IInv, Common, SingleInv, SingleCommands, Running
<1>3. ASSUME UNCHANGED invocationVars PROVE IInv'
  <2>1. UNCHANGED <<command, format, confirmed, stage, cancelled, failure, partial, stdout, exitCode,
                    link, capture, requests, missed>>
    BY <1>3 DEF invocationVars, flags, outcome, device
  <2>2. Common'
    BY <1>1, <1>2, <2>1 DEF Common, TypeInv, LinkInv, ChangeInv, FatalInv, WriteInv, DoneInv,
      Done, Running
  <2>3. QED
    BY <1>1, <1>2, <2>1, <2>2, SingleGoesOn
<1>4. ASSUME NEW err \in {NoError, Output(Plain("other"))}, Collected(err, FALSE), UNCHANGED <<requests, missed>>
      PROVE  IInv'
  <2>1. "output" \in Kinds
    BY DEF Kinds
  <2>2. err # NoError => err \in Errors /\ err.kind = "output" /\ "canceled" \notin err.causes
    BY <2>1, OtherErrors
  <2>3. /\ requests' \in 0 .. 2 /\ missed' \in BOOLEAN /\ ~missed'
        /\ link = "none" => requests' = 0
    BY <1>2, <1>4 DEF Common, TypeInv, LinkInv
  <2>4. QED
    BY <1>1, <1>2, <1>4, <2>2, <2>3, CollectedKeeps
<1>5. QED
  BY <1>3, <1>4 DEF Discover, Produce, TakeJob, ProbeHost, EndDiscovery
-----------------------------------------------------------------------------
(* client record.                                                          *)

\* record goes on when its own part of the invariant holds.
LEMMA RecordGoesOn ==
  ASSUME Common', command' = "record", RecordInv'
  PROVE  IInv'
BY DEF IInv, Common, SingleInv, FingerprintInv, SunSpecInv, PollInv, AskingOnce,
  SunSpecCommandNames, Walkers

\* One that goes on within the capture, whether a request was sent or not.
LEMMA WithinCaptureKeeps ==
  ASSUME IInv, stage = "collect", command = "record", capture = "open",
         UNCHANGED <<flags, stage, cancelled, outcome, link, capture>>,
         requests' \in 0 .. 2, missed' \in BOOLEAN, recordAt' \in {"loop", "send", "sleep"}
  PROVE  IInv'
<1>1. UNCHANGED <<flags, stage, cancelled, outcome>> /\ UNCHANGED <<link, capture>>
      /\ UNCHANGED <<stage, command>>
  BY DEF flags
<1>2. Common /\ link = "open" /\ command \in Capturing /\ command \notin Changing
      /\ command \notin {"serve", "export"}
  BY DEF IInv, Common, LinkInv, TypeInv, Capturing, Changing
<1>3. Common'
  BY <1>1, <1>2, GoesOnKeeps
<1>4. RecordInv'
  BY <1>1 DEF RecordInv
<1>5. QED
  BY <1>1, <1>3, <1>4, RecordGoesOn

\* The end of recording: the duration is over, the capture or a signal ends it.
LEMMA RecordEndsKeeps ==
  ASSUME IInv, stage = "collect", command = "record", NEW err, Collected(err, FALSE),
         err = NoError => capture = "open",
         err # NoError =>
           /\ err \in Errors /\ err.kind # "interrupted"
           /\ "canceled" \in err.causes => cancelled
           /\ err.kind \in {"usage", "invalid_input"} => link = "none",
         requests' \in 0 .. 2, missed' \in BOOLEAN,
         link = "none" => requests' = 0 /\ ~missed'
  PROVE  IInv'
<1>1. Common /\ command \notin Changing /\ command \notin Streaming
      /\ command \notin {"serve", "export"}
  BY DEF IInv, Common, Changing, Streaming
<1>2. QED
  BY <1>1, CollectedKeeps

\* Every step of record keeps the invariant.
LEMMA RecordKeeps ==
  ASSUME IInv, Record
  PROVE  IInv'
<1>1. /\ stage = "collect" /\ command = "record" /\ command \in Capturing
  BY DEF Record, ReadPlan, RecordConnect, RecordStart, Iterate, SendPlanRequest, EndIteration,
    RecordSleep,
     Recording, Collecting, Capturing
<1>2. /\ Common /\ requests \in 0 .. 2 /\ missed \in BOOLEAN
      /\ link = "none" => requests = 0 /\ ~missed /\ capture = "none"
      /\ recordAt \in {"plan", "connect"} => link = "none"
      /\ recordAt = "capture" => link = "open"
      /\ recordAt \in {"loop", "send", "sleep"} => capture = "open"
  BY <1>1 DEF IInv, Common, TypeInv, LinkInv, RecordInv, Running
<1>3. "output" \in Kinds /\ "invalid_input" \in Kinds
  BY DEF Kinds
<1>4. ASSUME ReadPlan PROVE IInv'
  <2>1. link = "none" /\ UNCHANGED <<requests, missed>>
    BY <1>2, <1>4 DEF ReadPlan, Recording
  <2>2. ASSUME Continue("connect") PROVE IInv'
    <3>1. /\ UNCHANGED <<flags, stage, cancelled, outcome>> /\ UNCHANGED <<link, capture>>
             /\ recordAt' = "connect"
          /\ UNCHANGED <<stage, command>>
      BY <2>2 DEF Continue, flags
    <3>2. Common'
      BY <1>1, <1>2, <2>1, <3>1, GoesOnKeeps DEF Changing
    <3>3. QED
      BY <1>1, <2>1, <3>1, <3>2, RecordGoesOn DEF RecordInv
  <2>3. ASSUME Collected(InvalidInput(Plain("other")), FALSE) PROVE IInv'
    <3>1. PICK err : err = InvalidInput(Plain("other"))
      OBVIOUS
    <3>2. err \in Errors /\ err.kind = "invalid_input" /\ "canceled" \notin err.causes
          /\ err # NoError
      BY <1>3, <3>1, OtherErrors, ErrorsAreErrors
    <3>3. requests' \in 0 .. 2 /\ missed' \in BOOLEAN /\ requests' = 0 /\ ~missed'
      BY <1>2, <2>1
    <3>4. QED
      BY <1>1, <2>1, <2>3, <3>1, <3>2, <3>3, RecordEndsKeeps
  <2>4. QED
    BY <1>4, <2>2, <2>3 DEF ReadPlan
<1>5. ASSUME RecordConnect PROVE IInv'
  <2>1. Connect /\ recordAt' = "capture"
    BY <1>5 DEF RecordConnect
  <2>2. CASE link' = "open" /\ Common'
             /\ UNCHANGED <<flags, stage, cancelled, outcome, capture, requests, missed>>
    <3>1. command' = "record"
      BY <1>1, <2>2 DEF flags
    <3>2. QED
      BY <2>1, <2>2, <3>1, RecordGoesOn DEF RecordInv
  <2>3. QED
    BY <1>1, <1>2, <2>1, <2>2, ConnectKeeps
<1>6. ASSUME RecordStart PROVE IInv'
  <2>1. StartCapture /\ recordAt' = "loop"
    BY <1>6 DEF RecordStart
  <2>2. CASE link = "open" /\ capture' = "open" /\ Common'
             /\ UNCHANGED <<flags, stage, cancelled, outcome, link, requests, missed>>
    <3>1. command' = "record"
      BY <1>1, <2>2 DEF flags
    <3>2. QED
      BY <2>1, <2>2, <3>1, RecordGoesOn DEF RecordInv
  <2>3. QED
    BY <1>1, <1>2, <2>1, <2>2, StartCaptureKeeps
<1>7. ASSUME Iterate PROVE IInv'
  <2>1. capture = "open" /\ UNCHANGED <<requests, missed>>
    BY <1>2, <1>7 DEF Iterate, Recording
  <2>2. requests' \in 0 .. 2 /\ missed' \in BOOLEAN /\ (link = "none" => requests' = 0 /\ ~missed')
    BY <1>2, <2>1
  <2>3. ASSUME Collected(NoError, FALSE) PROVE IInv'
    <3>1. PICK err : err = NoError
      OBVIOUS
    <3>2. QED
      BY <1>1, <2>1, <2>2, <2>3, <3>1, RecordEndsKeeps
  <2>4. ASSUME Continue("send") PROVE IInv'
    BY <1>1, <2>1, <2>2, <2>4, WithinCaptureKeeps DEF Continue
  <2>5. QED
    BY <1>7, <2>3, <2>4 DEF Iterate
<1>8. ASSUME SendPlanRequest PROVE IInv'
  <2>1. capture = "open" /\ link # "none"
    BY <1>2, <1>8 DEF SendPlanRequest, Recording
  <2>2. PICK err \in CallErrors \cup DialErrors \cup {NoError, Output(Plain("other"))} :
          /\ Sent(err)
          /\ \/ err # NoError /\ Collected(err, FALSE)
             \/ Continue("send")
    BY <1>8 DEF SendPlanRequest
  <2>3. requests' \in 0 .. 2 /\ missed' \in BOOLEAN
    <3>1. requests' \in 1 .. 2 /\ missed' = (missed \/ err # NoError)
      BY <1>2, <2>2, SentFacts
    <3>2. missed' \in BOOLEAN
      BY <3>1, Zenon
    <3>3. QED
      BY <3>1, <3>2
  <2>4. err # NoError => err \in Errors /\ err.kind \in {Untyped, "output"} /\ ("canceled" \in err.causes => cancelled)
    BY <1>3, DeviceErrors, OtherErrors
  <2>5. ASSUME err # NoError, Collected(err, FALSE) PROVE IInv'
    BY <1>1, <2>1, <2>3, <2>4, <2>5, RecordEndsKeeps DEF Untyped
  <2>6. ASSUME Continue("send") PROVE IInv'
    BY <1>1, <2>1, <2>3, <2>6, WithinCaptureKeeps DEF Continue
  <2>7. QED
    BY <2>2, <2>5, <2>6
<1>9. ASSUME EndIteration PROVE IInv'
  <2>1. capture = "open" /\ UNCHANGED <<requests, missed>> /\ Continue(IF interval > 0 THEN "sleep" ELSE "loop")
    BY <1>2, <1>9 DEF EndIteration, Recording
  <2>2. requests' \in 0 .. 2 /\ missed' \in BOOLEAN
    BY <1>2, <2>1
  <2>3. QED
    BY <1>1, <2>1, <2>2, WithinCaptureKeeps DEF Continue
<1>10. ASSUME RecordSleep PROVE IInv'
  <2>1. capture = "open" /\ UNCHANGED <<requests, missed>>
    BY <1>2, <1>10 DEF RecordSleep, Recording
  <2>2. requests' \in 0 .. 2 /\ missed' \in BOOLEAN /\ (link = "none" => requests' = 0 /\ ~missed')
    BY <1>2, <2>1
  <2>3. ASSUME cancelled, Collected(Plain("canceled"), FALSE) PROVE IInv'
    <3>1. PICK err : err = Plain("canceled")
      OBVIOUS
    <3>2. err \in Errors /\ err.kind = Untyped /\ err # NoError
      BY <3>1, OtherErrors, ErrorsAreErrors
    <3>3. QED
      BY <1>1, <2>2, <2>3, <3>1, <3>2, RecordEndsKeeps DEF Untyped
  <2>4. ASSUME Continue("loop") PROVE IInv'
    BY <1>1, <2>1, <2>2, <2>4, WithinCaptureKeeps DEF Continue
  <2>5. QED
    BY <1>10, <2>3, <2>4 DEF RecordSleep
<1>11. QED
  BY <1>4, <1>5, <1>6, <1>7, <1>8, <1>9, <1>10 DEF Record
-----------------------------------------------------------------------------
(* client fingerprint.                                                     *)

\* fingerprint goes on when its own part of the invariant holds.
LEMMA FingerprintGoesOn ==
  ASSUME Common', command' = "fingerprint", FingerprintInv'
  PROVE  IInv'
BY DEF IInv, Common, RecordInv, SingleInv, SunSpecInv, PollInv, AskingOnce,
  SunSpecCommandNames, Walkers

\* A unit that goes on with its row, or that has not begun.
LEMMA SameUnitKeeps ==
  ASSUME IInv, stage = "collect", command = "fingerprint", link = "open",
         UNCHANGED <<flags, stage, cancelled, outcome, link, capture>>, UNCHANGED rows,
         row' \in UnitRow, row'.error = "none", fingerprintAt' \in {"ask", "pause"},
         requests' \in 0 .. 2, missed' = missed
  PROVE  IInv'
<1>1. UNCHANGED <<flags, stage, cancelled, outcome>> /\ UNCHANGED <<link, capture>>
      /\ UNCHANGED <<stage, command>>
  BY DEF flags
<1>2. /\ Common /\ missed \in BOOLEAN /\ command \notin Changing
         /\ command \notin {"serve", "export"}
      /\ capture \in {"none", "open"} /\ (command \notin Capturing => capture = "none")
  BY DEF IInv, Common, LinkInv, TypeInv, Changing
<1>3. missed' \in BOOLEAN /\ link' = "open"
  BY <1>1, <1>2
<1>4. Common'
  BY <1>1, <1>2, <1>3, GoesOnKeeps
<1>5. FingerprintInv'
  BY <1>1 DEF IInv, FingerprintInv, Running
<1>6. QED
  BY <1>1, <1>4, <1>5, FingerprintGoesOn

\* A unit that ends with its row, and the next one or the end of the walk.
LEMMA EndUnitKeeps ==
  ASSUME IInv, stage = "collect", command = "fingerprint", link = "open", NEW r \in UnitRow, EndUnit(r),
         fingerprintAt' \in {"ask", "pause"},
         requests' \in 0 .. 2, missed' \in BOOLEAN, missed' <=> missed \/ r.error # "none"
  PROVE  IInv'
<1>1. /\ Common /\ command \notin Changing /\ command \notin Capturing
         /\ command \notin {"serve", "export"}
      /\ rows \in Seq(UnitRow) /\ (missed <=> \E i \in DOMAIN rows : rows[i].error # "none")
      /\ capture = "none"
  BY DEF IInv, Common, LinkInv, Changing, Capturing, FingerprintInv, Running
<1>2. rows' = Append(rows, r) /\ row' = EmptyRow
  BY DEF EndUnit
<1>3. /\ rows' \in Seq(UnitRow) /\ DOMAIN rows' = 1 .. (Len(rows) + 1)
         /\ DOMAIN rows = 1 .. Len(rows) /\ Len(rows) \in Nat
      /\ \A i \in 1 .. Len(rows) : rows'[i] = rows[i]
      /\ rows'[Len(rows) + 1] = r
  BY <1>1, <1>2
<1>4. missed' <=> \E i \in DOMAIN rows' : rows'[i].error # "none"
  <2>1. ASSUME NEW i \in DOMAIN rows', rows'[i].error # "none" PROVE missed'
    <3>1. CASE i = Len(rows) + 1
      BY <1>3, <2>1, <3>1
    <3>2. CASE i # Len(rows) + 1
      <4>1. i \in DOMAIN rows /\ rows'[i] = rows[i]
        BY <1>3, <3>2
      <4>2. QED
        BY <1>1, <2>1, <4>1
    <3>3. QED
      BY <3>1, <3>2
  <2>2. ASSUME missed' PROVE \E i \in DOMAIN rows' : rows'[i].error # "none"
    <3>1. CASE missed
      <4>1. PICK i \in DOMAIN rows : rows[i].error # "none"
        BY <1>1, <3>1
      <4>2. i \in DOMAIN rows' /\ rows'[i] = rows[i]
        BY <1>3
      <4>3. QED
        BY <4>1, <4>2
    <3>2. CASE r.error # "none"
      <4>1. Len(rows) + 1 \in DOMAIN rows'
        BY <1>3
      <4>2. QED
        BY <1>3, <3>2, <4>1
    <3>3. QED
      BY <2>2, <3>1, <3>2
  <2>3. QED
    BY <2>1, <2>2
<1>5. HasPartialFailure(rows') <=> missed'
  <2>1. ASSUME NEW i \in DOMAIN rows'
        PROVE  FingerprintUnitPartial(rows'[i]) \/ FingerprintUnitUnusable(rows'[i]) <=> rows'[i].error # "none"
    <3>1. rows'[i] \in UnitRow
      BY <1>3
    <3>2. rows'[i].supported \in Nat
      BY <3>1 DEF UnitRow
    <3>3. QED
      BY <3>2 DEF FingerprintUnitPartial, FingerprintUnitUnusable
  <2>2. QED
    BY <1>4, <2>1 DEF HasPartialFailure
<1>6. CASE Collected(NoError, HasPartialFailure(rows'))
  <2>1. PICK failed \in BOOLEAN : failed = HasPartialFailure(rows')
    BY DEF HasPartialFailure
  <2>2. PICK err : err = NoError
    OBVIOUS
  <2>3. Collected(err, failed)
    BY <1>6, <2>1, <2>2
  <2>4. command \in ExitsPartial
    BY DEF ExitsPartial
  <2>5. failed <=> missed'
    BY <1>5, <2>1
  <2>6. QED
    BY <1>1, <2>2, <2>3, <2>4, <2>5, CollectedKeeps
<1>7. CASE UNCHANGED <<flags, stage, cancelled, outcome, link, capture>>
  <2>1. UNCHANGED <<flags, stage, cancelled, outcome>> /\ UNCHANGED <<link, capture>>
        /\ UNCHANGED <<stage, command>>
    BY <1>7 DEF flags
  <2>2. Common'
    BY <1>1, <2>1, GoesOnKeeps
  <2>3. row' \in UnitRow /\ row'.error = "none"
    BY <1>2 DEF EmptyRow, UnitRow
  <2>4. FingerprintInv'
    BY <1>3, <1>4, <2>1, <2>3 DEF FingerprintInv
  <2>5. QED
    BY <2>1, <2>2, <2>4, FingerprintGoesOn
<1>8. QED
  BY <1>6, <1>7 DEF EndUnit

\* The next function code of a unit, or the end of the unit.
LEMMA NextFunctionKeeps ==
  ASSUME IInv, stage = "collect", command = "fingerprint", link = "open", NEW r \in UnitRow, r.error = "none",
         NextFunction(r), fingerprintAt' \in {"ask", "pause"}, requests' \in 0 .. 2, missed' = missed
  PROVE  IInv'
<1>1. missed \in BOOLEAN
  BY DEF IInv, TypeInv
<1>2. CASE EndUnit(r)
  BY <1>1, <1>2, EndUnitKeeps
<1>3. CASE row' = r /\ UNCHANGED <<flags, stage, cancelled, outcome, link, capture, rows>>
  <2>1. UNCHANGED <<flags, stage, cancelled, outcome, link, capture>> /\ UNCHANGED rows
    BY <1>3
  <2>2. QED
    BY <1>3, <2>1, SameUnitKeeps
<1>4. QED
  BY <1>2, <1>3 DEF NextFunction

\* Every step of fingerprint keeps the invariant.
LEMMA FingerprintKeeps ==
  ASSUME IInv, Fingerprint
  PROVE  IInv'
<1>1. stage = "collect" /\ command = "fingerprint"
  BY DEF Fingerprint, FingerprintConnect, SupportsFunction, FingerprintPause, Fingerprinting,
    Collecting
<1>2. /\ Common /\ requests \in 0 .. 2 /\ missed \in BOOLEAN
      /\ link \in {"none", "open"} /\ (fingerprintAt = "connect" <=> link = "none")
      /\ row \in UnitRow /\ row.error = "none" /\ fingerprintAt \in {"connect", "ask", "pause"}
      /\ rows \in Seq(UnitRow) /\ (missed <=> \E i \in DOMAIN rows : rows[i].error # "none")
  BY <1>1 DEF IInv, Common, TypeInv, LinkInv, FingerprintInv, Running
<1>3. ASSUME FingerprintConnect PROVE IInv'
  <2>1. Connect /\ fingerprintAt' = "ask" /\ UNCHANGED <<row, rows>>
    BY <1>3 DEF FingerprintConnect
  <2>2. CASE link' = "open" /\ Common'
             /\ UNCHANGED <<flags, stage, cancelled, outcome, capture, requests, missed>>
    <3>1. command' = "fingerprint"
      BY <1>1, <2>2 DEF flags
    <3>2. FingerprintInv'
      BY <1>2, <2>1, <2>2 DEF FingerprintInv
    <3>3. QED
      BY <2>2, <3>1, <3>2, FingerprintGoesOn
  <2>3. QED
    BY <1>1, <1>2, <2>1, <2>2, ConnectKeeps
<1>4. ASSUME SupportsFunction PROVE IInv'
  <2>1. link = "open" /\ fingerprintAt = "ask"
    BY <1>2, <1>4 DEF SupportsFunction, Fingerprinting
  <2>2. ASSUME NEW supported \in {0, 1}, NEW r, r = [row EXCEPT !.supported = @ + supported], Sent(NoError),
               IF paced
               THEN /\ fingerprintAt' = "pause" /\ row' = r
                    /\ UNCHANGED <<flags, stage, cancelled, outcome, link, capture, asked, rows>>
               ELSE NextFunction(r) /\ UNCHANGED fingerprintAt
        PROVE  IInv'
    <3>1. r \in UnitRow /\ r.error = "none"
      BY <1>2, <2>2 DEF UnitRow
    <3>2. PICK e : e = NoError
      OBVIOUS
    <3>3. requests' \in 0 .. 2 /\ missed' = (missed \/ e # NoError)
      BY <1>2, <2>2, <3>2, SentFacts
    <3>4. missed' = missed
      BY <1>2, <3>2, <3>3, Zenon
    <3>5. CASE paced
      <4>1. UNCHANGED <<flags, stage, cancelled, outcome, link, capture>> /\ UNCHANGED rows
        BY <2>2, <3>5
      <4>2. QED
        BY <1>1, <2>1, <2>2, <3>1, <3>3, <3>4, <3>5, <4>1, SameUnitKeeps
    <3>6. CASE ~paced
      BY <1>1, <2>1, <2>2, <3>1, <3>3, <3>4, <3>6, NextFunctionKeeps
    <3>7. QED
      BY <3>5, <3>6
  <2>3. ASSUME NEW err \in CallErrors, Sent(err), EndUnit([row EXCEPT !.error = EmbeddedErrorKind(err)]),
               UNCHANGED fingerprintAt
        PROVE  IInv'
    <3>1. err \in Errors /\ err # NoError /\ err.kind = Untyped
      BY DeviceErrors, ErrorsAreErrors
    <3>2. EmbeddedErrorKind(err) \in Kinds /\ EmbeddedErrorKind(err) # "none"
      BY <3>1, EmbeddedKind DEF Kinds
    <3>3. PICK r : r = [row EXCEPT !.error = EmbeddedErrorKind(err)]
      OBVIOUS
    <3>4. r \in UnitRow /\ r.error # "none"
      BY <1>2, <3>2, <3>3 DEF UnitRow
    <3>5. requests' \in 0 .. 2 /\ missed' = (missed \/ err # NoError)
      BY <1>2, <2>3, SentFacts
    <3>6. missed' \in BOOLEAN /\ (missed' <=> missed \/ r.error # "none")
      BY <1>2, <3>1, <3>4, <3>5, Zenon
    <3>7. EndUnit(r)
      BY <2>3, <3>3
    <3>8. QED
      BY <1>1, <2>1, <2>3, <3>4, <3>5, <3>6, <3>7, EndUnitKeeps
  <2>4. QED
    BY <1>4, <2>2, <2>3 DEF SupportsFunction
<1>5. ASSUME FingerprintPause PROVE IInv'
  <2>1. link = "open" /\ UNCHANGED <<requests, missed>>
    BY <1>2, <1>5 DEF FingerprintPause, Fingerprinting
  <2>2. requests' \in 0 .. 2 /\ missed' = missed /\ missed' \in BOOLEAN
    BY <1>2, <2>1
  <2>3. ASSUME NextFunction(row), fingerprintAt' = "ask" PROVE IInv'
    <3>1. PICK r : r = row
      OBVIOUS
    <3>2. QED
      BY <1>1, <1>2, <2>1, <2>2, <2>3, <3>1, NextFunctionKeeps
  <2>4. ASSUME cancelled, Collected(Plain("canceled"), FALSE) PROVE IInv'
    <3>1. PICK err : err = Plain("canceled")
      OBVIOUS
    <3>2. err \in Errors /\ err.kind = Untyped /\ err # NoError
      BY <3>1, OtherErrors, ErrorsAreErrors
    <3>3. command \notin Changing /\ command \notin Streaming /\ command \notin {"serve", "export"}
      BY <1>1 DEF Changing, Streaming
    <3>4. QED
      BY <1>1, <1>2, <2>1, <2>2, <2>4, <3>1, <3>2, <3>3, CollectedKeeps DEF Untyped
  <2>5. QED
    BY <1>5, <2>3, <2>4 DEF FingerprintPause
<1>6. QED
  BY <1>3, <1>4, <1>5 DEF Fingerprint
-----------------------------------------------------------------------------
(* client sunspec.                                                         *)

\* A sunspec command goes on when its own part of the invariant holds.
LEMMA SunSpecGoesOn ==
  ASSUME Common', command' \in SunSpecCommandNames, SunSpecInv'
  PROVE  IInv'
BY DEF IInv, Common, RecordInv, SingleInv, FingerprintInv, PollInv, AskingOnce,
  SunSpecCommandNames, Walkers

\* The outcome of the detection or the walk ends the command, or is embedded.
LEMMA SunSpecEndsKeeps ==
  ASSUME IInv, stage = "collect", command \in SunSpecCommandNames, link = "open", requests' \in 0 .. 2,
         NEW err, NEW failed \in BOOLEAN, Collected(err, failed), missed' \in BOOLEAN,
         err = NoError => (missed' <=> failed) /\ (failed => command = "probe"),
         err # NoError => err \in Errors /\ err.kind = "protocol" /\ ("canceled" \in err.causes => cancelled)
  PROVE  IInv'
<1>1. /\ Common /\ command \notin Changing /\ command \notin Streaming
         /\ command \notin {"serve", "export"}
      /\ command \notin Capturing /\ command # "poll"
  BY DEF IInv, Common, Changing, Streaming, Capturing, SunSpecCommandNames, Walkers
<1>2. "probe" \in ExitsPartial
  BY DEF ExitsPartial
<1>3. QED
  BY <1>1, <1>2, CollectedKeeps

\* A step of the walk of a sunspec command keeps the invariant.
LEMMA SunSpecStepKeeps ==
  ASSUME IInv, stage = "collect", command \in SunSpecCommandNames, link = "open",
         NEW place \in {"functions", "detect", "headers"}, GoOn(place), place = "functions" => command = "probe",
         requests' \in 0 .. 2, missed' \in BOOLEAN, embedded' = missed', missed' => command = "probe"
  PROVE  IInv'
<1>1. /\ UNCHANGED <<flags, stage, cancelled, outcome>> /\ UNCHANGED <<link, capture>>
         /\ UNCHANGED <<stage, command>>
      /\ sunspecAt' = place
  BY DEF GoOn, flags
<1>2. /\ Common /\ command \notin Changing /\ command \notin {"serve", "export"} /\ capture = "none"
      /\ command \notin Capturing
  BY DEF IInv, Common, LinkInv, Changing, Capturing, SunSpecCommandNames, Walkers
<1>3. Common'
  BY <1>1, <1>2, GoesOnKeeps
<1>4. SunSpecInv'
  BY <1>1 DEF SunSpecInv
<1>5. QED
  BY <1>1, <1>3, <1>4, SunSpecGoesOn

\* The headers are like the detection: a failure ends the command or is embedded.
LEMMA SunSpecFailureKeeps ==
  ASSUME IInv, stage = "collect", command \in SunSpecCommandNames, link = "open",
         NEW err \in CallErrors, Sent(err),
         IF command = "probe" THEN embedded' = Embeds(TRUE) /\ Ends(NoError, embedded')
         ELSE UNCHANGED embedded /\ Ends(New("protocol", err), FALSE)
  PROVE  IInv'
<1>1. requests \in 0 .. 2 /\ missed \in BOOLEAN /\ "protocol" \in Kinds
  BY DEF IInv, TypeInv, Kinds
<1>2. err \in Errors /\ err # NoError /\ ("canceled" \in err.causes => cancelled)
  BY DeviceErrors, ErrorsAreErrors
<1>3. requests' \in 0 .. 2 /\ missed' = (missed \/ err # NoError)
  BY <1>1, SentFacts
<1>4. missed' = TRUE
  BY <1>2, <1>3, Zenon
<1>5. CASE command = "probe"
  <2>1. PICK error : error = NoError
    OBVIOUS
  <2>2. PICK failed \in BOOLEAN : failed = TRUE
    OBVIOUS
  <2>3. embedded' = TRUE /\ Ends(NoError, embedded')
    BY <1>5 DEF Embeds
  <2>4. Collected(error, failed)
    BY <2>1, <2>2, <2>3 DEF Ends
  <2>5. QED
    BY <1>3, <1>4, <1>5, <2>1, <2>2, <2>4, SunSpecEndsKeeps
<1>6. CASE command # "probe"
  <2>1. PICK error : error = New("protocol", err)
    OBVIOUS
  <2>2. error \in Errors /\ error.kind = "protocol" /\ error # NoError /\ ("canceled" \in error.causes => cancelled)
    BY <1>1, <1>2, <2>1, NewErrors, ErrorsAreErrors
  <2>3. Collected(error, FALSE)
    BY <1>6, <2>1 DEF Ends
  <2>4. missed' \in BOOLEAN
    BY <1>4
  <2>5. QED
    BY <1>3, <2>2, <2>3, <2>4, SunSpecEndsKeeps
<1>7. QED
  BY <1>5, <1>6

\* Every step of the sunspec commands keeps the invariant.
LEMMA SunSpecKeeps ==
  ASSUME IInv, SunSpecCommand
  PROVE  IInv'
<1>1. stage = "collect" /\ command \in SunSpecCommandNames
  BY DEF SunSpecCommand, openSunSpecModbusClient, ProbeFunction, Detect, ReadModelHeaders,
    SunSpecAt, Collecting
<1>2. /\ Common /\ requests \in 0 .. 2 /\ missed \in BOOLEAN /\ embedded \in BOOLEAN
      /\ link \in {"none", "open"} /\ (sunspecAt = "connect" <=> link = "none")
      /\ embedded <=> missed
      /\ link = "none" => ~missed
      /\ command # "probe" => ~missed /\ sunspecAt # "functions"
  BY <1>1 DEF IInv, Common, TypeInv, LinkInv, SunSpecInv, Running
<1>3. ASSUME Sent(NoError), UNCHANGED embedded
      PROVE  requests' \in 0 .. 2 /\ missed' = missed /\ embedded' = missed'
  <2>1. PICK e : e = NoError
    OBVIOUS
  <2>2. requests' \in 0 .. 2 /\ missed' = (missed \/ e # NoError)
    BY <1>2, <1>3, <2>1, SentFacts
  <2>3. missed' = missed
    BY <1>2, <2>1, <2>2, Zenon
  <2>4. embedded = missed
    BY <1>2
  <2>5. QED
    BY <1>3, <2>2, <2>3, <2>4
<1>4. ASSUME openSunSpecModbusClient PROVE IInv'
  <2>1. /\ Connect /\ UNCHANGED embedded /\ link = "none"
        /\ sunspecAt' \in {"functions", "detect", "headers"}
        /\ command # "probe" => sunspecAt' # "functions"
    BY <1>2, <1>4 DEF openSunSpecModbusClient, Connect
  <2>2. CASE link' = "open" /\ Common'
             /\ UNCHANGED <<flags, stage, cancelled, outcome, capture, requests, missed>>
    <3>1. UNCHANGED <<command, missed>>
      BY <2>2 DEF flags
    <3>2. SunSpecInv'
      BY <1>2, <2>1, <2>2, <3>1 DEF SunSpecInv
    <3>3. QED
      BY <1>1, <2>2, <3>1, <3>2, SunSpecGoesOn
  <2>3. command \notin {"serve", "export"}
    BY <1>1 DEF SunSpecCommandNames, Walkers
  <2>4. QED
    BY <1>1, <1>2, <2>1, <2>2, <2>3, ConnectKeeps
<1>5. ASSUME ProbeFunction PROVE IInv'
  <2>1. /\ sunspecAt = "functions" /\ link = "open" /\ command = "probe"
    BY <1>2, <1>5 DEF ProbeFunction, SunSpecAt
  <2>2. PICK err \in CallErrors \cup {NoError} : Sent(err) /\ embedded' = Embeds(err # NoError)
    BY <1>5 DEF ProbeFunction
  <2>3. PICK place : place = IF probed' = ProbedFunctions THEN "detect" ELSE "functions"
    OBVIOUS
  <2>4. place \in {"functions", "detect", "headers"} /\ GoOn(place)
    BY <1>5, <2>3 DEF ProbeFunction
  <2>5. requests' \in 0 .. 2 /\ missed' = (missed \/ err # NoError)
    BY <1>2, <2>2, SentFacts
  <2>6. embedded' = (embedded \/ err # NoError)
    BY <2>2 DEF Embeds
  <2>7. embedded = missed
    BY <1>2
  <2>8. missed' \in BOOLEAN /\ embedded' = missed'
    BY <2>5, <2>6, <2>7, Zenon
  <2>9. QED
    BY <1>1, <2>1, <2>4, <2>5, <2>8, SunSpecStepKeeps
<1>6. ASSUME SunSpecAt("detect") \/ SunSpecAt("headers"), Sent(NoError), UNCHANGED embedded,
             Ends(NoError, embedded)
      PROVE  IInv'
  <2>1. link = "open"
    BY <1>2, <1>6 DEF SunSpecAt
  <2>2. PICK err : err = NoError
    OBVIOUS
  <2>3. PICK failed \in BOOLEAN : failed = embedded
    BY <1>2
  <2>4. Collected(err, failed)
    BY <1>6, <2>2, <2>3 DEF Ends
  <2>5. requests' \in 0 .. 2 /\ missed' \in BOOLEAN /\ (missed' <=> failed) /\ (failed => command = "probe")
    BY <1>2, <1>3, <1>6, <2>3
  <2>6. QED
    BY <1>1, <2>2, <2>1, <2>3, <2>4, <2>5, SunSpecEndsKeeps
<1>7. ASSUME Detect PROVE IInv'
  <2>1. SunSpecAt("detect") /\ link = "open"
    BY <1>2, <1>7 DEF Detect, SunSpecAt
  <2>2. ASSUME Sent(NoError), UNCHANGED embedded, command = "detect", Ends(NoError, FALSE)
        PROVE  IInv'
    <3>1. PICK err : err = NoError
      OBVIOUS
    <3>2. PICK failed \in BOOLEAN : failed = FALSE
      OBVIOUS
    <3>3. Collected(err, failed)
      BY <2>2, <3>1, <3>2 DEF Ends
    <3>4. requests' \in 0 .. 2 /\ missed' \in BOOLEAN /\ (missed' <=> failed) /\ ~failed
      BY <1>2, <1>3, <2>2, <3>2
    <3>5. QED
      BY <1>1, <2>1, <3>1, <3>2, <3>3, <3>4, SunSpecEndsKeeps
  <2>3. ASSUME Sent(NoError), UNCHANGED embedded, GoOn("headers")
        PROVE  IInv'
    <3>1. requests' \in 0 .. 2 /\ missed' \in BOOLEAN /\ embedded' = missed' /\ (missed' => command = "probe")
      BY <1>2, <1>3, <2>3
    <3>2. PICK place \in {"functions", "detect", "headers"} : place = "headers"
      OBVIOUS
    <3>3. QED
      BY <1>1, <2>1, <2>3, <3>1, <3>2, SunSpecStepKeeps
  <2>4. QED
    BY <1>1, <1>6, <1>7, <2>1, <2>2, <2>3, SunSpecFailureKeeps DEF Detect
<1>8. ASSUME ReadModelHeaders PROVE IInv'
  <2>1. SunSpecAt("headers") /\ link = "open"
    BY <1>2, <1>8 DEF ReadModelHeaders, SunSpecAt
  <2>2. QED
    BY <1>1, <1>6, <1>8, <2>1, SunSpecFailureKeeps DEF ReadModelHeaders
<1>9. QED
  BY <1>4, <1>5, <1>7, <1>8 DEF SunSpecCommand
-----------------------------------------------------------------------------
(* client poll.                                                            *)

\* A poll that failed adds one to the failures, one that did not adds none.
LEMMA FailuresGrow ==
  ASSUME NEW S, NEW samples \in Seq(S), NEW s \in S
  PROVE  Cardinality(Failures(Append(samples, s))) =
           Cardinality(Failures(samples)) + (IF s # "none" THEN 1 ELSE 0)
<1> DEFINE more == Append(samples, s)
<1>1. /\ DOMAIN more = 1 .. (Len(samples) + 1) /\ DOMAIN samples = 1 .. Len(samples)
         /\ Len(samples) \in Nat
      /\ \A i \in 1 .. Len(samples) : more[i] = samples[i]
      /\ more[Len(samples) + 1] = s
  OBVIOUS
<1> HIDE DEF more
<1>2. Failures(more) = IF s # "none" THEN Failures(samples) \cup {Len(samples) + 1} ELSE Failures(samples)
  BY <1>1 DEF Failures
<1>3. IsFiniteSet(Failures(samples)) /\ Len(samples) + 1 \notin Failures(samples)
  <2>1. IsFiniteSet(1 .. Len(samples)) /\ Failures(samples) \subseteq 1 .. Len(samples)
    BY <1>1, FS_Interval DEF Failures
  <2>2. QED
    BY <1>1, <2>1, FS_Subset
<1>4. Cardinality(Failures(samples)) \in Nat
  BY <1>3, FS_CardinalityType
<1>5. CASE s = "none"
  BY <1>2, <1>4, <1>5 DEF more
<1>6. CASE s # "none"
  <2>1. Cardinality(Failures(samples) \cup {Len(samples) + 1}) = Cardinality(Failures(samples)) + 1
    BY <1>3, FS_AddElement
  <2>2. QED
    BY <1>2, <1>6, <2>1 DEF more
<1>7. QED
  BY <1>5, <1>6

Summaries == [polls : Nat, succeeded : Nat, failed : Nat, interrupted : BOOLEAN]

\* poll goes on when its own part of the invariant holds.
LEMMA PollGoesOn ==
  ASSUME Common', command' = "poll", PollInv'
  PROVE  IInv'
BY DEF IInv, Common, RecordInv, SingleInv, FingerprintInv, SunSpecInv, AskingOnce,
  SunSpecCommandNames, Walkers

\* A poll that goes on leaves the rest of the command alone.
LEMMA PollStepIsCommon ==
  ASSUME IInv, stage = "collect", command = "poll", link = "open",
         UNCHANGED <<flags, stage, cancelled, outcome, link, capture>>,
         requests' \in 0 .. 2, missed' \in BOOLEAN
  PROVE  Common' /\ stage' = "collect" /\ command' = "poll" /\ link' = "open"
<1>1. UNCHANGED <<flags, stage, cancelled, outcome>> /\ UNCHANGED <<link, capture>>
      /\ UNCHANGED <<stage, command>>
  BY DEF flags
<1>2. /\ Common /\ command \notin Changing /\ command \notin {"serve", "export"} /\ capture = "none"
      /\ command \notin Capturing
  BY DEF IInv, Common, LinkInv, Changing, Capturing
<1>3. QED
  BY <1>1, <1>2, GoesOnKeeps

\* Counting and printing a finished poll keeps the invariant.
LEMMA FinishPollKeeps ==
  ASSUME IInv, stage = "collect", command = "poll", link = "open",
         NEW interrupted \in BOOLEAN, FinishPoll(interrupted),
         requests' \in 0 .. 2, missed' \in BOOLEAN,
         summary.polls = Len(emitted'), summary.failed = Cardinality(Failures(emitted')),
         \A i \in DOMAIN emitted' : emitted'[i] # "interrupted",
         summary.failed > 0 => missed',
         interrupted => cancelled,
         ~interrupted => summary.polls = wanted /\ (missed' => summary.failed > 0)
  PROVE  IInv'
<1>1. /\ summary \in [polls : Nat, succeeded : Nat, failed : Nat, interrupted : BOOLEAN]
      /\ summary.polls = summary.succeeded + summary.failed
      /\ failure = NoError /\ stdout = {} /\ capture = "none" /\ Common
  BY DEF IInv, Common, TypeInv, LinkInv, PollInv, Running, Capturing
<1>2. /\ stage' = "done" /\ link' = "closed" /\ exitCode' = PollExit(summary')
      /\ UNCHANGED <<command, format, confirmed, cancelled, failure, partial, stdout, capture, wanted>>
  BY DEF FinishPoll, flags
<1>3. /\ summary'.polls = summary.polls /\ summary'.succeeded = summary.succeeded
      /\ summary'.failed = summary.failed /\ summary'.interrupted = interrupted
  <2>1. summary' = [summary EXCEPT !.interrupted = interrupted]
    BY DEF FinishPoll
  <2>2. QED
    BY <1>1, <2>1
<1>4. exitCode' = IF summary.failed > 0 THEN ExitPartial ELSE ExitOK
  BY <1>2, <1>3 DEF PollExit
<1>5. TypeInv' /\ LinkInv' /\ ChangeInv'
  <2>1. TypeInv'
    BY <1>1, <1>2 DEF Common, TypeInv, Stages
  <2>2. LinkInv'
    BY <1>1, <1>2 DEF LinkInv, Running
  <2>3. ChangeInv'
    BY <1>2 DEF ChangeInv, Changing
  <2>4. QED
    BY <2>1, <2>2, <2>3
<1>6. ExitCodeTells'
  BY <1>1, <1>2, <1>4 DEF ExitCodeTells, Succeeded, Done, Streaming, ExitOK, ExitPartial,
    ExitInterrupted
<1>7. WriteIsSentOnce' /\ CaptureIsFinished'
  BY <1>1, <1>2, <1>4 DEF WriteIsSentOnce, CaptureIsFinished, Succeeded, Done, ExitOK, ExitPartial
<1>8. PollsAddUp'
  <2>1. summary.failed \in Nat
    BY <1>1
  <2>2. exitCode' = ExitPartial <=> summary.failed > 0
    BY <1>4, <2>1 DEF ExitOK, ExitPartial
  <2>3. IF interrupted THEN cancelled' ELSE summary'.polls = wanted'
    BY <1>2, <1>3
  <2>4. QED
    BY <1>1, <1>3, <2>2, <2>3 DEF PollsAddUp, Failures
<1>9. QED
  BY <1>2, <1>5, <1>6, <1>7, <1>8, EndedIsCommon
  DEF Common, DoneInv, Done, FatalInv, WriteInv, Running

\* Every step of poll keeps the invariant.
LEMMA PollKeeps ==
  ASSUME IInv, Poll
  PROVE  IInv'
<1>1. stage = "collect" /\ command = "poll"
  BY DEF Poll, PollConnect, PollAgain, PollRead, PollEmit, PollSleep, Polling, Collecting
<1>2. /\ Common /\ requests \in 0 .. 2 /\ missed \in BOOLEAN /\ cancelled \in BOOLEAN
      /\ link \in {"none", "open"} /\ (pollAt = "connect" <=> link = "none")
      /\ wanted \in Nat /\ n \in Nat
      /\ pollAt \in {"connect", "loop", "read", "emit", "sleep"}
      /\ summary \in [polls : Nat, succeeded : Nat, failed : Nat, interrupted : BOOLEAN]
      /\ emitted \in Seq(Kinds \cup {"none"})
      /\ \A i \in DOMAIN emitted : emitted[i] # "interrupted"
      /\ summary.polls = summary.succeeded + summary.failed
      /\ n = IF pollAt = "sleep" THEN Len(emitted) ELSE Len(emitted) + 1
      /\ missed <=> summary.failed > 0
  BY <1>1 DEF IInv, Common, TypeInv, LinkInv, PollInv, Running
<1>3. /\ pollAt # "emit" => /\ summary.polls = Len(emitted)
                            /\ summary.failed = Cardinality(Failures(emitted))
      /\ pollAt = "emit" => /\ sample \in (Kinds \ {"interrupted"}) \cup {"none"}
                            /\ summary.polls = Len(emitted) + 1
                            /\ summary.failed = Cardinality(Failures(emitted)) + (IF sample # "none" THEN 1 ELSE 0)
  BY <1>1 DEF IInv, PollInv, Running
<1>4. ASSUME PollConnect PROVE IInv'
  <2>1. Connect /\ pollAt' = "loop" /\ pollAt = "connect"
        /\ UNCHANGED <<wanted, n, sample, summary, emitted>>
    BY <1>4 DEF PollConnect, Polling
  <2>2. CASE link' = "open" /\ Common'
             /\ UNCHANGED <<flags, stage, cancelled, outcome, capture, requests, missed>>
    <3>1. command' = "poll" /\ missed' = missed
      BY <1>1, <2>2 DEF flags
    <3>2. PollInv'
      BY <1>2, <1>3, <2>1, <2>2, <3>1 DEF PollInv, Failures
    <3>3. QED
      BY <2>2, <3>1, <3>2, PollGoesOn
  <2>3. QED
    BY <1>1, <1>2, <2>1, <2>2, ConnectKeeps
<1>5. ASSUME PollAgain PROVE IInv'
  <2>1. pollAt = "loop" /\ link = "open" /\ UNCHANGED <<requests, missed, sample, emitted>>
    BY <1>2, <1>5 DEF PollAgain, Polling
  <2>2. requests' \in 0 .. 2 /\ missed' \in BOOLEAN
    BY <1>2, <2>1
  <2>3. ASSUME cancelled, FinishPoll(TRUE) PROVE IInv'
    <3>1. PICK interrupted \in BOOLEAN : interrupted = TRUE
      OBVIOUS
    <3>2. QED
      BY <1>1, <1>2, <1>3, <2>1, <2>2, <2>3, <3>1, FinishPollKeeps
  <2>4. ASSUME Goto("read"), UNCHANGED <<wanted, n, summary>> PROVE IInv'
    <3>1. pollAt' = "read" /\ UNCHANGED <<flags, stage, cancelled, outcome, link, capture>>
      BY <2>4 DEF Goto
    <3>2. Common' /\ stage' = "collect" /\ command' = "poll" /\ link' = "open"
      BY <1>1, <2>1, <2>2, <3>1, PollStepIsCommon
    <3>3. PollInv'
      BY <1>2, <1>3, <2>1, <2>4, <3>1, <3>2 DEF PollInv, Failures
    <3>4. QED
      BY <3>2, <3>3, PollGoesOn
  <2>5. QED
    BY <1>5, <2>3, <2>4 DEF PollAgain
<1>6. ASSUME PollRead PROVE IInv'
  <2>1. pollAt = "read" /\ link = "open" /\ UNCHANGED emitted
    BY <1>2, <1>6 DEF PollRead, Polling
  <2>2. PICK err \in CallErrors \cup DialErrors \cup {NoError, InvalidInput(Plain("other"))} :
          /\ Sent(err)
          /\ IF CutShort(err) THEN FinishPoll(TRUE) /\ UNCHANGED sample
             ELSE /\ sample' = IF err = NoError THEN "none" ELSE EmbeddedErrorKind(err)
                  /\ summary' = [summary EXCEPT !.polls = @ + 1,
                                   !.failed = IF err = NoError THEN @ ELSE @ + 1,
                                   !.succeeded = IF err = NoError THEN @ + 1 ELSE @]
                  /\ Goto("emit")
                  /\ UNCHANGED <<wanted, n>>
    BY <1>6 DEF PollRead
  <2>3. requests' \in 0 .. 2 /\ missed' = (missed \/ err # NoError)
    BY <1>2, <2>2, SentFacts
  <2>4. /\ missed' \in BOOLEAN /\ (missed => missed') /\ (err # NoError => missed') /\ (err = NoError => missed' = missed)
    BY <1>2, <2>3, Zenon
  <2>5. err # NoError => /\ err \in Errors /\ err.kind \in {Untyped, "invalid_input"}
                         /\ "canceled" \in err.causes => cancelled
    <3>1. "invalid_input" \in Kinds
      BY DEF Kinds
    <3>2. QED
      BY <3>1, DeviceErrors, OtherErrors
  <2>6. CASE CutShort(err)
    <3>1. PICK interrupted \in BOOLEAN : interrupted = TRUE
      OBVIOUS
    <3>2. cancelled /\ FinishPoll(interrupted)
      BY <2>2, <2>6, <3>1 DEF CutShort
    <3>3. summary.failed > 0 => missed'
      BY <1>2, <2>4
    <3>4. QED
      BY <1>1, <1>2, <1>3, <2>1, <2>3, <2>4, <3>1, <3>2, <3>3, FinishPollKeeps
  <2>7. CASE ~CutShort(err)
    <3>1. /\ sample' = IF err = NoError THEN "none" ELSE EmbeddedErrorKind(err)
          /\ pollAt' = "emit" /\ UNCHANGED <<flags, stage, cancelled, outcome, link, capture>>
          /\ UNCHANGED <<wanted, n>>
      BY <2>2, <2>7 DEF Goto
    <3>2. Common' /\ stage' = "collect" /\ command' = "poll" /\ link' = "open"
      BY <1>1, <2>1, <2>3, <2>4, <3>1, PollStepIsCommon
    <3>3. sample' \in (Kinds \ {"interrupted"}) \cup {"none"} /\ (sample' = "none" <=> err = NoError)
      <4>1. CASE err = NoError
        BY <3>1, <4>1
      <4>2. CASE err # NoError
        <5>1. EmbeddedErrorKind(err) \in Kinds /\ EmbeddedErrorKind(err) # "interrupted"
          BY <2>5, <2>7, <4>2, EmbeddedKind DEF CutShort
        <5>2. EmbeddedErrorKind(err) # "none"
          BY <5>1 DEF Kinds
        <5>3. QED
          BY <3>1, <4>2, <5>1, <5>2
      <4>3. QED
        BY <4>1, <4>2
    <3>4. /\ summary' \in [polls : Nat, succeeded : Nat, failed : Nat, interrupted : BOOLEAN]
          /\ summary'.polls = summary.polls + 1
          /\ summary'.failed = summary.failed + (IF err = NoError THEN 0 ELSE 1)
          /\ summary'.succeeded = summary.succeeded + (IF err = NoError THEN 1 ELSE 0)
      <4>1. /\ summary \in Summaries /\ summary.polls + 1 \in Nat
            /\ summary.failed \in Nat /\ summary.failed + 1 \in Nat
            /\ summary.succeeded \in Nat /\ summary.succeeded + 1 \in Nat
        BY <1>2 DEF Summaries
      <4>2. CASE err = NoError
        <5>1. summary' = [summary EXCEPT !.polls = summary.polls + 1, !.failed = summary.failed,
                            !.succeeded = summary.succeeded + 1]
          BY <2>2, <2>7, <4>2
        <5>2. /\ summary' \in Summaries /\ summary'.polls = summary.polls + 1
              /\ summary'.failed = summary.failed /\ summary'.succeeded = summary.succeeded + 1
          BY <4>1, <5>1 DEF Summaries
        <5>3. QED
          BY <4>1, <4>2, <5>2 DEF Summaries
      <4>3. CASE err # NoError
        <5>1. summary' = [summary EXCEPT !.polls = summary.polls + 1, !.failed = summary.failed + 1,
                            !.succeeded = summary.succeeded]
          BY <2>2, <2>7, <4>3
        <5>2. /\ summary' \in Summaries /\ summary'.polls = summary.polls + 1
              /\ summary'.failed = summary.failed + 1 /\ summary'.succeeded = summary.succeeded
          BY <4>1, <5>1 DEF Summaries
        <5>3. QED
          BY <4>1, <4>3, <5>2 DEF Summaries
      <4>4. QED
        BY <4>2, <4>3
    <3>5. missed' <=> summary'.failed > 0
      <4>1. summary.failed \in Nat
        BY <1>2
      <4>2. QED
        BY <1>2, <2>4, <3>4, <4>1
    <3>6. summary'.polls = summary'.succeeded + summary'.failed
      <4>1. summary.failed \in Nat /\ summary.succeeded \in Nat /\ summary.polls \in Nat
        BY <1>2
      <4>2. QED
        BY <1>2, <3>4, <4>1
    <3>7. PollInv'
      BY <1>2, <1>3, <2>1, <3>1, <3>2, <3>3, <3>4, <3>5, <3>6 DEF PollInv, Failures
    <3>8. QED
      BY <3>2, <3>7, PollGoesOn
  <2>8. QED
    BY <2>6, <2>7
<1>7. ASSUME PollEmit PROVE IInv'
  <2>1. pollAt = "emit" /\ link = "open" /\ UNCHANGED <<requests, missed, sample>>
    BY <1>2, <1>7 DEF PollEmit, Polling
  <2>2. requests' \in 0 .. 2 /\ missed' \in BOOLEAN
    BY <1>2, <2>1
  <2>3. ASSUME Collected(Output(Plain("other")), FALSE) PROVE IInv'
    <3>1. PICK err : err = Output(Plain("other"))
      OBVIOUS
    <3>2. "output" \in Kinds
      BY DEF Kinds
    <3>3. err \in Errors /\ err.kind = "output" /\ "canceled" \notin err.causes /\ err # NoError
      BY <3>1, <3>2, OtherErrors, ErrorsAreErrors
    <3>4. command \notin Changing /\ command \notin {"serve", "export"}
      BY <1>1 DEF Changing
    <3>5. QED
      BY <1>1, <1>2, <2>1, <2>2, <2>3, <3>1, <3>3, <3>4, CollectedKeeps
  <2>4. ASSUME emitted' = Append(emitted, sample),
               IF wanted # 0 /\ n = wanted THEN FinishPoll(FALSE) ELSE Goto("sleep") /\ UNCHANGED <<wanted, n, summary>>
        PROVE  IInv'
    <3>1. sample \in Kinds \cup {"none"} /\ sample # "interrupted"
      BY <1>3, <2>1 DEF Kinds
    <3>2. Cardinality(Failures(emitted')) = summary.failed
      BY <1>2, <1>3, <2>1, <2>4, <3>1, FailuresGrow
    <3>3. /\ emitted' \in Seq(Kinds \cup {"none"}) /\ Len(emitted') = Len(emitted) + 1
          /\ DOMAIN emitted' = 1 .. (Len(emitted) + 1) /\ DOMAIN emitted = 1 .. Len(emitted)
             /\ Len(emitted) \in Nat
          /\ \A i \in 1 .. Len(emitted) : emitted'[i] = emitted[i]
          /\ emitted'[Len(emitted) + 1] = sample
      BY <1>2, <2>4, <3>1
    <3>4. \A i \in DOMAIN emitted' : emitted'[i] # "interrupted"
      <4>1. TAKE i \in DOMAIN emitted'
      <4>2. CASE i = Len(emitted) + 1
        BY <3>1, <3>3, <4>2
      <4>3. CASE i # Len(emitted) + 1
        <5>1. i \in DOMAIN emitted /\ emitted'[i] = emitted[i]
          BY <3>3, <4>3
        <5>2. QED
          BY <1>2, <5>1
      <4>4. QED
        BY <4>2, <4>3
    <3>5. summary.polls = Len(emitted') /\ n = Len(emitted')
      BY <1>2, <1>3, <2>1, <3>3
    <3>6. CASE wanted # 0 /\ n = wanted
      <4>1. PICK interrupted \in BOOLEAN : interrupted = FALSE
        OBVIOUS
      <4>2. FinishPoll(interrupted)
        BY <2>4, <3>6, <4>1
      <4>3. (summary.failed > 0 => missed') /\ (missed' => summary.failed > 0)
        BY <1>2, <2>1
      <4>4. QED
        BY <1>1, <2>1, <2>2, <3>2, <3>4, <3>5, <3>6, <4>1, <4>2, <4>3, FinishPollKeeps
    <3>7. CASE ~(wanted # 0 /\ n = wanted)
      <4>1. /\ pollAt' = "sleep" /\ UNCHANGED <<flags, stage, cancelled, outcome, link, capture>>
            /\ UNCHANGED <<wanted, n, summary>>
        BY <2>4, <3>7 DEF Goto
      <4>2. Common' /\ stage' = "collect" /\ command' = "poll" /\ link' = "open"
        BY <1>1, <2>1, <2>2, <4>1, PollStepIsCommon
      <4>3. PollInv'
        BY <1>2, <2>1, <3>2, <3>3, <3>4, <3>5, <4>1, <4>2 DEF PollInv
      <4>4. QED
        BY <4>2, <4>3, PollGoesOn
    <3>8. QED
      BY <3>6, <3>7
  <2>5. QED
    BY <1>7, <2>3, <2>4 DEF PollEmit
<1>8. ASSUME PollSleep PROVE IInv'
  <2>1. pollAt = "sleep" /\ link = "open" /\ UNCHANGED <<requests, missed, sample, emitted>>
    BY <1>2, <1>8 DEF PollSleep, Polling
  <2>2. requests' \in 0 .. 2 /\ missed' \in BOOLEAN
    BY <1>2, <2>1
  <2>3. ASSUME cancelled, FinishPoll(TRUE) PROVE IInv'
    <3>1. PICK interrupted \in BOOLEAN : interrupted = TRUE
      OBVIOUS
    <3>2. QED
      BY <1>1, <1>2, <1>3, <2>1, <2>2, <2>3, <3>1, FinishPollKeeps
  <2>4. ASSUME n' = n + 1, Goto("loop"), UNCHANGED <<wanted, summary>> PROVE IInv'
    <3>1. pollAt' = "loop" /\ UNCHANGED <<flags, stage, cancelled, outcome, link, capture>>
      BY <2>4 DEF Goto
    <3>2. Common' /\ stage' = "collect" /\ command' = "poll" /\ link' = "open"
      BY <1>1, <2>1, <2>2, <3>1, PollStepIsCommon
    <3>3. PollInv'
      BY <1>2, <1>3, <2>1, <2>4, <3>1, <3>2 DEF PollInv, Failures
    <3>4. QED
      BY <3>2, <3>3, PollGoesOn
  <2>5. QED
    BY <1>8, <2>3, <2>4 DEF PollSleep
<1>9. QED
  BY <1>4, <1>5, <1>6, <1>7, <1>8 DEF Poll
-----------------------------------------------------------------------------
(* The whole program.                                                      *)

\* The invariant holds when the command line has been parsed.
LEMMA InitIsInv == Init => IInv
<1> SUFFICES ASSUME Init PROVE IInv
  OBVIOUS
<1> USE DEF Init, InitInvocation
<1>1. Common
  <2>1. TypeInv
    <3>1. cancelled \in BOOLEAN /\ partial \in BOOLEAN /\ missed \in BOOLEAN
      BY Zenon
    <3>2. QED
      BY <3>1 DEF TypeInv, Stages
  <2>2. LinkInv
    BY DEF LinkInv, Running
  <2>3. ChangeInv /\ FatalInv /\ WriteInv /\ DoneInv
    BY DEF ChangeInv, FatalInv, WriteInv, DoneInv, Done
  <2>4. QED
    BY <2>1, <2>2, <2>3 DEF Common
<1>2. RecordInv /\ SingleInv
  BY DEF InitRecord, RecordInv, SingleInv
<1>3. FingerprintInv
  <2>1. EmptyRow \in UnitRow /\ EmptyRow.error = "none"
    BY DEF EmptyRow, UnitRow
  <2>2. QED
    BY <2>1 DEF InitFingerprint, FingerprintInv
<1>4. SunSpecInv
  BY DEF InitSunSpecCommand, SunSpecInv
<1>5. PollInv
  <2>1. Cardinality(Failures(<<>>)) = 0
    BY FS_EmptySet DEF Failures
  <2>2. wanted \in Nat
    BY PollAssumption DEF InitPoll
  <2>3. /\ summary \in [polls : Nat, succeeded : Nat, failed : Nat, interrupted : BOOLEAN]
        /\ summary.polls = 0 /\ summary.succeeded = 0 /\ summary.failed = 0
    BY DEF InitPoll
  <2>4. QED
    BY <2>1, <2>2, <2>3 DEF InitPoll, PollInv
<1>6. QED
  BY <1>1, <1>2, <1>3, <1>4, <1>5 DEF IInv, Common

\* A step that changes nothing keeps the invariant.
LEMMA StutterKeeps ==
  ASSUME IInv, UNCHANGED vars
  PROVE  IInv'
<1>1. /\ UNCHANGED <<command, format, confirmed, stage, cancelled, failure, partial, stdout, exitCode,
                     link, capture, requests, missed>>
      /\ UNCHANGED <<pollVars, recordVars, fingerprintVars, sunspecCommandVars>>
  BY DEF vars, invocationVars, flags, outcome, device
<1>2. TypeInv' /\ LinkInv' /\ ChangeInv' /\ FatalInv' /\ WriteInv'
  BY <1>1 DEF IInv, TypeInv, LinkInv, ChangeInv, FatalInv, Blamed, WriteInv
<1>3. DoneInv'
  BY <1>1 DEF IInv, DoneInv, ExitCodeTells, WriteIsSentOnce, CaptureIsFinished, PollsAddUp,
    Done, Succeeded, pollVars
<1>4. RecordInv' /\ SingleInv'
  BY <1>1 DEF IInv, RecordInv, SingleInv, recordVars
<1>5. FingerprintInv' /\ SunSpecInv'
  BY <1>1 DEF IInv, FingerprintInv, SunSpecInv, fingerprintVars, sunspecCommandVars
<1>6. PollInv'
  BY <1>1 DEF IInv, PollInv, Failures, pollVars
<1>7. QED
  BY <1>2, <1>3, <1>4, <1>5, <1>6 DEF IInv

\* A signal, and the clock of record.
LEMMA SignalKeeps ==
  ASSUME IInv, Signal
  PROVE  IInv'
<1>1. /\ UNCHANGED <<command, format, confirmed, stage, failure, partial, stdout, exitCode,
                     link, capture, requests, missed>>
      /\ UNCHANGED <<pollVars, recordVars, fingerprintVars, sunspecCommandVars>>
      /\ cancelled' = TRUE /\ stage # "done" /\ ~cancelled
  BY DEF Signal, Interrupt, ownVars, flags, outcome, device
<1>2. TypeInv' /\ LinkInv' /\ ChangeInv' /\ WriteInv'
  BY <1>1 DEF IInv, TypeInv, LinkInv, ChangeInv, WriteInv
<1>3. FatalInv' /\ DoneInv'
  BY <1>1 DEF IInv, FatalInv, Blamed, DoneInv, Done
<1>4. RecordInv' /\ SingleInv'
  BY <1>1 DEF IInv, RecordInv, SingleInv, recordVars
<1>5. FingerprintInv' /\ SunSpecInv'
  BY <1>1 DEF IInv, FingerprintInv, SunSpecInv, fingerprintVars, sunspecCommandVars
<1>6. PollInv'
  BY <1>1 DEF IInv, PollInv, Failures, pollVars
<1>7. QED
  BY <1>2, <1>3, <1>4, <1>5, <1>6 DEF IInv

\* The clock and the interrupt keep the invariant.
LEMMA ClockKeeps ==
  ASSUME IInv, Clock
  PROVE  IInv'
<1>1. UNCHANGED invocationVars /\ command = "record" /\ UNCHANGED recordAt
  BY DEF Clock, TimePasses, Collecting
<1>2. UNCHANGED <<command, format, confirmed, stage, cancelled, failure, partial, stdout, exitCode,
                  link, capture, requests, missed>>
  BY <1>1 DEF invocationVars, flags, outcome, device
<1>3. stage = "collect"
  BY DEF Clock, TimePasses, Collecting
<1>4. Common'
  BY <1>2, <1>3 DEF IInv, Common, TypeInv, LinkInv, ChangeInv, FatalInv, WriteInv, DoneInv, Done
<1>5. RecordInv'
  BY <1>1, <1>2 DEF IInv, RecordInv
<1>6. QED
  BY <1>1, <1>2, <1>4, <1>5, RecordGoesOn

\* Every step of a command keeps the invariant.
LEMMA NextKeeps == IInv /\ [Next]_vars => IInv'
<1> SUFFICES ASSUME IInv, [Next]_vars PROVE IInv'
  OBVIOUS
<1>1. CASE Step
  <2>1. ASSUME Pipeline \/ AskOnce \/ Simple, UNCHANGED ownVars PROVE IInv'
    BY <2>1, PipelineKeeps, AskOnceKeeps, SimpleKeeps
  <2>2. QED
    BY <1>1, <2>1, PollKeeps, RecordKeeps, FingerprintKeeps, SunSpecKeeps, DiscoverKeeps DEF Step
<1>2. CASE Clock
  BY <1>2, ClockKeeps
<1>3. CASE Signal
  BY <1>3, SignalKeeps
<1>4. CASE Exited \/ UNCHANGED vars
  BY <1>4, StutterKeeps DEF Exited
<1>5. QED
  BY <1>1, <1>2, <1>3, <1>4 DEF Next

\* The invariant holds of every run of every command.
THEOREM CommandsInvariant == Spec => []IInv
BY InitIsInv, NextKeeps, PTL DEF Spec

\* The exit code says what became of the result (runner.go and exitcode.go): 0
\* and 7 only with the result, 7 only when something in it failed, 130 only
\* after a signal, and a fatal error is an envelope when JSON is asked for.
THEOREM ExitCodeTellsTheorem == Spec => []ExitCodeTells
<1>1. IInv => ExitCodeTells
  BY DEF IInv, DoneInv, ExitCodeTells
<1>2. QED
  BY <1>1, CommandsInvariant, PTL

\* A write is sent once, and only when it was confirmed (write.go); a command
\* that is refused has sent nothing and left no capture.
THEOREM WriteIsSentOnceTheorem == Spec => []WriteIsSentOnce
<1>1. IInv => WriteIsSentOnce
  BY DEF IInv, ChangeInv, Changing, DoneInv, WriteIsSentOnce
<1>2. QED
  BY <1>1, CommandsInvariant, PTL

\* Whatever way a command ends, a signal included, the link is closed and the
\* capture is finished; one that reports success has left a whole capture.
THEOREM CaptureIsFinishedTheorem == Spec => []CaptureIsFinished
<1>1. IInv => CaptureIsFinished
  BY DEF IInv, LinkInv, DoneInv, Done, CaptureIsFinished, Succeeded
<1>2. QED
  BY <1>1, CommandsInvariant, PTL

\* The counters of poll are those of the samples on its stream (poll.go), for
\* any number of polls, wherever a signal comes.
THEOREM PollsAddUpTheorem == Spec => []PollsAddUp
<1>1. IInv => PollsAddUp
  BY DEF IInv, DoneInv, PollsAddUp
<1>2. QED
  BY <1>1, CommandsInvariant, PTL
-----------------------------------------------------------------------------
(* discover: the walk over the subnets and the pool that asks the hosts.   *)

\* A non-empty set of natural numbers has a least element.
LEMMA LeastElement ==
  ASSUME NEW S, S \subseteq Nat, S # {}
  PROVE  \E x \in S : \A m \in S : x <= m
<1>1. PICK x \in S : \A m \in S : <<m, x>> \notin OpToRel(<, Nat)
  BY NatLessThanWellFounded, WFMin
<1>2. \A m \in S : ~(m < x)
  BY <1>1 DEF OpToRel
<1>3. \A m \in S : x <= m
  BY <1>2
<1>4. QED
  BY <1>3

\* Induction over the natural numbers, for a set.
LEMMA SetInduction ==
  ASSUME NEW T, 0 \in T, \A x \in Nat : x \in T => x + 1 \in T
  PROVE  Nat \subseteq T
<1> SUFFICES ASSUME Nat \ T # {} PROVE FALSE
  OBVIOUS
<1>1. PICK x \in Nat \ T : \A m \in Nat \ T : x <= m
  <2>1. Nat \ T \subseteq Nat
    OBVIOUS
  <2>2. QED
    BY <2>1, LeastElement
<1>2. x # 0 /\ x - 1 \in Nat /\ x - 1 < x
  OBVIOUS
<1>3. x - 1 \in T
  BY <1>1, <1>2
<1>4. QED
  BY <1>2, <1>3

\* The powers of two up to the width of an address.
LEMMA PowersAre ==
  /\ PowerOf2[0] = 1
  /\ \A x \in 1 .. Width : PowerOf2[x] = 2 * PowerOf2[x - 1]
<1> DEFINE Upto(m, f) == [x \in 0 .. m |-> IF x = 0 THEN 1 ELSE 2 * f[x - 1]]
           T == {m \in Nat : \E f : f = Upto(m, f)}
<1>1. 0 \in T
  <2>1. PICK f : f = [x \in 0 .. 0 |-> 1]
    OBVIOUS
  <2>2. f = Upto(0, f)
    BY <2>1
  <2>3. QED
    BY <2>2
<1>2. ASSUME NEW m \in Nat, m \in T PROVE m + 1 \in T
  <2>1. PICK f : f = Upto(m, f)
    BY <1>2
  <2>2. PICK g : g = [x \in 0 .. m + 1 |-> IF x = 0 THEN 1 ELSE 2 * f[x - 1]]
    OBVIOUS
  <2>3. \A x \in 0 .. m : g[x] = f[x]
    <3>1. \A x \in 0 .. m : x \in 0 .. m + 1
      OBVIOUS
    <3>2. QED
      BY <2>1, <2>2, <3>1
  <2>4. \A x \in 0 .. m + 1 : x # 0 => x - 1 \in 0 .. m
    OBVIOUS
  <2>5. g = Upto(m + 1, g)
    BY <2>2, <2>3, <2>4
  <2> HIDE DEF Upto
  <2>6. QED
    BY <2>5
<1>3. \E f : f = Upto(Width, f)
  <2>1. Width \in T
    <3> HIDE DEF T
    <3>1. QED
      BY <1>1, <1>2, SetInduction, WidthAssumption
  <2>2. QED
    BY <2>1
<1>4. PowerOf2 = CHOOSE f : f = Upto(Width, f)
  BY DEF PowerOf2
<1> HIDE DEF Upto
<1>5. PowerOf2 = Upto(Width, PowerOf2)
  BY <1>3, <1>4
<1>6. \A m : Upto(Width, m) = [x \in 0 .. Width |-> IF x = 0 THEN 1 ELSE 2 * m[x - 1]]
  BY DEF Upto
<1>7. PowerOf2 = [x \in 0 .. Width |-> IF x = 0 THEN 1 ELSE 2 * PowerOf2[x - 1]]
  BY <1>5, <1>6
<1> HIDE DEF PowerOf2
<1>8. PICK f : f = PowerOf2
  OBVIOUS
<1>9. f = [x \in 0 .. Width |-> IF x = 0 THEN 1 ELSE 2 * f[x - 1]]
  BY <1>7, <1>8
<1>10. f[0] = 1 /\ \A x \in 1 .. Width : f[x] = 2 * f[x - 1]
  <2>1. 0 \in 0 .. Width /\ \A x \in 1 .. Width : x \in 0 .. Width /\ x # 0
    BY WidthAssumption
  <2>2. \A x \in 0 .. Width : f[x] = IF x = 0 THEN 1 ELSE 2 * f[x - 1]
    BY <1>9, Zenon
  <2>3. QED
    BY <2>1, <2>2
<1>11. QED
  BY <1>8, <1>10

\* A power of two is positive, and twice as large ones divide what it divides.
LEMMA PowersDivide ==
  ASSUME NEW m \in 0 .. Width
  PROVE  /\ PowerOf2[m] \in Nat \ {0}
         /\ \A k \in Nat : m + k <= Width =>
              \E q \in Nat \ {0} : PowerOf2[m + k] = q * PowerOf2[m] /\ (k > 0 => q > 1)
<1> DEFINE P == {x \in Nat : x <= Width => PowerOf2[x] \in Nat \ {0}}
           Q == {k \in Nat : m + k <= Width =>
                   \E q \in Nat \ {0} : PowerOf2[m + k] = q * PowerOf2[m] /\ (k > 0 => q > 1)}
<1>1. 0 \in P
  BY PowersAre
<1>2. ASSUME NEW x \in Nat, x \in P PROVE x + 1 \in P
  <2> SUFFICES ASSUME x + 1 <= Width PROVE PowerOf2[x + 1] \in Nat \ {0}
    OBVIOUS
  <2>1. x + 1 \in 1 .. Width /\ (x + 1) - 1 = x /\ x <= Width
    BY WidthAssumption
  <2>2. PowerOf2[x + 1] = 2 * PowerOf2[x] /\ PowerOf2[x] \in Nat \ {0}
    BY <1>2, <2>1, PowersAre
  <2>3. QED
    BY <2>2
<1>3. \A x \in 0 .. Width : PowerOf2[x] \in Nat \ {0}
  <2>1. Nat \subseteq P
    <3> HIDE DEF P
    <3>1. QED
      BY <1>1, <1>2, SetInduction
  <2>2. QED
    BY <2>1, WidthAssumption
<1>4. 0 \in Q
  <2>1. m + 0 = m /\ PowerOf2[m] \in Nat \ {0}
    BY <1>3
  <2>2. PowerOf2[m + 0] = 1 * PowerOf2[m] /\ 1 \in Nat \ {0}
    BY <2>1
  <2>3. QED
    BY <2>2
<1>5. ASSUME NEW k \in Nat, k \in Q PROVE k + 1 \in Q
  <2> SUFFICES ASSUME m + (k + 1) <= Width
               PROVE  \E q \in Nat \ {0} : PowerOf2[m + (k + 1)] = q * PowerOf2[m] /\ (k + 1 > 0 => q > 1)
    OBVIOUS
  <2>1. m + (k + 1) \in 1 .. Width /\ (m + (k + 1)) - 1 = m + k /\ m + k <= Width
    BY WidthAssumption
  <2>2. PICK q \in Nat \ {0} : PowerOf2[m + k] = q * PowerOf2[m]
    BY <1>5, <2>1
  <2>3. PowerOf2[m + (k + 1)] = 2 * PowerOf2[m + k]
    BY <2>1, PowersAre
  <2>4. PowerOf2[m] \in Nat
    BY <1>3
  <2>5. PowerOf2[m + (k + 1)] = (2 * q) * PowerOf2[m] /\ 2 * q > 1 /\ 2 * q \in Nat \ {0}
    BY <2>2, <2>3, <2>4
  <2>6. QED
    BY <2>5
<1>6. Nat \subseteq Q
  <2> HIDE DEF Q
  <2>1. QED
    BY <1>4, <1>5, SetInduction
<1>7. QED
  BY <1>3, <1>6

\* Dividing by s tells the block of s numbers that a number lies in.
LEMMA BlockOf ==
  ASSUME NEW s \in Nat \ {0}, NEW k \in Nat, NEW x \in Nat
  PROVE  x \div s = k <=> k * s <= x /\ x < k * s + s
<1>1. PICK q, r : q = x \div s /\ r = x % s
  OBVIOUS
<1>2. q \in Nat /\ r \in 0 .. s - 1 /\ x = q * s + r
  BY <1>1
<1>3. CASE q = k
  BY <1>1, <1>2, <1>3
<1>4. CASE q >= k + 1
  <2>1. q * s >= (k + 1) * s
    BY <1>2, <1>4
  <2>2. (k + 1) * s = k * s + s /\ k * s \in Nat
    OBVIOUS
  <2>3. x >= k * s + s
    BY <1>2, <2>1, <2>2
  <2>4. QED
    BY <1>1, <1>4, <2>2, <2>3
<1>5. CASE q + 1 <= k
  <2>1. (q + 1) * s <= k * s
    BY <1>2, <1>5
  <2>2. (q + 1) * s = q * s + s /\ q * s \in Nat /\ k * s \in Nat
    BY <1>2
  <2>3. x < k * s
    BY <1>2, <2>1, <2>2
  <2>4. QED
    BY <1>1, <1>2, <1>5, <2>2, <2>3
<1>6. QED
  BY <1>2, <1>3, <1>4, <1>5

\* The number of addresses.
Space == PowerOf2[Width]

\* A subnet that is not a /0 lies in the address space and is not the whole of
\* it, so the walk leaves it also where its last address is the last of all.
LEMMA SubnetLies ==
  ASSUME NEW c \in Cidrs, ~Endless(c)
  PROVE  /\ Space \in Nat \ {0} /\ Addresses = 0 .. Space - 1
         /\ Size(c) \in Nat \ {0} /\ c.first \in Nat
         /\ c.first + Size(c) <= Space
         /\ c.first + Size(c) = Space => c.first > 0
         /\ \A ip \in Addresses : Contains(c, ip) <=> c.first <= ip /\ ip < c.first + Size(c)
<1>1. /\ Width \in Nat \ {0} /\ c.bits \in 1 .. Width /\ c.first \in Addresses
         /\ c.first % Size(c) = 0
  BY WidthAssumption DEF Cidrs, Endless
<1>2. Width - c.bits \in 0 .. Width /\ (Width - c.bits) + c.bits = Width /\ c.bits > 0
  BY <1>1
<1>3. PICK s, f : s = Size(c) /\ f = c.first
  OBVIOUS
<1>4. s \in Nat \ {0} /\ \E q \in Nat \ {0} : Space = q * s /\ q > 1
  <2>1. PICK m \in 0 .. Width : m = Width - c.bits
    BY <1>2
  <2>2. PowerOf2[m] \in Nat \ {0}
    BY PowersDivide
  <2>3. \E q \in Nat \ {0} : PowerOf2[m + c.bits] = q * PowerOf2[m] /\ q > 1
    BY <1>1, <1>2, <2>1, PowersDivide
  <2>4. PowerOf2[m + c.bits] = Space /\ PowerOf2[m] = s
    BY <1>2, <1>3, <2>1 DEF Space, Size
  <2>5. QED
    BY <2>2, <2>3, <2>4
<1>5. PICK q \in Nat \ {0} : Space = q * s /\ q > 1
  BY <1>4
<1>6. Space \in Nat \ {0}
  BY <1>4, <1>5
<1>7. Addresses = 0 .. Space - 1 /\ f \in Nat /\ f < Space
  BY <1>1, <1>3, <1>6 DEF Addresses, Space
<1>8. PICK k : k = f \div s
  OBVIOUS
<1>9. k \in Nat /\ f = k * s
  <2>1. PICK r : r = f % s
    OBVIOUS
  <2>2. r = 0
    BY <1>1, <1>3, <2>1
  <2>3. k \in Nat /\ f = k * s + r
    BY <1>4, <1>7, <1>8, <2>1
  <2>4. QED
    BY <1>4, <2>2, <2>3
<1>10. k < q
  <2>1. CASE k >= q
    <3>1. k * s >= q * s
      BY <1>4, <1>5, <1>9, <2>1
    <3>2. QED
      BY <1>5, <1>7, <1>9, <3>1, <1>4
  <2>2. QED
    BY <1>9, <2>1
<1>11. f + s <= Space
  <2>1. (k + 1) * s <= q * s
    BY <1>4, <1>5, <1>9, <1>10
  <2>2. (k + 1) * s = k * s + s
    BY <1>4, <1>9
  <2>3. QED
    BY <1>5, <1>9, <2>1, <2>2
<1>12. f + s = Space => f > 0
  <2>1. SUFFICES ASSUME f = 0 PROVE s # Space
    BY <1>7, <1>4
  <2>2. q * s >= 2 * s
    BY <1>4, <1>5
  <2>3. QED
    BY <1>4, <1>5, <2>2
<1>13. ASSUME NEW ip \in Addresses PROVE Contains(c, ip) <=> f <= ip /\ ip < f + s
  <2>1. ip \in Nat
    BY <1>6, <1>7
  <2>2. ip \div s = k <=> k * s <= ip /\ ip < k * s + s
    BY <1>4, <1>9, <2>1, BlockOf
  <2>3. QED
    BY <1>3, <1>8, <1>9, <2>2 DEF Contains
<1>14. QED
  BY <1>3, <1>4, <1>6, <1>7, <1>11, <1>12, <1>13

\* The last host of a subnet, before the broadcast address if it has one.
LastHost(c) == IF Size(c) <= 2 THEN c.first + Size(c) - 1 ELSE c.first + Size(c) - 2

\* The walk goes from the first host to the last in steps of one.
LEMMA WalkIs ==
  ASSUME NEW c \in Cidrs, ~Endless(c)
  PROVE  /\ FirstHost(c) \in Nat /\ LastHost(c) \in Nat /\ FirstHost(c) <= LastHost(c)
         /\ \A h \in FirstHost(c) .. LastHost(c) :
              /\ h \in Addresses
              /\ NextHost(c, h) = IF h = LastHost(c) THEN NoHost ELSE h + 1
         /\ AssignableHosts(c) = FirstHost(c) .. LastHost(c)
<1>1. PICK s, f, w : s = Size(c) /\ f = c.first /\ w = Space
  OBVIOUS
<1>2. /\ w \in Nat \ {0} /\ Addresses = 0 .. w - 1 /\ s \in Nat \ {0} /\ f \in Nat /\ f + s <= w
      /\ f + s = w => f > 0
  BY <1>1, SubnetLies
<1>3. \A ip \in 0 .. w - 1 : Contains(c, ip) <=> f <= ip /\ ip < f + s
  BY <1>1, <1>2, SubnetLies
<1>4. \A ip \in 0 .. w - 1 : incIP(ip) = (IF ip + 1 = w THEN 0 ELSE ip + 1) /\ incIP(ip) \in 0 .. w - 1
  <2>1. ASSUME NEW ip \in 0 .. w - 1 PROVE (ip + 1) % w = IF ip + 1 = w THEN 0 ELSE ip + 1
    BY <1>2
  <2>2. \A ip : incIP(ip) = (ip + 1) % w
    BY <1>1 DEF incIP, Space
  <2>3. QED
    BY <1>2, <2>1, <2>2
<1>5. \A ip \in f .. f + s - 1 : Contains(c, incIP(ip)) <=> ip + 1 < f + s
  <2>1. TAKE ip \in f .. f + s - 1
  <2>2. ip \in 0 .. w - 1 /\ ip \in Nat
    BY <1>2
  <2>3. Contains(c, incIP(ip)) <=> f <= incIP(ip) /\ incIP(ip) < f + s
    BY <1>3, <1>4, <2>2
  <2>4. incIP(ip) = (IF ip + 1 = w THEN 0 ELSE ip + 1)
    BY <1>4, <2>2
  <2>5. CASE ip + 1 = w
    BY <1>2, <2>2, <2>3, <2>4, <2>5
  <2>6. CASE ip + 1 # w
    BY <1>2, <2>2, <2>3, <2>4, <2>6
  <2>7. QED
    BY <2>5, <2>6
<1>6. \A ip \in f .. f + s - 1 : ip + 1 < f + s => incIP(ip) = ip + 1
  BY <1>2, <1>4
<1>7. SmallSubnet(c) <=> s <= 2
  <2>1. f \in f .. f + s - 1
    BY <1>2
  <2>2. CASE s = 1
    BY <1>1, <1>2, <1>5, <2>1, <2>2 DEF SmallSubnet
  <2>3. CASE s > 1
    <3>1. incIP(f) = f + 1 /\ f + 1 \in f .. f + s - 1 /\ Contains(c, incIP(f))
      BY <1>2, <1>5, <1>6, <2>1, <2>3
    <3>2. Contains(c, incIP(incIP(f))) <=> f + 2 < f + s
      BY <1>2, <1>5, <3>1
    <3>3. QED
      BY <1>1, <1>2, <2>3, <3>1, <3>2 DEF SmallSubnet
  <2>4. QED
    BY <1>2, <2>2, <2>3
<1>8. FirstHost(c) = IF s <= 2 THEN f ELSE f + 1
  BY <1>1, <1>2, <1>6, <1>7 DEF FirstHost
<1>9. LastHost(c) = IF s <= 2 THEN f + s - 1 ELSE f + s - 2
  BY <1>1 DEF LastHost
<1>10. ASSUME NEW h \in FirstHost(c) .. LastHost(c)
       PROVE  h \in Addresses /\ NextHost(c, h) = IF h = LastHost(c) THEN NoHost ELSE h + 1
  <2>1. h \in f .. f + s - 1 /\ h \in 0 .. w - 1
    BY <1>2, <1>8, <1>9
  <2>2. CASE s <= 2
    BY <1>2, <1>5, <1>6, <1>7, <1>9, <2>1, <2>2 DEF NextHost
  <2>3. CASE s > 2
    <3>1. incIP(h) = h + 1 /\ Contains(c, incIP(h)) /\ h + 1 \in f .. f + s - 1
      BY <1>2, <1>5, <1>6, <1>8, <1>9, <2>1, <2>3
    <3>2. Contains(c, incIP(h + 1)) <=> h + 2 < f + s
      BY <1>2, <1>5, <3>1
    <3>3. NextHost(c, h) = IF Contains(c, incIP(h + 1)) THEN h + 1 ELSE NoHost
      <4>1. ~SmallSubnet(c)
        BY <1>2, <1>7, <2>3
      <4>2. PICK after : after = incIP(h)
        OBVIOUS
      <4>3. Contains(c, after) /\ after = h + 1
        BY <3>1, <4>2
      <4>4. NextHost(c, h) = IF Contains(c, incIP(after)) THEN after ELSE NoHost
        BY <4>1, <4>2, <4>3, Zenon DEF NextHost
      <4>5. QED
        BY <4>3, <4>4, Zenon
    <3>4. QED
      BY <1>2, <1>9, <2>1, <2>3, <3>2, <3>3
  <2>4. QED
    BY <1>2, <2>1, <2>2, <2>3
<1>11. AssignableHosts(c) = FirstHost(c) .. LastHost(c)
  <2> DEFINE all == {ip \in Addresses : c.first <= ip /\ ip < c.first + Size(c)}
  <2>1. all = f .. f + s - 1
    BY <1>1, <1>2
  <2>2. Cardinality(all) = s
    <3>1. \A a, b \in Int : a <= b => Cardinality(a .. b) = b - a + 1
      BY FS_Interval
    <3>2. f \in Int /\ f + s - 1 \in Int /\ f <= f + s - 1 /\ (f + s - 1) - f + 1 = s
      BY <1>2
    <3>3. Cardinality(f .. f + s - 1) = (f + s - 1) - f + 1
      BY <3>1, <3>2
    <3> HIDE DEF all
    <3>4. QED
      BY <2>1, <3>2, <3>3
  <2>3. AssignableHosts(c) = IF s <= 2 THEN all ELSE all \ {Min(all), Max(all)}
    BY <2>2 DEF AssignableHosts
  <2>4. Min(all) = f
    BY <1>2, <2>1 DEF Min
  <2>5. Max(all) = f + s - 1
    BY <1>2, <2>1 DEF Max
  <2> HIDE DEF all
  <2>6. s > 2 => (f .. f + s - 1) \ {f, f + s - 1} = f + 1 .. f + s - 2
    BY <1>2
  <2>7. CASE s <= 2
    BY <1>8, <1>9, <2>1, <2>3, <2>7
  <2>8. CASE s > 2
    <3>1. ~(s <= 2)
      BY <1>2, <2>8
    <3>2. AssignableHosts(c) = f + 1 .. f + s - 2
      BY <2>1, <2>3, <2>4, <2>5, <2>6, <2>8, <3>1
    <3>3. FirstHost(c) = f + 1 /\ LastHost(c) = f + s - 2
      BY <1>8, <1>9, <3>1
    <3>4. QED
      BY <3>2, <3>3
  <2>9. QED
    BY <1>2, <2>7, <2>8
<1>12. QED
  BY <1>2, <1>8, <1>9, <1>10, <1>11

\* Addresses are natural numbers; a worker without a host has none.
LEMMA AddressesAre ==
  /\ Addresses \subseteq Nat /\ Idle \notin Addresses /\ Left \notin Addresses
  /\ NoHost \in Int \ Addresses
<1>1. PowerOf2[Width] \in Nat \ {0}
  BY PowersDivide, WidthAssumption
<1>2. QED
  BY <1>1 DEF Addresses, Idle, Left, NoHost

\* The walk of a /0 goes over every address, and has always one more.
LEMMA EndlessWalk ==
  ASSUME NEW c \in Cidrs, Endless(c)
  PROVE  /\ FirstHost(c) \in Addresses
         /\ \A h \in Addresses : NextHost(c, h) \in Addresses
<1>1. c.bits = 0 /\ c.first \in Addresses /\ Width \in Nat /\ Width - 0 = Width
  BY WidthAssumption DEF Cidrs, Endless
<1>2. Size(c) = Space /\ Space \in Nat \ {0} /\ Addresses = 0 .. Space - 1
  <2>1. Width \in 0 .. Width
    BY <1>1
  <2>2. PowerOf2[Width] \in Nat \ {0}
    BY <2>1, PowersDivide
  <2>3. QED
    BY <1>1, <2>2 DEF Size, Space, Addresses
<1>3. PICK w : w = Space
  OBVIOUS
<1>4. \A ip \in 0 .. w - 1 : ip \div w = 0
  BY <1>2, <1>3
<1>5. \A ip \in Addresses : Contains(c, ip)
  BY <1>1, <1>2, <1>3, <1>4 DEF Contains
<1>6. \A ip \in Addresses : incIP(ip) \in Addresses
  <2>1. \A ip \in 0 .. w - 1 : (ip + 1) % w \in 0 .. w - 1
    BY <1>2, <1>3
  <2>2. QED
    BY <1>2, <1>3, <2>1 DEF incIP, Space
<1>7. ~SmallSubnet(c)
  BY <1>1, <1>5, <1>6 DEF SmallSubnet
<1>8. \A h \in Addresses : NextHost(c, h) = incIP(h)
  BY <1>5, <1>6, <1>7 DEF NextHost
<1>9. QED
  BY <1>1, <1>6, <1>7, <1>8 DEF FirstHost

\* The walk of any subnet: it starts at a host to visit and goes on to one; a
\* subnet that it leaves is not a /0, and its hosts were met in steps of one.
LEMMA WalkGoes ==
  ASSUME NEW c \in Cidrs
  PROVE  /\ VisitedHosts(c) \subseteq Addresses /\ FirstHost(c) \in VisitedHosts(c)
         /\ ~Endless(c) => \A g \in VisitedHosts(c) : FirstHost(c) <= g
         /\ \A h \in VisitedHosts(c) :
              IF NextHost(c, h) = NoHost
              THEN ~Endless(c) /\ \A g \in VisitedHosts(c) : g <= h
              ELSE NextHost(c, h) \in VisitedHosts(c) /\ (~Endless(c) => NextHost(c, h) = h + 1)
<1>1. CASE Endless(c)
  <2>1. VisitedHosts(c) = Addresses
    BY <1>1 DEF VisitedHosts
  <2>2. QED
    BY <1>1, <2>1, EndlessWalk, AddressesAre
<1>2. CASE ~Endless(c)
  <2>1. PICK first, last : first = FirstHost(c) /\ last = LastHost(c)
    OBVIOUS
  <2>2. /\ first \in Nat /\ last \in Nat /\ first <= last
        /\ \A h \in first .. last : /\ h \in Addresses
                                   /\ NextHost(c, h) = IF h = last THEN NoHost ELSE h + 1
        /\ VisitedHosts(c) = first .. last
    BY <1>2, <2>1, WalkIs DEF VisitedHosts
  <2>3. QED
    BY <1>2, <2>1, <2>2 DEF NoHost
<1>3. QED
  BY <1>1, <1>2

\* What a sequence holds, and that it holds it once.
Elements(s) == {s[i] : i \in DOMAIN s}
Once(s) == \A i, j \in DOMAIN s : s[i] = s[j] => i = j

\* What a queue holds when its head is taken and when one is appended.
LEMMA TakeHead ==
  ASSUME NEW T, NEW s \in Seq(T), s # <<>>, Once(s)
  PROVE  /\ Head(s) \in Elements(s) /\ Elements(s) \subseteq T
         /\ Tail(s) \in Seq(T) /\ Once(Tail(s))
         /\ Elements(Tail(s)) = Elements(s) \ {Head(s)}
<1>1. Len(s) \in Nat \ {0} /\ DOMAIN s = 1 .. Len(s) /\ Head(s) = s[1]
  OBVIOUS
<1>2. /\ Tail(s) \in Seq(T) /\ DOMAIN Tail(s) = 1 .. (Len(s) - 1)
      /\ \A i \in 1 .. (Len(s) - 1) : Tail(s)[i] = s[i + 1]
  BY <1>1
<1>3. Once(Tail(s))
  BY <1>1, <1>2 DEF Once
<1>4. ASSUME NEW x \in Elements(s), x # Head(s) PROVE x \in Elements(Tail(s))
  <2>1. PICK i \in 1 .. Len(s) : x = s[i]
    BY <1>1, <1>4 DEF Elements
  <2>2. i - 1 \in 1 .. (Len(s) - 1) /\ Tail(s)[i - 1] = x
    BY <1>1, <1>2, <1>4, <2>1
  <2>3. QED
    BY <1>2, <2>2 DEF Elements
<1>5. ASSUME NEW x \in Elements(Tail(s)) PROVE x \in Elements(s) \ {Head(s)}
  <2>1. PICK i \in 1 .. (Len(s) - 1) : x = Tail(s)[i]
    BY <1>2, <1>5 DEF Elements
  <2>2. x = s[i + 1] /\ i + 1 \in DOMAIN s /\ 1 \in DOMAIN s /\ i + 1 # 1
    BY <1>1, <1>2, <2>1
  <2>3. QED
    BY <1>1, <2>2 DEF Elements, Once
<1>6. Head(s) \in Elements(s) /\ Elements(s) \subseteq T
  BY <1>1 DEF Elements
<1>7. QED
  BY <1>2, <1>3, <1>4, <1>5, <1>6

\* What is appended is there, once if it was not there before.
LEMMA AppendOne ==
  ASSUME NEW T, NEW s \in Seq(T), NEW x \in T
  PROVE  /\ Append(s, x) \in Seq(T) /\ Elements(Append(s, x)) = Elements(s) \cup {x}
         /\ Once(s) /\ x \notin Elements(s) => Once(Append(s, x))
<1> DEFINE t == Append(s, x)
<1>1. /\ t \in Seq(T) /\ Len(s) \in Nat /\ DOMAIN s = 1 .. Len(s) /\ DOMAIN t = 1 .. (Len(s) + 1)
      /\ \A i \in 1 .. Len(s) : t[i] = s[i]
      /\ t[Len(s) + 1] = x
  OBVIOUS
<1>2. \A i \in DOMAIN t : i \in DOMAIN s \/ i = Len(s) + 1
  BY <1>1
<1>3. Len(s) + 1 \in DOMAIN t /\ \A i \in DOMAIN s : i \in DOMAIN t
  BY <1>1
<1> HIDE DEF t
<1>4. Elements(t) = Elements(s) \cup {x}
  BY <1>1, <1>2, <1>3 DEF Elements
<1>5. Once(s) /\ x \notin Elements(s) => Once(t)
  BY <1>1, <1>2 DEF Elements, Once
<1>6. QED
  BY <1>1, <1>4, <1>5 DEF t

\* Sorting keeps every result, once, and in ascending order of rank.
LEMMA SortedKeeps ==
  ASSUME NEW s \in Seq(Addresses), Once(s), NEW r \in Sorted(s)
  PROVE  /\ Elements(r) = Elements(s)
         /\ \A i, j \in DOMAIN r : i < j => Rank[r[i]] < Rank[r[j]]
         /\ r \in Seq(Addresses) /\ Once(r)
<1>1. PICK p \in Bijection(DOMAIN s, DOMAIN s) : r = [i \in DOMAIN s |-> s[p[i]]]
  BY DEF Sorted, Rearranged
<1>2. /\ p \in [DOMAIN s -> DOMAIN s]
      /\ \A i, j \in DOMAIN s : p[i] = p[j] => i = j
      /\ \A k \in DOMAIN s : \E i \in DOMAIN s : p[i] = k
  BY <1>1 DEF Bijection, Injection, Surjection, IsInjective
<1>3. DOMAIN r = DOMAIN s /\ \A i \in DOMAIN s : r[i] = s[p[i]] /\ p[i] \in DOMAIN s
  BY <1>1, <1>2
<1>4. Elements(r) = Elements(s)
  BY <1>2, <1>3 DEF Elements
<1>5. Once(r)
  BY <1>2, <1>3 DEF Once
<1>6. \A i, j \in DOMAIN r : i < j => Rank[r[i]] <= Rank[r[j]]
  BY DEF Sorted
<1>7. DOMAIN s = 1 .. Len(s) /\ Len(s) \in Nat /\ \A i \in DOMAIN s : s[i] \in Addresses
  OBVIOUS
<1>8. ASSUME NEW i \in DOMAIN r, NEW j \in DOMAIN r, i < j PROVE Rank[r[i]] < Rank[r[j]]
  <2>1. Rank[r[i]] <= Rank[r[j]] /\ r[i] # r[j]
    BY <1>3, <1>5, <1>6, <1>7, <1>8 DEF Once
  <2>2. r[i] \in Addresses /\ r[j] \in Addresses
    BY <1>3, <1>7
  <2>3. Rank[r[i]] \in Nat /\ Rank[r[j]] \in Nat /\ Rank[r[i]] # Rank[r[j]]
    BY <2>1, <2>2, DiscoveryAssumption
  <2>4. QED
    BY <2>1, <2>3
<1>9. r \in Seq(Addresses)
  BY <1>1, <1>3, <1>7
<1>10. QED
  BY <1>4, <1>5, <1>8, <1>9

\* The hosts of the subnets, and where those met so far are: in the queue,
\* with a worker, or asked.
HostsToAsk == UNION {VisitedHosts(subnets[i]) : i \in DOMAIN subnets}
Queued == Elements(jobs)
Busy == {w \in Workers : worker[w] \in Addresses}
WithWorker == {worker[w] : w \in Busy}
Asked == {a \in Addresses : probes[a] > 0}
Found == Elements(raw)

\* The walk has met every host of the subnets behind it, and of the subnet it
\* is in those before its position, unless it is a /0, which it never leaves; a
\* signal may have cut a subnet short.
WalkInv ==
  /\ subnets \in Seq(Cidrs) /\ at \in [subnet : Int, host : Int]
  /\ at.subnet \in 1 .. Len(subnets) + 1
  /\ ~Closed => at.host \in VisitedHosts(subnets[at.subnet])
  /\ seen \subseteq HostsToAsk
  /\ cancelled = FALSE =>
       /\ \A i \in DOMAIN subnets :
            i < at.subnet => ~Endless(subnets[i]) /\ VisitedHosts(subnets[i]) \subseteq seen
       /\ ~Closed /\ ~Endless(subnets[at.subnet]) =>
            \A h \in VisitedHosts(subnets[at.subnet]) : h < at.host => h \in seen

\* A host that was met is in one place, and is asked once.
HostsInv ==
  /\ jobs \in Seq(Addresses) /\ Once(jobs)
  /\ worker \in [Workers -> Addresses \cup {Idle, Left}]
  /\ \A v, w \in Busy : worker[v] = worker[w] => v = w
  /\ probes \in [Addresses -> {0, 1}]
  /\ Queued \subseteq seen /\ WithWorker \subseteq seen /\ Asked \subseteq seen
  /\ Queued \cap WithWorker = {} /\ Queued \cap Asked = {} /\ WithWorker \cap Asked = {}
  /\ cancelled = FALSE => seen = Queued \cup WithWorker \cup Asked

\* Without a signal a worker leaves only when there is nothing left to do.
LeaveInv ==
  cancelled = FALSE => \A w \in Workers : worker[w] = Left => Drained

\* The devices are hosts that answered, once each.
FoundInv ==
  /\ raw \in Seq(Addresses) /\ Once(raw)
  /\ Found \subseteq Asked \cap answering
  /\ cancelled = FALSE => Found = Asked \cap answering

PoolInv == WalkInv /\ HostsInv /\ LeaveInv /\ FoundInv

\* What the result of a discovery says.
RawIsExact ==
  /\ \A i, j \in DOMAIN raw : i < j => Rank[raw[i]] < Rank[raw[j]]
  /\ Found \subseteq answering \cap HostsToAsk
  /\ cancelled = FALSE => ~WalksForever /\ Found = answering \cap HostsToAsk

RawInv == stage \notin Running /\ command = "discover" /\ failure = NoError => RawIsExact

\* The subnets are subnets, and the hosts to ask those of each.
LEMMA SubnetsAre ==
  ASSUME subnets \in Seq(Cidrs)
  PROVE  /\ Len(subnets) \in Nat /\ DOMAIN subnets = 1 .. Len(subnets)
         /\ \A i \in 1 .. Len(subnets) :
              subnets[i] \in Cidrs /\ VisitedHosts(subnets[i]) \subseteq HostsToAsk
<1>1. Len(subnets) \in Nat /\ DOMAIN subnets = 1 .. Len(subnets)
      /\ \A i \in 1 .. Len(subnets) : subnets[i] \in Cidrs
  OBVIOUS
<1>2. QED
  BY <1>1 DEF HostsToAsk

\* A step of the walk: the host is one to ask, and what is next is another of
\* its subnet, the one after it but for a /0, or, when it was the last, the
\* first of the next subnet.
LEMMA WalkSteps ==
  ASSUME WalkInv, ~Closed, NEW c, c = subnets[at.subnet]
  PROVE  /\ at.host \in Addresses /\ at.host \in HostsToAsk
         /\ at.subnet \in 1 .. Len(subnets)
         /\ \/ /\ Advanced = StartOf(at.subnet + 1)
               /\ ~Endless(c) /\ \A g \in VisitedHosts(c) : g <= at.host
            \/ \E onward \in VisitedHosts(c) :
                 /\ Advanced = [subnet |-> at.subnet, host |-> onward]
                 /\ ~Endless(c) => onward = at.host + 1
<1>1. at.subnet \in 1 .. Len(subnets) /\ subnets \in Seq(Cidrs) /\ at \in [subnet : Int, host : Int]
  BY DEF WalkInv, Closed
<1>2. PICK h, i : h = at.host /\ i = at.subnet
  OBVIOUS
<1>3. h \in VisitedHosts(c)
  BY <1>2 DEF WalkInv
<1>4. c \in Cidrs /\ VisitedHosts(c) \subseteq HostsToAsk
  BY <1>1, SubnetsAre
<1>5. h \in Addresses /\ h \in HostsToAsk
  BY <1>3, <1>4, WalkGoes
<1>6. PICK onward : onward = NextHost(c, h)
  OBVIOUS
<1>7. Advanced = IF onward = NoHost THEN StartOf(i + 1) ELSE [at EXCEPT !.host = onward]
  BY <1>2, <1>6, Zenon DEF Advanced
<1>8. [at EXCEPT !.host = onward] = [subnet |-> i, host |-> onward]
  BY <1>1, <1>2
<1>9. IF onward = NoHost
      THEN ~Endless(c) /\ \A g \in VisitedHosts(c) : g <= h
      ELSE onward \in VisitedHosts(c) /\ (~Endless(c) => onward = h + 1)
  BY <1>3, <1>4, <1>6, WalkGoes
<1>10. QED
  BY <1>1, <1>2, <1>5, <1>7, <1>8, <1>9

\* The walk of a subnet starts at its first host.
LEMMA WalkStarts ==
  ASSUME subnets \in Seq(Cidrs), NEW i \in 1 .. Len(subnets) + 1
  PROVE  /\ StartOf(i) \in [subnet : Int, host : Int] /\ StartOf(i).subnet = i
         /\ i <= Len(subnets) =>
              /\ i \in 1 .. Len(subnets) /\ StartOf(i).host \in VisitedHosts(subnets[i])
              /\ ~Endless(subnets[i]) => \A g \in VisitedHosts(subnets[i]) : ~(g < StartOf(i).host)
<1>1. PICK h : h = IF i <= Len(subnets) THEN FirstHost(subnets[i]) ELSE NoHost
  OBVIOUS
<1>2. Len(subnets) \in Nat /\ (i <= Len(subnets) => i \in 1 .. Len(subnets) /\ subnets[i] \in Cidrs)
  BY SubnetsAre
<1>3. ASSUME i <= Len(subnets)
      PROVE  /\ h \in VisitedHosts(subnets[i]) /\ VisitedHosts(subnets[i]) \subseteq Nat
             /\ ~Endless(subnets[i]) => \A g \in VisitedHosts(subnets[i]) : ~(g < h)
  <2>1. PICK c \in Cidrs : c = subnets[i]
    BY <1>2, <1>3
  <2>2. /\ VisitedHosts(c) \subseteq Nat /\ FirstHost(c) \in VisitedHosts(c)
        /\ ~Endless(c) => \A g \in VisitedHosts(c) : FirstHost(c) <= g
    BY WalkGoes, AddressesAre
  <2>3. h = FirstHost(c)
    BY <1>1, <1>3, <2>1
  <2>4. ~Endless(c) => \A g \in VisitedHosts(c) : ~(g < h)
    BY <2>2, <2>3
  <2>5. QED
    BY <2>1, <2>2, <2>3, <2>4
<1>4. h \in Int
  BY <1>1, <1>3, AddressesAre
<1>5. StartOf(i) = [subnet |-> i, host |-> h]
  BY <1>1 DEF StartOf
<1>6. QED
  BY <1>2, <1>3, <1>4, <1>5

\* The producer walks on; where a signal cuts a subnet short nothing is promised.
LEMMA ProduceKeepsWalk ==
  ASSUME WalkInv, Produce, cancelled \in BOOLEAN
  PROVE  WalkInv'
<1>1. /\ ~Closed /\ subnets' = subnets /\ cancelled' = cancelled
      /\ seen' = seen \cup {at.host} /\ HostsToAsk' = HostsToAsk
  BY DEF Produce, invocationVars, poolVars, HostsToAsk
<1>2. PICK i, h, c : i = at.subnet /\ h = at.host /\ c = subnets[i]
  OBVIOUS
<1>3. /\ subnets \in Seq(Cidrs) /\ Len(subnets) \in Nat /\ DOMAIN subnets = 1 .. Len(subnets)
      /\ i \in 1 .. Len(subnets)
      /\ h \in HostsToAsk /\ h \in VisitedHosts(c) /\ VisitedHosts(c) \subseteq Nat
  <2>1. i \in 1 .. Len(subnets) /\ h \in HostsToAsk /\ subnets \in Seq(Cidrs)
    BY <1>1, <1>2, WalkSteps DEF WalkInv
  <2>2. h \in VisitedHosts(c)
    BY <1>1, <1>2 DEF WalkInv
  <2>3. c \in Cidrs /\ Len(subnets) \in Nat /\ DOMAIN subnets = 1 .. Len(subnets)
    BY <1>2, <2>1, SubnetsAre
  <2>4. VisitedHosts(c) \subseteq Nat
    BY <2>3, WalkGoes, AddressesAre
  <2>5. QED
    BY <2>1, <2>2, <2>3, <2>4
<1>4. seen' \subseteq HostsToAsk'
  BY <1>1, <1>2, <1>3 DEF WalkInv
<1>5. cancelled = FALSE =>
        /\ \A j \in DOMAIN subnets :
             j < i => ~Endless(subnets[j]) /\ VisitedHosts(subnets[j]) \subseteq seen
        /\ ~Endless(c) => \A g \in VisitedHosts(c) : g < h => g \in seen
  BY <1>1, <1>2 DEF WalkInv
<1>6. ASSUME at' = StartOf(i + 1),
             cancelled = FALSE => ~Endless(c) /\ \A g \in VisitedHosts(c) : g <= h
      PROVE  WalkInv'
  <2>1. i + 1 \in 1 .. Len(subnets) + 1
    BY <1>3
  <2>2. /\ at' \in [subnet : Int, host : Int] /\ at'.subnet = i + 1
        /\ i + 1 <= Len(subnets) =>
             /\ at'.host \in VisitedHosts(subnets[i + 1])
             /\ ~Endless(subnets[i + 1]) => \A g \in VisitedHosts(subnets[i + 1]) : ~(g < at'.host)
    BY <1>3, <1>6, <2>1, WalkStarts
  <2>3. ~Closed' => i + 1 <= Len(subnets)
    BY <1>1, <1>3, <2>2 DEF Closed
  <2>4. ASSUME cancelled = FALSE
        PROVE  \A j \in DOMAIN subnets :
                 j < i + 1 => ~Endless(subnets[j]) /\ VisitedHosts(subnets[j]) \subseteq seen'
    <3>1. \A g \in VisitedHosts(c) : g < h \/ g = h
      BY <1>3, <1>6, <2>4
    <3>2. ~Endless(c) /\ VisitedHosts(c) \subseteq seen'
      BY <1>1, <1>2, <1>5, <1>6, <2>4, <3>1
    <3>3. \A j \in DOMAIN subnets : j < i + 1 => j < i \/ j = i
      BY <1>3
    <3>4. QED
      BY <1>1, <1>2, <1>5, <2>4, <3>2, <3>3
  <2>5. QED
    BY <1>1, <1>3, <1>4, <2>1, <2>2, <2>3, <2>4 DEF WalkInv
<1>7. ASSUME NEW onward \in VisitedHosts(c), at' = [subnet |-> i, host |-> onward],
             ~Endless(c) => onward = h + 1
      PROVE  WalkInv'
  <2>1. at'.subnet = i /\ at'.host = onward /\ at' \in [subnet : Int, host : Int]
    BY <1>3, <1>7
  <2>2. i \in 1 .. Len(subnets) + 1
    BY <1>3
  <2>3. ASSUME cancelled = FALSE
        PROVE  /\ \A j \in DOMAIN subnets :
                    j < i => ~Endless(subnets[j]) /\ VisitedHosts(subnets[j]) \subseteq seen'
               /\ ~Endless(c) => \A g \in VisitedHosts(c) : g < onward => g \in seen'
    <3>1. ~Endless(c) => \A g \in VisitedHosts(c) : g < onward => g < h \/ g = h
      BY <1>3, <1>7
    <3>2. QED
      BY <1>1, <1>2, <1>5, <2>3, <3>1
  <2>4. QED
    BY <1>1, <1>2, <1>3, <1>4, <2>1, <2>2, <2>3 DEF WalkInv
<1>8. at' = Advanced \/ (at' = StartOf(i + 1) /\ cancelled)
  BY <1>2 DEF Produce
<1>9. CASE at' = Advanced
  <2>1. \/ at' = StartOf(i + 1) /\ ~Endless(c) /\ \A g \in VisitedHosts(c) : g <= h
        \/ \E onward \in VisitedHosts(c) :
             at' = [subnet |-> i, host |-> onward] /\ (~Endless(c) => onward = h + 1)
    BY <1>1, <1>2, <1>9, WalkSteps
  <2>2. QED
    BY <1>6, <1>7, <2>1
<1>10. CASE at' = StartOf(i + 1) /\ cancelled
  <2>1. ~(cancelled = FALSE)
    BY <1>10, Zenon
  <2>2. QED
    BY <1>6, <1>10, <2>1
<1>11. QED
  BY <1>8, <1>9, <1>10

\* The producer queues a host that it has not seen.
LEMMA ProduceKeepsPool ==
  ASSUME PoolInv, Produce, cancelled \in BOOLEAN
  PROVE  PoolInv'
<1>1. WalkInv'
  BY ProduceKeepsWalk DEF PoolInv
<1>2. PICK h : h = at.host
  OBVIOUS
<1>3. h \in Addresses /\ ~Closed
  BY <1>2, WalkSteps DEF Produce, PoolInv
<1>4. /\ seen' = seen \cup {h} /\ cancelled' = cancelled
      /\ worker' = worker /\ probes' = probes /\ raw' = raw /\ answering' = answering
  BY <1>2 DEF Produce, invocationVars, poolVars
<1>5. WithWorker' = WithWorker /\ Asked' = Asked /\ Found' = Found /\ Busy' = Busy
  BY <1>4 DEF WithWorker, Asked, Found, Busy
<1>6. HostsInv'
  <2>1. CASE h \in seen /\ jobs' = jobs
    <3>1. Queued' = Queued /\ seen' = seen
      BY <1>4, <2>1 DEF Queued
    <3>2. QED
      BY <1>4, <1>5, <2>1, <3>1 DEF PoolInv, HostsInv
  <2>2. CASE h \notin seen /\ jobs' = Append(jobs, h)
    <3>1. h \notin Queued /\ h \notin WithWorker /\ h \notin Asked
      BY <2>2 DEF PoolInv, HostsInv
    <3>2. PICK s : s = jobs
      OBVIOUS
    <3>3. s \in Seq(Addresses) /\ Once(s) /\ h \notin Elements(s)
      BY <3>1, <3>2 DEF PoolInv, HostsInv, Queued
    <3>4. Append(s, h) \in Seq(Addresses) /\ Elements(Append(s, h)) = Elements(s) \cup {h}
          /\ Once(Append(s, h))
      BY <1>3, <3>3, AppendOne
    <3>5. jobs' \in Seq(Addresses) /\ Queued' = Queued \cup {h} /\ Once(jobs')
      BY <2>2, <3>2, <3>4 DEF Queued
    <3>6. QED
      BY <1>4, <1>5, <3>1, <3>5 DEF PoolInv, HostsInv
  <2>3. CASE cancelled /\ jobs' = jobs
    <3>1. ~(cancelled = FALSE)
      BY <2>3, Zenon
    <3>2. Queued' = Queued
      BY <2>3 DEF Queued
    <3>3. QED
      BY <1>4, <1>5, <2>3, <3>1, <3>2 DEF PoolInv, HostsInv
  <2>4. QED
    BY <1>2, <2>1, <2>2, <2>3 DEF Produce, Unseen
<1>7. LeaveInv'
  BY <1>3, <1>4 DEF PoolInv, LeaveInv, Drained
<1>8. FoundInv'
  BY <1>4, <1>5 DEF PoolInv, FoundInv
<1>9. QED
  BY <1>1, <1>6, <1>7, <1>8 DEF PoolInv

\* A worker takes a host, or leaves with it once there is a signal.
LEMMA TakeJobKeepsPool ==
  ASSUME PoolInv, NEW w \in Workers, TakeJob(w), cancelled \in BOOLEAN
  PROVE  PoolInv'
<1>1. /\ subnets' = subnets /\ answering' = answering /\ cancelled' = cancelled
      /\ at' = at /\ seen' = seen /\ probes' = probes /\ raw' = raw /\ worker[w] = Idle
  BY DEF TakeJob, invocationVars, poolVars
<1>2. HostsToAsk' = HostsToAsk /\ Asked' = Asked /\ Found' = Found /\ (Closed' <=> Closed)
  BY <1>1 DEF HostsToAsk, Asked, Found, Closed
<1>3. WalkInv'
  BY <1>1, <1>2 DEF PoolInv, WalkInv
<1>4. FoundInv'
  BY <1>1, <1>2 DEF PoolInv, FoundInv
<1>5. w \notin Busy /\ worker \in [Workers -> Addresses \cup {Idle, Left}]
  BY <1>1, AddressesAre DEF Busy, PoolInv, HostsInv
<1>6. CASE jobs # <<>> /\ jobs' = Tail(jobs)
           /\ worker' = [worker EXCEPT ![w] = IF cancelled THEN Left ELSE Head(jobs)]
  <2>1. PICK s : s = jobs
    OBVIOUS
  <2>2. PICK h : h = Head(s)
    OBVIOUS
  <2>3. /\ h \in Elements(s) /\ Elements(s) \subseteq Addresses
        /\ Tail(s) \in Seq(Addresses) /\ Once(Tail(s)) /\ Elements(Tail(s)) = Elements(s) \ {h}
    <3>1. s \in Seq(Addresses) /\ s # <<>> /\ Once(s)
      BY <1>6, <2>1 DEF PoolInv, HostsInv
    <3>2. QED
      BY <2>2, <3>1, TakeHead
  <2>4. /\ h \in Queued /\ h \in Addresses /\ jobs' \in Seq(Addresses) /\ Once(jobs')
        /\ Queued' = Queued \ {h}
    BY <1>6, <2>1, <2>3 DEF Queued
  <2>5. LeaveInv'
    <3>1. cancelled = FALSE => \A v \in Workers : worker[v] # Left
      BY <1>6 DEF PoolInv, LeaveInv, Drained
    <3>2. cancelled = FALSE => worker' = [worker EXCEPT ![w] = h]
      <4>1. cancelled = FALSE => ~cancelled
        BY Zenon
      <4>2. QED
        BY <1>6, <2>1, <2>2, <4>1
    <3>3. cancelled = FALSE => \A v \in Workers : worker'[v] # Left
      BY <1>5, <2>4, <3>1, <3>2, AddressesAre
    <3>4. QED
      BY <1>1, <3>3 DEF LeaveInv
  <2>6. CASE cancelled
    <3>1. ~(cancelled = FALSE) /\ worker' = [worker EXCEPT ![w] = Left]
      BY <1>6, <2>6, Zenon
    <3>2. Busy' = Busy
      BY <1>5, <3>1, AddressesAre DEF Busy, Workers
    <3>3. \A v \in Busy : worker'[v] = worker[v]
      BY <1>5, <3>1 DEF Busy
    <3>4. WithWorker' = WithWorker
      BY <3>2, <3>3 DEF WithWorker
    <3>5. worker' \in [Workers -> Addresses \cup {Idle, Left}]
      BY <1>5, <3>1
    <3>6. HostsInv'
      BY <1>1, <1>2, <2>4, <3>1, <3>2, <3>3, <3>4, <3>5 DEF PoolInv, HostsInv, Workers
    <3>7. QED
      BY <1>3, <1>4, <2>5, <3>6 DEF PoolInv
  <2>7. CASE ~cancelled
    <3>1. worker' = [worker EXCEPT ![w] = h]
      BY <1>6, <2>1, <2>2, <2>7
    <3>2. Busy' = Busy \cup {w} /\ worker'[w] = h /\ \A v \in Busy : worker'[v] = worker[v]
      BY <1>5, <2>4, <3>1 DEF Busy, Workers
    <3>3. WithWorker' = WithWorker \cup {h}
      BY <3>2 DEF WithWorker
    <3>4. worker' \in [Workers -> Addresses \cup {Idle, Left}]
      BY <1>5, <2>4, <3>1
    <3>5. h \notin WithWorker /\ h \notin Asked /\ h \in seen
      BY <2>4 DEF PoolInv, HostsInv
    <3>6. \A u, v \in Busy' : worker'[u] = worker'[v] => u = v
      <4>1. \A v \in Busy : worker[v] # h
        BY <3>5 DEF WithWorker
      <4>2. \A u, v \in Busy : worker[u] = worker[v] => u = v
        BY DEF PoolInv, HostsInv
      <4>3. QED
        BY <3>2, <4>1, <4>2
    <3>7. HostsInv'
      BY <1>1, <1>2, <2>4, <3>3, <3>4, <3>5, <3>6 DEF PoolInv, HostsInv, Workers
    <3>8. QED
      BY <1>3, <1>4, <2>5, <3>7 DEF PoolInv
  <2>8. QED
    BY <2>6, <2>7
<1>7. CASE Drained /\ worker' = [worker EXCEPT ![w] = Left] /\ jobs' = jobs
  <2>1. Busy' = Busy
    BY <1>5, <1>7, AddressesAre DEF Busy, Workers
  <2>2. \A v \in Busy : worker'[v] = worker[v]
    BY <1>5, <1>7 DEF Busy
  <2>3. WithWorker' = WithWorker /\ Queued' = Queued
    BY <1>7, <2>1, <2>2 DEF WithWorker, Queued
  <2>4. worker' \in [Workers -> Addresses \cup {Idle, Left}]
    BY <1>5, <1>7
  <2>5. HostsInv'
    BY <1>1, <1>2, <1>7, <2>1, <2>2, <2>3, <2>4 DEF PoolInv, HostsInv, Workers
  <2>6. LeaveInv'
    BY <1>2, <1>7 DEF LeaveInv, Drained
  <2>7. QED
    BY <1>3, <1>4, <2>5, <2>6 DEF PoolInv
<1>8. QED
  BY <1>6, <1>7 DEF TakeJob

\* A host that was asked is done with, and found if it answered.
LEMMA ProbeHostKeepsPool ==
  ASSUME PoolInv, NEW w \in Workers, ProbeHost(w), cancelled \in BOOLEAN
  PROVE  PoolInv'
<1>1. PICK a : a = worker[w]
  OBVIOUS
<1>2. /\ subnets' = subnets /\ answering' = answering /\ cancelled' = cancelled
      /\ at' = at /\ seen' = seen /\ jobs' = jobs /\ a \in Addresses
      /\ probes' = [probes EXCEPT ![a] = @ + 1] /\ worker' = [worker EXCEPT ![w] = Idle]
  BY <1>1 DEF ProbeHost, invocationVars, poolVars
<1>3. HostsToAsk' = HostsToAsk /\ Queued' = Queued /\ (Drained' <=> Drained) /\ (Closed' <=> Closed)
  BY <1>2 DEF HostsToAsk, Queued, Drained, Closed
<1>4. WalkInv'
  BY <1>2, <1>3 DEF PoolInv, WalkInv
<1>5. w \in Busy /\ a \in WithWorker /\ worker \in [Workers -> Addresses \cup {Idle, Left}]
  BY <1>1, <1>2 DEF Busy, WithWorker, PoolInv, HostsInv
<1>6. a \notin Queued /\ a \notin Asked /\ a \in seen
  BY <1>5 DEF PoolInv, HostsInv
<1>7. probes \in [Addresses -> {0, 1}] /\ probes[a] = 0
  BY <1>2, <1>6 DEF PoolInv, HostsInv, Asked
<1>8. probes' \in [Addresses -> {0, 1}] /\ Asked' = Asked \cup {a}
  BY <1>2, <1>7 DEF Asked
<1>9. Busy' = Busy \ {w} /\ \A v \in Busy' : worker'[v] = worker[v]
  BY <1>2, <1>5, AddressesAre DEF Busy, Workers
<1>10. \A v \in Busy : worker[v] = a => v = w
  BY <1>1, <1>5 DEF PoolInv, HostsInv
<1>11. WithWorker' = WithWorker \ {a}
  BY <1>1, <1>9, <1>10 DEF WithWorker
<1>12. worker' \in [Workers -> Addresses \cup {Idle, Left}]
  BY <1>2, <1>5
<1>13. HostsInv'
  BY <1>2, <1>3, <1>5, <1>6, <1>8, <1>9, <1>11, <1>12 DEF PoolInv, HostsInv, Workers
<1>14. LeaveInv'
  BY <1>2, <1>3, <1>5 DEF PoolInv, LeaveInv, Workers, Idle, Left
<1>15. FoundInv'
  <2>1. CASE a \in answering /\ raw' = Append(raw, a)
    <3>1. PICK s : s = raw
      OBVIOUS
    <3>2. s \in Seq(Addresses) /\ Once(s) /\ a \notin Elements(s)
      BY <1>6, <3>1 DEF PoolInv, FoundInv, Found
    <3>3. Append(s, a) \in Seq(Addresses) /\ Elements(Append(s, a)) = Elements(s) \cup {a}
          /\ Once(Append(s, a))
      BY <1>2, <3>2, AppendOne
    <3>4. raw' \in Seq(Addresses) /\ Found' = Found \cup {a} /\ Once(raw')
      BY <2>1, <3>1, <3>3 DEF Found
    <3>5. QED
      BY <1>2, <1>8, <2>1, <3>4 DEF PoolInv, FoundInv
  <2>2. CASE (a \notin answering \/ cancelled) /\ raw' = raw
    <3>1. Found' = Found
      BY <2>2 DEF Found
    <3>2. cancelled = FALSE => a \notin answering
      BY <2>2, Zenon
    <3>3. QED
      BY <1>2, <1>8, <2>2, <3>1, <3>2 DEF PoolInv, FoundInv
  <2>3. QED
    BY <1>1, <2>1, <2>2 DEF ProbeHost
<1>16. QED
  BY <1>4, <1>13, <1>14, <1>15 DEF PoolInv

\* The collector waits for the workers: with all of them gone, and no signal,
\* every host was asked, and the sort keeps what was found.
LEMMA EndKeepsPool ==
  ASSUME PoolInv, EndDiscovery, cancelled \in BOOLEAN
  PROVE  PoolInv' /\ RawIsExact'
<1>1. /\ subnets' = subnets /\ answering' = answering /\ cancelled' = cancelled
      /\ at' = at /\ seen' = seen /\ jobs' = jobs /\ probes' = probes /\ worker' = worker
      /\ raw' \in Sorted(raw) /\ \A w \in Workers : worker[w] = Left
  BY DEF EndDiscovery, poolVars, Collected
<1>2. HostsToAsk' = HostsToAsk /\ Queued' = Queued /\ (Drained' <=> Drained) /\ (Closed' <=> Closed)
      /\ Busy' = Busy /\ Asked' = Asked
  BY <1>1 DEF HostsToAsk, Queued, Drained, Closed, Busy, Asked
<1>3. WithWorker' = WithWorker
  BY <1>1, <1>2 DEF WithWorker
<1>4. PICK r, s : r = raw' /\ s = raw
  OBVIOUS
<1>5. /\ Elements(r) = Elements(s) /\ r \in Seq(Addresses) /\ Once(r)
      /\ \A i, j \in DOMAIN r : i < j => Rank[r[i]] < Rank[r[j]]
  <2>1. s \in Seq(Addresses) /\ Once(s) /\ r \in Sorted(s)
    BY <1>1, <1>4 DEF PoolInv, FoundInv
  <2>2. QED
    BY <2>1, SortedKeeps
<1>6. Found' = Found
  BY <1>4, <1>5 DEF Found
<1>7. WalkInv' /\ LeaveInv'
  BY <1>1, <1>2 DEF PoolInv, WalkInv, LeaveInv
<1>8. HostsInv'
  BY <1>1, <1>2, <1>3 DEF PoolInv, HostsInv
<1>9. FoundInv'
  BY <1>1, <1>2, <1>4, <1>5, <1>6 DEF PoolInv, FoundInv
<1>10. Found \subseteq answering \cap HostsToAsk
  BY DEF PoolInv, FoundInv, HostsInv, WalkInv
<1>11. ASSUME cancelled = FALSE PROVE ~WalksForever /\ Found = answering \cap HostsToAsk
  <2>1. 1 \in Workers
    BY DiscoveryAssumption DEF Workers
  <2>2. Drained
    BY <1>1, <1>11, <2>1 DEF PoolInv, LeaveInv
  <2>3. Queued = {}
    BY <2>2 DEF Drained, Queued, Elements
  <2>4. WithWorker = {}
    BY <1>1, AddressesAre DEF WithWorker, Busy
  <2>5. seen = Asked
    BY <1>11, <2>3, <2>4 DEF PoolInv, HostsInv
  <2>6. ~WalksForever /\ HostsToAsk \subseteq seen
    <3>1. subnets \in Seq(Cidrs) /\ at.subnet > Len(subnets)
      BY <2>2 DEF Drained, Closed, PoolInv, WalkInv
    <3>2. Len(subnets) \in Nat /\ DOMAIN subnets = 1 .. Len(subnets) /\ at.subnet \in Int
      BY <3>1, SubnetsAre DEF PoolInv, WalkInv
    <3>3. \A i \in DOMAIN subnets : ~Endless(subnets[i]) /\ VisitedHosts(subnets[i]) \subseteq seen
      BY <1>11, <3>1, <3>2 DEF PoolInv, WalkInv
    <3>4. QED
      BY <3>3 DEF HostsToAsk, WalksForever
  <2>7. QED
    BY <1>10, <1>11, <2>5, <2>6 DEF PoolInv, FoundInv
<1>12. RawIsExact'
  BY <1>1, <1>2, <1>4, <1>5, <1>6, <1>10, <1>11 DEF RawIsExact, WalksForever
<1>13. QED
  BY <1>7, <1>8, <1>9, <1>12 DEF PoolInv

\* A step of anything else leaves the pool alone; a signal takes nothing back.
LEMMA PoolStays ==
  ASSUME PoolInv, discoveryVars' = discoveryVars, cancelled' = FALSE => cancelled = FALSE
  PROVE  PoolInv' /\ (RawIsExact => RawIsExact')
<1>1. /\ subnets' = subnets /\ answering' = answering /\ at' = at /\ seen' = seen /\ jobs' = jobs
      /\ worker' = worker /\ probes' = probes /\ raw' = raw
  BY DEF discoveryVars
<1>2. HostsToAsk' = HostsToAsk /\ Queued' = Queued /\ (Drained' <=> Drained) /\ (Closed' <=> Closed)
      /\ Busy' = Busy /\ Asked' = Asked /\ Found' = Found
  BY <1>1 DEF HostsToAsk, Queued, Drained, Closed, Busy, Asked, Found
<1>3. WithWorker' = WithWorker
  BY <1>1, <1>2 DEF WithWorker
<1>4. WalkInv' /\ LeaveInv'
  BY <1>1, <1>2 DEF PoolInv, WalkInv, LeaveInv
<1>5. HostsInv'
  BY <1>1, <1>2, <1>3 DEF PoolInv, HostsInv
<1>6. FoundInv'
  BY <1>1, <1>2 DEF PoolInv, FoundInv
<1>7. RawIsExact => RawIsExact'
  BY <1>1, <1>2 DEF RawIsExact, WalksForever
<1>8. QED
  BY <1>4, <1>5, <1>6, <1>7 DEF PoolInv

\* At first no host was met.
LEMMA PoolStarts == Init => PoolInv /\ RawInv
<1> SUFFICES ASSUME Init PROVE PoolInv /\ RawInv
  OBVIOUS
<1>1. /\ stage = "start" /\ jobs = <<>> /\ raw = <<>> /\ seen = {} /\ at = StartOf(1)
      /\ worker = [w \in Workers |-> Idle] /\ probes = [a \in Addresses |-> 0]
  BY DEF Init, InitInvocation, InitDiscovery
<1>2. subnets \in Seq(Cidrs)
  <2>1. subnets \in SubnetLists \/ subnets = <<>>
    BY DEF Init, InitDiscovery
  <2>2. <<>> \in Seq(Cidrs)
    OBVIOUS
  <2>3. QED
    BY <2>1, <2>2, DiscoveryAssumption
<1>3. Len(subnets) \in Nat /\ 1 \in 1 .. Len(subnets) + 1
  BY <1>2, SubnetsAre
<1>4. /\ at \in [subnet : Int, host : Int] /\ at.subnet = 1
      /\ 1 <= Len(subnets) =>
           /\ at.host \in VisitedHosts(subnets[1])
           /\ ~Endless(subnets[1]) => \A g \in VisitedHosts(subnets[1]) : ~(g < at.host)
  BY <1>1, <1>2, <1>3, WalkStarts
<1>5. WalkInv
  <2>1. ~Closed => 1 <= Len(subnets)
    BY <1>3, <1>4 DEF Closed
  <2>2. \A i \in DOMAIN subnets : ~(i < 1)
    BY <1>2, SubnetsAre
  <2>3. QED
    BY <1>1, <1>2, <1>3, <1>4, <2>1, <2>2 DEF WalkInv
<1>6. Queued = {} /\ Busy = {} /\ WithWorker = {} /\ Asked = {} /\ Found = {}
  <2>1. Busy = {}
    BY <1>1, AddressesAre DEF Busy
  <2>2. QED
    BY <1>1, <2>1 DEF Queued, WithWorker, Asked, Found, Elements
<1>7. Once(<<>>)
  BY DEF Once
<1>8. HostsInv
  BY <1>1, <1>6, <1>7 DEF HostsInv
<1>9. LeaveInv
  BY <1>1 DEF LeaveInv, Idle, Left
<1>10. FoundInv
  BY <1>1, <1>6, <1>7 DEF FoundInv
<1>11. RawInv
  BY <1>1 DEF RawInv, Running
<1>12. QED
  BY <1>5, <1>8, <1>9, <1>10, <1>11 DEF PoolInv

\* The flags of a run never change, and a command does not send itself a signal.
LEMMA CommandsKeepFlags ==
  ASSUME Pipeline \/ AskOnce \/ Simple \/ Poll \/ Record \/ Fingerprint \/ SunSpecCommand \/ Discover
  PROVE  command' = command /\ cancelled' = cancelled
<1> USE DEF flags, invocationVars
<1>1. ASSUME NEW e, NEW b, Collected(e, b) PROVE command' = command /\ cancelled' = cancelled
  BY <1>1 DEF Collected
<1>2. Connect \/ StartCapture => command' = command /\ cancelled' = cancelled
  BY <1>1 DEF Connect, StartCapture
<1>3. Pipeline => command' = command /\ cancelled' = cancelled
  BY DEF Pipeline, MalformedEnvironment, Dispatch, AttachOutputFormat, Check, WriteResult,
    RenderFatal, Refuse, Proceed
<1>4. AskOnce => command' = command /\ cancelled' = cancelled
  BY <1>1, <1>2 DEF AskOnce, CollectRead, CollectDecode, CollectDiagnostics, CollectWrite
<1>5. Simple => command' = command /\ cancelled' = cancelled
  BY <1>1, <1>2 DEF Simple, ScanCommand, UnitsCommand, ServeCommand, ServeReturns, ExportCommand
<1>6. Poll => command' = command /\ cancelled' = cancelled
  BY <1>1, <1>2 DEF Poll, PollConnect, PollAgain, PollRead, PollEmit, PollSleep, FinishPoll, Goto
<1>7. Record => command' = command /\ cancelled' = cancelled
  BY <1>1, <1>2 DEF Record, ReadPlan, RecordConnect, RecordStart, Iterate, SendPlanRequest,
    EndIteration, RecordSleep, Continue
<1>8. Fingerprint => command' = command /\ cancelled' = cancelled
  BY <1>1, <1>2 DEF Fingerprint, FingerprintConnect, SupportsFunction, FingerprintPause,
    NextFunction, EndUnit
<1>9. SunSpecCommand => command' = command /\ cancelled' = cancelled
  BY <1>1, <1>2 DEF SunSpecCommand, openSunSpecModbusClient, ProbeFunction, Detect,
    ReadModelHeaders, Ends, GoOn
<1>10. Discover => command' = command /\ cancelled' = cancelled
  BY <1>1 DEF Discover, Produce, TakeJob, ProbeHost, EndDiscovery
<1>11. QED
  BY <1>3, <1>4, <1>5, <1>6, <1>7, <1>8, <1>9, <1>10

\* So no step of a run changes the command.
LEMMA FlagsStay == [Next]_vars => command' = command
<1>1. Clock \/ Signal \/ Exited \/ UNCHANGED vars => command' = command
  BY DEF Clock, TimePasses, Signal, Interrupt, Exited, vars, flags, invocationVars
<1>2. QED
  BY <1>1, CommandsKeepFlags DEF Next, Step

\* Only a discovery moves its pool, and the runner alone ends it.
LEMMA DiscoveryStep == IInv /\ IInv' /\ PoolInv /\ RawInv /\ [Next]_vars => PoolInv' /\ RawInv'
<1> SUFFICES ASSUME IInv, IInv', PoolInv, RawInv, [Next]_vars PROVE PoolInv' /\ RawInv'
  OBVIOUS
<1>1. cancelled \in BOOLEAN /\ command' = command
  BY FlagsStay DEF IInv, TypeInv
<1>2. CASE Discover
  <2>1. stage = "collect"
    BY <1>2 DEF Discover, Produce, TakeJob, ProbeHost, EndDiscovery, Discovering, Collecting
  <2>2. CASE EndDiscovery
    BY <1>1, <2>2, EndKeepsPool DEF RawInv
  <2>3. ASSUME ~EndDiscovery PROVE PoolInv' /\ stage' = "collect"
    <3>1. PoolInv'
      BY <1>1, <1>2, <2>3, ProduceKeepsPool, TakeJobKeepsPool, ProbeHostKeepsPool DEF Discover
    <3>2. stage' = stage
      BY <1>2, <2>3 DEF Discover, Produce, TakeJob, ProbeHost, invocationVars
    <3>3. QED
      BY <2>1, <3>1, <3>2
  <2>4. QED
    BY <2>2, <2>3 DEF RawInv, Running
<1>3. ASSUME discoveryVars' = discoveryVars, cancelled' = FALSE => cancelled = FALSE,
             command = "discover" /\ failure' = NoError /\ stage' \notin Running =>
               failure = NoError /\ stage \notin Running
      PROVE  PoolInv' /\ RawInv'
  BY <1>1, <1>3, PoolStays DEF RawInv
<1>4. CASE Pipeline /\ UNCHANGED ownVars
  <2>1. discoveryVars' = discoveryVars
    BY <1>4 DEF ownVars
  <2>2. cancelled' = cancelled
    BY <1>4 DEF Pipeline, MalformedEnvironment, Dispatch, AttachOutputFormat, Check,
      WriteResult, RenderFatal,
              Refuse, Proceed
  <2>3. ASSUME stage' = "fatal" PROVE failure' # NoError
    <3>1. failure' \in Errors
      BY <2>3 DEF IInv, FatalInv, Blamed
    <3>2. PICK e : e = failure'
      OBVIOUS
    <3>3. e # NoError
      BY <3>1, <3>2, ErrorsAreErrors
    <3>4. QED
      BY <3>2, <3>3
  <2>4. CASE MalformedEnvironment \/ Dispatch \/ AttachOutputFormat \/ Check
    <3>1. stage' = "fatal" \/ stage' \in Running
      <4>1. stage \in {"start", "attach", "check"}
        BY <2>4 DEF MalformedEnvironment, Dispatch, AttachOutputFormat, Check
      <4>2. Proceed => stage' \in Running
        BY <4>1, FollowingStage DEF Proceed, Running, IInv, LinkInv
      <4>3. QED
        BY <2>4, <4>2 DEF MalformedEnvironment, Dispatch, AttachOutputFormat, Check, Refuse, Fail
    <3>2. QED
      BY <1>3, <2>1, <2>2, <2>3, <3>1
  <2>5. CASE WriteResult \/ RenderFatal
    <3>1. stage \notin Running /\ (stage' # "fatal" => failure' = failure)
      BY <2>5 DEF WriteResult, RenderFatal, Refuse, Fail, Running
    <3>2. QED
      BY <1>3, <2>1, <2>2, <2>3, <3>1
  <2>6. QED
    BY <1>4, <2>4, <2>5 DEF Pipeline
<1>5. ASSUME AskOnce \/ Simple \/ Poll \/ Record \/ Fingerprint \/ SunSpecCommand, discoveryVars' = discoveryVars
      PROVE  PoolInv' /\ RawInv'
  <2>1. command # "discover"
    <3>1. Simple => command # "discover"
      BY DEF Simple, ScanCommand, UnitsCommand, ServeCommand, ExportCommand, Collecting, IInv, LinkInv
    <3>2. QED
      BY <1>5, <3>1 DEF AskOnce, CollectRead, CollectDecode, CollectDiagnostics, CollectWrite,
        Poll, PollConnect, PollAgain, PollRead, PollEmit, PollSleep, Polling,
        Record, ReadPlan, RecordConnect, RecordStart, Iterate, SendPlanRequest,
        EndIteration, RecordSleep, Recording,
        Fingerprint, FingerprintConnect, SupportsFunction, FingerprintPause, Fingerprinting,
        SunSpecCommand, openSunSpecModbusClient, ProbeFunction, Detect, ReadModelHeaders,
        SunSpecAt, SunSpecCommandNames, Walkers, Collecting
  <2>2. cancelled' = cancelled
    BY <1>5, CommandsKeepFlags
  <2>3. QED
    BY <1>3, <1>5, <2>1, <2>2
<1>6. CASE Clock \/ Signal \/ Exited \/ UNCHANGED vars
  <2>1. /\ discoveryVars' = discoveryVars /\ failure' = failure /\ stage' = stage
        /\ cancelled' = cancelled \/ cancelled' = TRUE
    BY <1>6 DEF Clock, TimePasses, Signal, Interrupt, ownVars, Exited, vars, invocationVars,
      flags, outcome
  <2>2. cancelled' = FALSE => cancelled = FALSE
    BY <2>1, Zenon
  <2>3. QED
    BY <1>3, <2>1, <2>2
<1>7. QED
  BY <1>2, <1>4, <1>5, <1>6 DEF Next, Step, ownVars

\* Discovery asks no host twice, and none that is not assignable but for those
\* of a /0.  Its result names devices only, once each and in order (of numbers
\* for IPv4, of texts for IPv6), and without a signal it names all of them and
\* no subnet is a /0 (discover.go): for every width of an address, any list of
\* subnets of one family that may overlap or end at the last address, any
\* devices and any number of workers.
THEOREM DiscoveryIsExactTheorem == Spec => []DiscoveryIsExact
<1>1. Spec => [](PoolInv /\ RawInv)
  <2>1. Init => PoolInv /\ RawInv
    BY PoolStarts
  <2>2. IInv /\ IInv' /\ (PoolInv /\ RawInv) /\ [Next]_vars => (PoolInv /\ RawInv)'
    BY DiscoveryStep
  <2>3. QED
    BY <2>1, <2>2, CommandsInvariant, PTL DEF Spec
<1>2. IInv /\ PoolInv /\ RawInv => DiscoveryIsExact
  <2> SUFFICES ASSUME IInv, PoolInv, RawInv PROVE DiscoveryIsExact
    OBVIOUS
  <2>1. \A a \in Addresses : probes[a] <= IF a \in HostsToAsk THEN 1 ELSE 0
    <3>1. TAKE a \in Addresses
    <3>2. probes[a] \in {0, 1} /\ (probes[a] = 1 => a \in Asked)
      BY DEF PoolInv, HostsInv, Asked
    <3>3. Asked \subseteq HostsToAsk
      BY DEF PoolInv, HostsInv, WalkInv
    <3>4. QED
      BY <3>2, <3>3
  <2>2. ASSUME Succeeded, command = "discover"
        PROVE  /\ \A i, j \in DOMAIN raw : i < j => Rank[raw[i]] < Rank[raw[j]]
               /\ Found \subseteq answering \cap HostsToAsk
               /\ ~cancelled => ~WalksForever /\ Found = answering \cap HostsToAsk
    <3>1. failure = NoError /\ stage \notin Running
      BY <2>2 DEF IInv, DoneInv, Succeeded, Done, ExitCodeTells, Running
    <3>2. ~cancelled => cancelled = FALSE
      BY Zenon DEF IInv, TypeInv
    <3>3. QED
      BY <2>2, <3>1, <3>2 DEF RawInv, RawIsExact
  <2>3. QED
    BY <2>1, <2>2 DEF DiscoveryIsExact, HostsToAsk, Found, Elements
<1>3. QED
  BY <1>1, <1>2, CommandsInvariant, PTL
=============================================================================
