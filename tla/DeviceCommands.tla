--------------------------- MODULE DeviceCommands ---------------------------
(***************************************************************************)
(* The commands that ask the device one thing: client read, decode,        *)
(* diagnostic and write.  "reset" is a diagnostic that changes the device. *)
(***************************************************************************)
EXTENDS Invocation

(* Faulty forms of the definitions below: the faults the properties catch. *)
RetriedWrite ==
  /\ Collecting({"write"})
  /\ \/ Connect
     \/ /\ link = "open"
        /\ \E err \in CallErrors \cup {NoError} :
             /\ Sent(err)
             /\ \/ Collected(err, FALSE)
                \/ err # NoError /\ UNCHANGED <<flags, stage, cancelled, outcome, link, capture>>
-----------------------------------------------------------------------------
\* client read records what it reads; its errors are the exchange's.
CollectRead ==
  /\ Collecting({"read"})
  /\ \/ Connect
     \/ StartCapture
     \/ /\ capture = "open"
        /\ \E err \in CallErrors \cup DialErrors \cup {NoError, Output(Plain("other"))} :
             Sent(err) /\ Collected(err, FALSE)

\* client decode: what was read may not decode with the codec.
CollectDecode ==
  /\ Collecting({"decode"})
  /\ \/ Connect
     \/ /\ link = "open"
        /\ \E err \in CallErrors \cup DialErrors \cup {NoError} : Sent(err) /\ Collected(err, FALSE)
     \/ /\ link = "open"
        /\ Sent(NoError) /\ Collected(InvalidInput(Plain("other")), FALSE)

\* client diagnostic: every failure is reported under one kind.
CollectDiagnostics ==
  /\ Collecting({"diagnostic", "reset"})
  /\ \/ Connect
     \/ /\ link = "open"
        /\ \E err \in CallErrors : Sent(err) /\ Collected(New("modbus_exception", err), FALSE)
     \/ link = "open" /\ Sent(NoError) /\ Collected(NoError, FALSE)

\* client write: "A write is sent once: a retry after a lost response could
\* apply it twice."
CollectWrite ==
  /\ Collecting({"write"})
  /\ \/ Connect
     \/ /\ link = "open"
        /\ \E err \in CallErrors \cup {NoError} : Sent(err) /\ Collected(err, FALSE)

AskOnce == CollectRead \/ CollectDecode \/ CollectDiagnostics \/ CollectWrite
=============================================================================
