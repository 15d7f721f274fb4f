-------------------------- MODULE SunSpecCommands ---------------------------
(***************************************************************************)
(* client sunspec detect, models, map and probe.  Finding the marker and   *)
(* walking the model headers are the library's (and, for a scan, module    *)
(* SunSpecScan's); here is what each command makes of their outcomes: an   *)
(* error ends detect, models and map, and is embedded in probe's result.   *)
(***************************************************************************)
EXTENDS Invocation

VARIABLES
  baseGiven,    (* --base is not 0: models and map skip the detection *)
  sunspecAt,
  probed,       (* function codes probe asked for *)
  embedded      (* probe's result holds an error *)

sunspecCommandVars == <<baseGiven, sunspecAt, probed, embedded>>

Walkers == {"models", "map"}
SunSpecCommandNames == {"detect", "probe"} \cup Walkers
ProbedFunctions == 3   \* FC03, FC04 and FC43

(* What probe reports: only a failed detection or walk, or any failure. *)
DetectionErrorsOnly(failed) == embedded \/ (failed /\ sunspecAt # "functions")
Embeds(failed) == embedded \/ failed
-----------------------------------------------------------------------------
InitSunSpecCommand ==
  /\ baseGiven \in IF command \in Walkers THEN BOOLEAN ELSE {FALSE}
  /\ sunspecAt = "connect" /\ probed = 0 /\ embedded = FALSE

SunSpecAt(at) == Collecting(SunSpecCommandNames) /\ sunspecAt = at
GoOn(at) == sunspecAt' = at /\ UNCHANGED <<flags, stage, cancelled, outcome, link, capture>>
Ends(err, failed) == Collected(err, failed) /\ UNCHANGED sunspecAt

openSunSpecModbusClient ==
  /\ SunSpecAt("connect")
  /\ Connect
  /\ sunspecAt' = IF command = "probe" THEN "functions" ELSE IF baseGiven THEN "headers" ELSE "detect"
  /\ UNCHANGED <<baseGiven, probed, embedded>>

ProbeFunction ==
  /\ SunSpecAt("functions")
  /\ \E err \in CallErrors \cup {NoError} : Sent(err) /\ embedded' = Embeds(err # NoError)
  /\ probed' = probed + 1
  /\ GoOn(IF probed' = ProbedFunctions THEN "detect" ELSE "functions")
  /\ UNCHANGED baseGiven

\* sunspec.Detect finds the marker, does not, or fails.
Detect ==
  /\ SunSpecAt("detect")
  /\ \/ Sent(NoError) /\ UNCHANGED embedded
        /\ IF command = "detect" THEN Ends(NoError, FALSE) ELSE GoOn("headers")
     \/ Sent(NoError) /\ UNCHANGED embedded /\ Ends(NoError, embedded)   \* not detected
     \/ \E err \in CallErrors :
          /\ Sent(err)
          /\ IF command = "probe" THEN embedded' = Embeds(TRUE) /\ Ends(NoError, embedded')
             ELSE UNCHANGED embedded /\ Ends(New("protocol", err), FALSE)
  /\ UNCHANGED <<baseGiven, probed>>

ReadModelHeaders ==
  /\ SunSpecAt("headers")
  /\ \/ Sent(NoError) /\ UNCHANGED embedded /\ Ends(NoError, embedded)
     \/ \E err \in CallErrors :
          /\ Sent(err)
          /\ IF command = "probe" THEN embedded' = Embeds(TRUE) /\ Ends(NoError, embedded')
             ELSE UNCHANGED embedded /\ Ends(New("protocol", err), FALSE)
  /\ UNCHANGED <<baseGiven, probed>>

SunSpecCommand == openSunSpecModbusClient \/ ProbeFunction \/ Detect \/ ReadModelHeaders
=============================================================================
