------------------------- MODULE FingerprintCommand -------------------------
(***************************************************************************)
(* client fingerprint: ask every unit for every read function code.  An    *)
(* error ends the unit, not the run, and is kept in the unit's row.        *)
(***************************************************************************)
EXTENDS Invocation

CONSTANTS
  FingerprintUnits,   (* units of the unit selector *)
  ReadFunctions       (* number of read function codes that are asked for *)

ASSUME FingerprintAssumption ==
  FingerprintUnits \in Nat \ {0} /\ ReadFunctions \in Nat \ {0}

VARIABLES
  paced,           (* --interval is not 0 *)
  fingerprintAt,
  asked,           (* function codes asked of the unit *)
  row,             (* the row of the unit *)
  rows

fingerprintVars == <<paced, fingerprintAt, asked, row, rows>>

EmptyRow == [supported |-> 0, error |-> "none"]

\* "True when at least one read FC was confirmed before a later probe error."
FingerprintUnitPartial(u) == u.error # "none" /\ u.supported > 0
FingerprintUnitUnusable(u) == u.error # "none" /\ u.supported = 0

(* Faulty form of the next definition: the fault the properties catch. *)
UnusableOnly(us) == \E i \in DOMAIN us : FingerprintUnitUnusable(us[i])

HasPartialFailure(us) ==
  \E i \in DOMAIN us : FingerprintUnitPartial(us[i]) \/ FingerprintUnitUnusable(us[i])

-----------------------------------------------------------------------------
InitFingerprint ==
  /\ paced \in IF command = "fingerprint" THEN BOOLEAN ELSE {FALSE}
  /\ fingerprintAt = "connect" /\ asked = 0 /\ row = EmptyRow /\ rows = <<>>

Fingerprinting(at) == Collecting({"fingerprint"}) /\ fingerprintAt = at

FingerprintConnect ==
  /\ Fingerprinting("connect")
  /\ Connect
  /\ fingerprintAt' = "ask"
  /\ UNCHANGED <<paced, asked, row, rows>>

\* Append the unit's row and go on to the next unit, or fill the summary.
EndUnit(r) ==
  /\ rows' = Append(rows, r)
  /\ asked' = 0 /\ row' = EmptyRow
  /\ IF Len(rows') = FingerprintUnits
     THEN Collected(NoError, HasPartialFailure(rows'))
     ELSE UNCHANGED <<flags, stage, cancelled, outcome, link, capture>>

NextFunction(r) ==
  IF asked + 1 = ReadFunctions THEN EndUnit(r)
  ELSE /\ asked' = asked + 1 /\ row' = r
       /\ UNCHANGED <<flags, stage, cancelled, outcome, link, capture, rows>>

SupportsFunction ==
  /\ Fingerprinting("ask")
  /\ \/ \E supported \in {0, 1} :
          LET r == [row EXCEPT !.supported = @ + supported]
          IN  /\ Sent(NoError)
              /\ IF paced
                 THEN /\ fingerprintAt' = "pause" /\ row' = r
                      /\ UNCHANGED <<flags, stage, cancelled, outcome, link, capture, asked, rows>>
                 ELSE NextFunction(r) /\ UNCHANGED fingerprintAt
     \/ \E err \in CallErrors :
          /\ Sent(err)
          /\ EndUnit([row EXCEPT !.error = EmbeddedErrorKind(err)])
          /\ UNCHANGED fingerprintAt
  /\ UNCHANGED paced

\* The pause follows every function code, the last one too.
FingerprintPause ==
  /\ Fingerprinting("pause")
  /\ \/ NextFunction(row) /\ fingerprintAt' = "ask"
     \/ cancelled /\ Collected(Plain("canceled"), FALSE) /\ UNCHANGED <<fingerprintAt, asked, row, rows>>
  /\ UNCHANGED <<paced, requests, missed>>

Fingerprint == FingerprintConnect \/ SupportsFunction \/ FingerprintPause
=============================================================================
