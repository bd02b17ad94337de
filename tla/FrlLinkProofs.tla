---------------------------- MODULE FrlLinkProofs ----------------------------
(***************************************************************************)
(* Proofs about FrlLink: its types, and that the check of an enabled link  *)
(* goes on.  Recovers rests on fairness and is left to TLC.                *)
(***************************************************************************)
EXTENDS FrlLink, TLAPS

LEMMA SinkFields ==
  ASSUME NEW s \in Sink
  PROVE  /\ [s EXCEPT !.config = FALSE, !.locked = FALSE, !.update = FALSE] \in Sink
         /\ [s EXCEPT !.config = TRUE, !.update = FALSE] \in Sink
         /\ [s EXCEPT !.locked = TRUE, !.update = FALSE] \in Sink
         /\ [s EXCEPT !.update = TRUE] \in Sink
         /\ [s EXCEPT !.config = FALSE] \in Sink
         /\ [s EXCEPT !.locked = FALSE] \in Sink
         /\ \A c, r, w \in BOOLEAN :
              [s EXCEPT !.connected = c, !.ready = r, !.willing = w] \in Sink
BY Zenon DEF Sink

LEMMA TypeInit == Init => TypeOK
BY DEF Init, TypeOK, Sink

LEMMA TypeModeset ==
  ASSUME TypeOK, NEW who \in {"user", "check"}, Modeset(who), queued' \in BOOLEAN
  PROVE  TypeOK'
<1>1. sink' \in Sink BY SinkFields DEF TypeOK, Modeset, Without
<1>2. active' \in BOOLEAN /\ known' \in BOOLEAN /\ trained' \in BOOLEAN
  BY Zenon DEF TypeOK, Modeset
<1>3. /\ commit' \in {"none", "lts2", "lts3", "ltsp"}
      /\ by' \in {"user", "check"}
  BY DEF Modeset
<1>4. /\ calm' \in BOOLEAN /\ passed' \in BOOLEAN
      /\ access' \in BOOLEAN /\ missed' \in BOOLEAN
  BY Zenon DEF TypeOK, Modeset, gate
<1> QED BY <1>1, <1>2, <1>3, <1>4, Zenon DEF TypeOK

LEMMA TypeEnabled ==
  ASSUME TypeOK, NEW result \in BOOLEAN, Enabled(result), UNCHANGED sink
  PROVE  TypeOK'
<1>1. /\ commit' \in {"none", "lts2", "lts3", "ltsp"}
      /\ by' \in {"user", "check"} /\ sink' \in Sink
  BY DEF TypeOK, Enabled
<1> QED BY <1>1, Zenon DEF TypeOK, Enabled

LEMMA TypeNext == TypeOK /\ [Next]_vars => TypeOK'
<1> SUFFICES ASSUME TypeOK, [Next]_vars PROVE TypeOK'
  OBVIOUS
<1>1. CASE UserModeset
  BY <1>1, TypeModeset, Zenon DEF UserModeset, TypeOK
<1>2. CASE Disable
  <2>1. sink' \in Sink BY <1>2, SinkFields DEF Disable, TypeOK, Without
  <2>2. queued' \in BOOLEAN BY <1>2, Zenon DEF Disable, TypeOK
  <2> QED BY <1>2, <2>1, <2>2, Zenon DEF Disable, TypeOK
<1>3. CASE TrainingFails
  BY <1>3, TypeEnabled, Zenon DEF TrainingFails
<1>4. CASE StartFrl
  <2>1. CASE trained
    BY <1>4, <2>1, TypeEnabled, Zenon DEF StartFrl
  <2>2. CASE ~trained
    <3>1. sink' \in Sink BY <1>4, <2>2, SinkFields DEF StartFrl, TypeOK
    <3>2. commit' \in {"none", "lts2", "lts3", "ltsp"}
      BY <1>4, <2>2 DEF StartFrl
    <3> QED BY <1>4, <2>2, <3>1, <3>2, Zenon DEF StartFrl, TypeOK, gate
  <2> QED BY <2>1, <2>2
<1>5. CASE TrainLts3
  <2>1. sink' \in Sink BY <1>5, SinkFields DEF TrainLts3, TypeOK
  <2>2. commit' \in {"none", "lts2", "lts3", "ltsp"} BY <1>5 DEF TrainLts3
  <2> QED BY <1>5, <2>1, <2>2, Zenon DEF TrainLts3, TypeOK, gate
<1>6. CASE CompleteLtsp
  BY <1>6, TypeEnabled, Zenon DEF CompleteLtsp
<1>7. CASE Probe
  <2>1. known' \in BOOLEAN /\ trained' \in BOOLEAN
    BY <1>7 DEF Probe, TypeOK, Sink
  <2> QED BY <1>7, <2>1, Zenon DEF Probe, TypeOK, gate
<1>8. CASE CheckWaits
  BY <1>8, Zenon DEF CheckWaits, vars, gate, TypeOK
<1>9. CASE CheckStops
  BY <1>9, Zenon DEF CheckStops, TypeOK, gate
<1>10. CASE CheckRecovers
  BY <1>10, TypeModeset, Zenon DEF CheckRecovers
<1>11. CASE SinkChanges
  <2>1. sink' \in Sink BY <1>11, SinkFields DEF SinkChanges, TypeOK
  <2> QED BY <1>11, <2>1, Zenon DEF SinkChanges, TypeOK, gate
<1>12. CASE Settle
  BY <1>12, Zenon DEF Settle, TypeOK, gate
<1>13. CASE UNCHANGED vars
  BY <1>13, Zenon DEF vars, gate, TypeOK
<1>14. CASE CheckDropped
  BY <1>14, Zenon DEF CheckDropped, TypeOK
<1>15. CASE AccessChanges
  BY <1>15, Zenon DEF AccessChanges, TypeOK
<1> QED BY <1>1, <1>2, <1>3, <1>4, <1>5, <1>6, <1>7, <1>8, <1>9, <1>10,
           <1>11, <1>12, <1>13, <1>14, <1>15, Zenon DEF Next, Training, Check

(* The link, the commit and the sink keep their types.                     *)
THEOREM TypeCorrect == Spec => []TypeOK
BY TypeInit, TypeNext, PTL DEF Spec
-----------------------------------------------------------------------------
LEMMA CheckGoesOnNext == CheckGoesOn /\ [Next]_vars => CheckGoesOn'
<1> SUFFICES ASSUME CheckGoesOn, [Next]_vars PROVE CheckGoesOn'
  OBVIOUS
<1>1. ASSUME NEW who, Modeset(who) PROVE CheckGoesOn'
  BY <1>1 DEF Modeset, CheckGoesOn
<1>2. ASSUME NEW result, Enabled(result) PROVE CheckGoesOn'
  BY <1>2 DEF Enabled, CheckGoesOn
<1>3. CASE UserModeset BY <1>3, <1>1 DEF UserModeset
<1>4. CASE Disable BY <1>4 DEF Disable, CheckGoesOn
<1>5. CASE Training
  <2>1. CASE StartFrl BY <2>1, <1>2 DEF StartFrl, gate, CheckGoesOn
  <2>2. CASE TrainLts3 BY <2>2 DEF TrainLts3, gate, CheckGoesOn
  <2> QED BY <1>5, <1>2, <2>1, <2>2 DEF Training, TrainingFails, CompleteLtsp
<1>6. CASE Probe BY <1>6 DEF Probe, gate, CheckGoesOn
<1>7. CASE Check
  <2>1. CASE CheckWaits BY <2>1 DEF CheckWaits, vars, gate, CheckGoesOn
  <2>2. CASE CheckStops BY <2>2 DEF CheckStops, gate, CheckGoesOn
  <2>3. CASE CheckRecovers BY <2>3, <1>1 DEF CheckRecovers
  <2>4. CASE CheckDropped BY <2>4 DEF CheckDropped, CheckGoesOn
  <2> QED BY <1>7, <2>1, <2>2, <2>3, <2>4 DEF Check
<1>8. CASE SinkChanges BY <1>8 DEF SinkChanges, gate, CheckGoesOn
<1>9. CASE Settle BY <1>9 DEF Settle, gate, CheckGoesOn
<1>10. CASE UNCHANGED vars BY <1>10 DEF vars, gate, CheckGoesOn
<1>11. CASE AccessChanges BY <1>11 DEF AccessChanges, CheckGoesOn
<1> QED BY <1>3, <1>4, <1>5, <1>6, <1>7, <1>8, <1>9, <1>10, <1>11 DEF Next

(* 0053, lines 44-45 and 126-128: whatever fails, an enabled output with   *)
(* an FRL mode is looked at again, unless a check came due while the       *)
(* driver was suspending, resuming or loading.                             *)
THEOREM CheckNeverLost == Spec => []CheckGoesOn
<1>1. Init => CheckGoesOn BY DEF Init, CheckGoesOn
<1>2. CheckGoesOn /\ [Next]_vars => CheckGoesOn' BY CheckGoesOnNext
<1> QED BY <1>1, <1>2, PTL DEF Spec
-----------------------------------------------------------------------------
(* Who commits has enabled the output, and has its disabling behind him.   *)
FlagOfTheLink ==
  /\ commit # "none" => active /\ ~trained
  /\ trained => active

LEMMA FlagOfTheLinkNext == FlagOfTheLink /\ [Next]_vars => FlagOfTheLink'
<1> SUFFICES ASSUME FlagOfTheLink, [Next]_vars PROVE FlagOfTheLink'
  OBVIOUS
<1>1. ASSUME NEW who, Modeset(who) PROVE FlagOfTheLink'
  BY <1>1 DEF Modeset, FlagOfTheLink
<1>2. ASSUME NEW result, commit # "none", Enabled(result) PROVE FlagOfTheLink'
  BY <1>2 DEF Enabled, FlagOfTheLink
<1>3. CASE UserModeset BY <1>3, <1>1 DEF UserModeset
<1>4. CASE Disable BY <1>4 DEF Disable, FlagOfTheLink
<1>5. CASE Training
  <2>1. CASE TrainingFails BY <2>1, <1>2 DEF TrainingFails
  <2>2. CASE StartFrl BY <2>2, <1>2 DEF StartFrl, FlagOfTheLink
  <2>3. CASE TrainLts3 BY <2>3 DEF TrainLts3, FlagOfTheLink
  <2>4. CASE CompleteLtsp BY <2>4, <1>2 DEF CompleteLtsp
  <2> QED BY <1>5, <2>1, <2>2, <2>3, <2>4 DEF Training
<1>6. CASE Probe BY <1>6 DEF Probe, FlagOfTheLink
<1>7. CASE Check
  <2>1. CASE CheckWaits BY <2>1 DEF CheckWaits, vars, gate, FlagOfTheLink
  <2>2. CASE CheckStops BY <2>2 DEF CheckStops, gate, FlagOfTheLink
  <2>3. CASE CheckRecovers BY <2>3, <1>1 DEF CheckRecovers
  <2>4. CASE CheckDropped BY <2>4 DEF CheckDropped, FlagOfTheLink
  <2> QED BY <1>7, <2>1, <2>2, <2>3, <2>4 DEF Check
<1>8. CASE SinkChanges BY <1>8 DEF SinkChanges, gate, FlagOfTheLink
<1>9. CASE Settle BY <1>9 DEF Settle, gate, FlagOfTheLink
<1>10. CASE UNCHANGED vars BY <1>10 DEF vars, gate, FlagOfTheLink
<1>11. CASE AccessChanges BY <1>11 DEF AccessChanges, FlagOfTheLink
<1> QED BY <1>3, <1>4, <1>5, <1>6, <1>7, <1>8, <1>9, <1>10, <1>11 DEF Next

(* The early return of intel_hdmi_start_frl (0014, lines 245-252) is never *)
(* taken: a link that is set up is always trained, whatever the trained    *)
(* flag was when the recovery or the modeset began.                        *)
THEOREM TrainingNeverSkipped == Spec => [](commit # "none" => ~trained)
<1>1. Init => FlagOfTheLink BY DEF Init, FlagOfTheLink
<1>2. FlagOfTheLink /\ [Next]_vars => FlagOfTheLink' BY FlagOfTheLinkNext
<1>3. FlagOfTheLink => (commit # "none" => ~trained) BY DEF FlagOfTheLink
<1> QED BY <1>1, <1>2, <1>3, PTL DEF Spec
=============================================================================
