------------------------------ MODULE ImuClock ------------------------------
(***************************************************************************)
(* ImuClock.normalize of imu_clock.py: the relay moves the sensor times of *)
(* input reports so that no two reports in a row have the same one.  Times *)
(* are unsigned integers of a fixed width and wrap; one is later than      *)
(* another if it is less than half the range ahead.  A report without a    *)
(* sensor time passes unchanged and leaves the clock alone.                *)
(***************************************************************************)
EXTENDS Integers

CONSTANTS
  Range, \* number of times (2^32)
  Slack  \* the clock runs ahead of the sensor by at most this (1000)

ASSUME ClockAssumption ==
  /\ Range \in Nat /\ Slack \in Nat \ {0}
  /\ Range % 2 = 0 /\ 2 * Slack < Range

VARIABLES
  raw,  \* the sensor's time in the last report, or None
  sent, \* the time forwarded in its place, or None
  odd   \* history: the number of reports so far is odd

vars == <<raw, sent, odd>>

None  == -1
Times == 0 .. Range - 1
Half  == Range \div 2

Minus(a, b) == IF a >= b THEN a - b ELSE a - b + Range
Successor(a) == IF a = Range - 1 THEN 0 ELSE a + 1

Init == raw = None /\ sent = None /\ odd = FALSE

(* Mutant of Overtaken: only a repeated time counts, not one that earlier  *)
(* repetitions have used up.                                               *)
Repeated(time) == raw # None /\ time = raw /\ Minus(sent, time) < Slack

(* Mutant of Overtaken: a jump backwards is taken for a late report.       *)
OvertakenByReset(time) == raw # None /\ Minus(sent, time) < Slack

(* Mutant of Overtaken: one microsecond too many.                          *)
OvertakenBySlack(time) ==
  raw # None /\ Minus(time, raw) < Half /\ Minus(sent, time) <= Slack

(* The sensor's clock stands still, or takes a step that is too small to   *)
(* pass the time that was sent last.                                       *)
Overtaken(time) ==
  raw # None /\ Minus(time, raw) < Half /\ Minus(sent, time) < Slack

Normalize(time) ==
  /\ sent' = IF Overtaken(time) THEN Successor(sent) ELSE time
  /\ raw' = time
  /\ odd' = ~odd

Next == \E time \in Times : Normalize(time)
Spec == Init /\ [][Next]_vars
-----------------------------------------------------------------------------
(* However often a time is repeated, the clock never runs ahead of the     *)
(* sensor by more than the slack (imu_clock.py:25; the bound that          *)
(* test_imu_clock.py asserts), also where the times wrap.                  *)
NeverFarAhead ==
  \/ raw = None /\ sent = None
  \/ raw \in Times /\ sent \in Times /\ Minus(sent, raw) <= Slack

(* Each report has a later time than the one before it ("separate reports  *)
(* sharing a sensor timestamp"), unless the sensor's clock has gone back   *)
(* or the slack is used up; and even then it has not the same time.        *)
TimeAdvances ==
  [][raw # None =>
       /\ sent' # sent
       /\ \/ Minus(sent', sent) < Half
          \/ Minus(raw', raw) >= Half
          \/ raw' = raw /\ Minus(sent, raw) = Slack]_vars

(* "Never replace a genuine clock reset", and no step that passes all that *)
(* the clock can be ahead: such a time goes out as the sensor gave it.     *)
RealTimeKept ==
  [][raw # None /\ (Minus(raw', raw) >= Half \/ Minus(raw', raw) > Slack)
       => sent' = raw']_vars
=============================================================================
