--------------------------- MODULE ImuClockProofs ---------------------------
(***************************************************************************)
(* The properties of ImuClock for every width of the times and every slack *)
(* below half their range.  NeverFarAhead is inductive as it stands; the   *)
(* other two say what one step does from a state in which it holds.        *)
(***************************************************************************)
EXTENDS ImuClock, TLAPS

(* Half the range is a whole number of times, and more than the slack.     *)
LEMMA Halves == /\ Half \in Nat /\ Range = Half + Half
                /\ Slack < Half /\ 1 < Half
BY ClockAssumption, SMT DEF Half

(* The distance of two times is a time, and none only from a time to       *)
(* itself.                                                                 *)
LEMMA Distance ==
  ASSUME NEW a \in Times, NEW b \in Times
  PROVE  Minus(a, b) \in Times /\ (Minus(a, b) = 0 <=> a = b)
BY Halves, SMT DEF Minus, Times

(* The next time is another one, and one further from where it is counted, *)
(* but for the whole range.                                                *)
LEMMA OneMore ==
  ASSUME NEW a \in Times, NEW b \in Times, Minus(a, b) < Half
  PROVE  /\ Successor(a) \in Times /\ Minus(Successor(a), a) = 1
         /\ Minus(Successor(a), b) = Minus(a, b) + 1
BY Halves, SMT DEF Minus, Times, Successor

(* The sensor and the clock, after the sensor has taken a step: the clock  *)
(* is still ahead by what the step has left of its lead, or behind by what *)
(* the step exceeds it.                                                    *)
LEMMA LeadAndStep ==
  ASSUME NEW from \in Times, NEW to \in Times, NEW ahead \in Times,
         Minus(ahead, from) <= Slack, Minus(to, from) < Half
  PROVE  \/ /\ Minus(to, from) <= Minus(ahead, from)
            /\ Minus(ahead, to) = Minus(ahead, from) - Minus(to, from)
         \/ /\ Minus(to, from) > Minus(ahead, from)
            /\ Minus(to, ahead) = Minus(to, from) - Minus(ahead, from)
            /\ Minus(ahead, to) = Range - Minus(to, ahead)
BY Halves, ClockAssumption, SMT DEF Minus, Times
-----------------------------------------------------------------------------
(* What a step starts from once there was a report.                        *)
LEMMA Known == NeverFarAhead /\ raw # None
                 => raw \in Times /\ sent \in Times /\ Minus(sent, raw) <= Slack
BY DEF NeverFarAhead

LEMMA Initially == Init => NeverFarAhead
BY DEF Init, NeverFarAhead

LEMMA Preserved == NeverFarAhead /\ [Next]_vars => NeverFarAhead'
<1> SUFFICES ASSUME NeverFarAhead, [Next]_vars PROVE NeverFarAhead'
  OBVIOUS
<1>1. ASSUME NEW time \in Times, Normalize(time) PROVE NeverFarAhead'
  <2>1. CASE Overtaken(time)
    <3>1. raw # None /\ Minus(sent, time) < Slack BY <2>1 DEF Overtaken
    <3>2. sent \in Times BY <3>1, Known
    <3>3. Minus(sent, time) \in Times BY <3>2, Distance
    <3>4. Minus(sent, time) < Half BY <3>1, <3>3, Halves, ClockAssumption, SMT DEF Times
    <3>5. /\ Successor(sent) \in Times
          /\ Minus(Successor(sent), time) = Minus(sent, time) + 1
      BY <3>2, <3>4, OneMore
    <3>6. Minus(Successor(sent), time) <= Slack
      BY <3>1, <3>3, <3>5, ClockAssumption, SMT DEF Times
    <3> QED BY <1>1, <2>1, <3>5, <3>6 DEF Normalize, NeverFarAhead
  <2>2. CASE ~Overtaken(time)
    <3>1. Minus(time, time) <= Slack
      BY Distance, ClockAssumption, SMT
    <3> QED BY <1>1, <2>2, <3>1 DEF Normalize, NeverFarAhead
  <2> QED BY <2>1, <2>2
<1>2. CASE UNCHANGED vars
  BY <1>2 DEF vars, NeverFarAhead
<1> QED BY <1>1, <1>2 DEF Next

(* imu_clock.py:25: for every width and slack the clock never runs ahead   *)
(* of the sensor by more than the slack.                                   *)
THEOREM ClockBounded == Spec => []NeverFarAhead
<1>1. Init => NeverFarAhead BY Initially
<1>2. NeverFarAhead /\ [Next]_vars => NeverFarAhead' BY Preserved
<1> QED BY <1>1, <1>2, PTL DEF Spec
-----------------------------------------------------------------------------
(* A time that the clock did not hold back goes out as it came.            *)
LEMMA Passed ==
  ASSUME NEW time \in Times, Normalize(time), ~Overtaken(time)
  PROVE  raw' = time /\ sent' = time
BY DEF Normalize

(* "Separate reports sharing a sensor timestamp" (imu_clock.py:4): each    *)
(* report has another time than the one before it, and a later one unless  *)
(* the sensor was reset or has repeated one time for the whole slack.      *)
THEOREM ReportsAdvance == Spec => TimeAdvances
<1> DEFINE Advance == raw # None =>
             /\ sent' # sent
             /\ \/ Minus(sent', sent) < Half
                \/ Minus(raw', raw) >= Half
                \/ raw' = raw /\ Minus(sent, raw) = Slack
<1>1. ASSUME NeverFarAhead, [Next]_vars PROVE [Advance]_vars
  <2> SUFFICES ASSUME NEW time \in Times, Normalize(time), raw # None
               PROVE  Advance
    BY <1>1 DEF Next
  <2>1. raw \in Times /\ sent \in Times /\ Minus(sent, raw) <= Slack
    BY <1>1, Known
  <2>2. Minus(sent, raw) \in Nat /\ Minus(time, raw) \in Nat
        /\ Minus(sent, time) \in Nat /\ Minus(time, sent) \in Nat
    BY <2>1, Distance, SMT DEF Times
  <2>3. CASE Overtaken(time)
    <3>1. Minus(sent, time) < Half
      BY <2>2, <2>3, Halves, ClockAssumption, SMT DEF Overtaken
    <3>2. Minus(Successor(sent), sent) = 1 /\ Successor(sent) \in Times
      BY <2>1, <3>1, OneMore
    <3>3. Successor(sent) # sent BY <2>1, <3>2, Distance, SMT
    <3> QED BY <2>3, <3>2, <3>3, Halves, SMT DEF Normalize
  <2>4. CASE ~Overtaken(time) /\ Minus(time, raw) >= Half
    <3>1. time # sent BY <2>1, <2>2, <2>4, Halves, ClockAssumption, SMT
    <3> QED BY <2>4, <3>1, Passed
  <2>5. CASE ~Overtaken(time) /\ Minus(time, raw) < Half
    <3>1. Minus(sent, time) >= Slack
      BY <2>2, <2>5, ClockAssumption, SMT DEF Overtaken
    <3>2. CASE Minus(time, raw) <= Minus(sent, raw)
      <4>1. Minus(sent, time) = Minus(sent, raw) - Minus(time, raw)
        BY <2>1, <2>2, <2>5, <3>2, LeadAndStep, SMT
      <4>2. Minus(sent, raw) = Slack /\ Minus(time, raw) = 0
        BY <2>1, <2>2, <3>1, <4>1, ClockAssumption, SMT
      <4>3. time = raw /\ raw # sent
        BY <2>1, <4>2, Distance, ClockAssumption, SMT
      <4> QED BY <2>5, <4>2, <4>3, Passed
    <3>3. CASE Minus(time, raw) > Minus(sent, raw)
      <4>1. Minus(time, sent) = Minus(time, raw) - Minus(sent, raw)
        BY <2>1, <2>2, <2>5, <3>3, LeadAndStep, SMT
      <4>2. Minus(time, sent) < Half /\ Minus(time, sent) # 0
        BY <2>2, <2>5, <3>3, <4>1, Halves, SMT
      <4>3. time # sent BY <2>1, <4>2, Distance
      <4> QED BY <2>5, <4>2, <4>3, Passed
    <3> QED BY <2>2, <3>2, <3>3, SMT
  <2> QED BY <2>2, <2>3, <2>4, <2>5, Halves, SMT
<1>2. Spec => []NeverFarAhead BY ClockBounded
<1> QED BY <1>1, <1>2, PTL DEF Spec, TimeAdvances

(* "Never replace a genuine clock reset" (imu_clock.py:5-6): the clock     *)
(* follows a step backwards, or one larger than the slack, at once.        *)
THEOREM ResetsFollowed == Spec => RealTimeKept
<1> DEFINE Kept == raw # None /\ (Minus(raw', raw) >= Half
                                    \/ Minus(raw', raw) > Slack)
                     => sent' = raw'
<1>1. ASSUME NeverFarAhead, [Next]_vars PROVE [Kept]_vars
  <2> SUFFICES ASSUME NEW time \in Times, Normalize(time), raw # None,
                      Minus(time, raw) >= Half \/ Minus(time, raw) > Slack
               PROVE  sent' = raw'
    BY <1>1 DEF Next, Normalize
  <2>1. raw \in Times /\ sent \in Times /\ Minus(sent, raw) <= Slack
    BY <1>1, Known
  <2>2. Minus(sent, raw) \in Nat /\ Minus(time, raw) \in Nat
        /\ Minus(sent, time) \in Nat /\ Minus(time, sent) \in Nat
    BY <2>1, Distance, SMT DEF Times
  <2>3. ASSUME Overtaken(time) PROVE FALSE
    <3>1. Minus(time, raw) < Half /\ Minus(sent, time) < Slack
      BY <2>3 DEF Overtaken
    <3>2. Minus(time, raw) > Slack
      BY <2>2, <3>1, Halves, SMT
    <3>3. /\ Minus(time, sent) = Minus(time, raw) - Minus(sent, raw)
          /\ Minus(sent, time) = Range - Minus(time, sent)
      BY <2>1, <2>2, <3>1, <3>2, LeadAndStep, ClockAssumption, SMT
    <3> QED BY <2>2, <3>1, <3>3, Halves, ClockAssumption, SMT
  <2> QED BY <2>3, Passed
<1>2. Spec => []NeverFarAhead BY ClockBounded
<1> QED BY <1>1, <1>2, PTL DEF Spec, RealTimeKept
=============================================================================
