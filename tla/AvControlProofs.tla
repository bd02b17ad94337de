-------------------------- MODULE AvControlProofs ---------------------------
(***************************************************************************)
(* For every length of the time-outs, pauses and budgets that the code's   *)
(* order between them allows, AvControl keeps its types, a wake that       *)
(* settles has read the television again, and standby spares a chain that  *)
(* is not showing the PC and treats its two devices alike.                 *)
(***************************************************************************)
EXTENDS AvControl, TLAPS

(* The standby: what has been away since the first check is away still,    *)
(* and a reading that was right excludes what it would have shown.         *)
SleepInv ==
  /\ SleepTypeOK
  /\ away \subseteq Differences(tv, avr)
  /\ sleep \in {"idle", "connect", "check1"} => away = {}
  /\ sleep = "check2" /\ match =>
       /\ "power" \notin todo => "tvOn" \notin away
       /\ todo \cap {"power", "app"} = {} => "tvPc" \notin away
       /\ "state" \notin todo => away \cap {"avrOn", "avrPc"} = {}
  /\ sleep = "off" => away = {} /\ Commands \ open \subseteq tried
  /\ sleep \in {"idle", "connect", "check1", "check2"}
       => tried = {} /\ open = {}
  /\ StandbySpares /\ StandbyTogether

(* How long ago the television was last read, at most.                     *)
SinceReading ==
  CASE television.at = "poll" -> television.age
    [] television.at = "power" -> TvPause + television.age
    [] OTHER -> TvPause + TvTime + television.age

(* A status that is right is no older than that, unless its task is dying. *)
FreshEnough ==
  stable # None /\ ~seen /\ status.tv /\ television.at # "dying"
    => stable =< SinceReading

(* The wake: a status that is right is no older than the reading it is     *)
(* taken from, and the next reading comes before it can have settled.      *)
WakeInv ==
  /\ WakeTypeOK
  /\ television.age =< TelevisionLimit
  /\ receiver.age =< ReceiverLimit
  /\ wake # "settled" => stable < StableTime
  /\ status.tv => television.at \in {"poll", "power", "app", "appWhileOff",
                                    "dying"}
  /\ FreshEnough
  /\ SettledTelevision

Coupled ==
  /\ pc \in {"awake", "suspending", "asleep"}
  /\ Running => pc = "awake"
  /\ pc # "suspending" => sleep = "idle"

AvInv == DevicesTypeOK /\ SleepInv /\ WakeInv /\ Coupled
-----------------------------------------------------------------------------
(* The parameters are positive numbers, and None is none of them.          *)
LEMMA Numbers ==
  /\ StableTime \in Nat /\ TvTime \in Nat /\ HttpTime \in Nat
  /\ TvPause \in Nat /\ AvrPause \in Nat /\ WolPause \in Nat
  /\ Budget \in Nat /\ CloseTime \in Nat
  /\ StableTime > 0 /\ TvTime > 0 /\ HttpTime > 0 /\ TvPause > 0
  /\ AvrPause > 0 /\ WolPause > 0 /\ Budget > 0 /\ CloseTime > 0
  /\ TvPause + 2 * TvTime < StableTime
BY WakeAssumption, SleepAssumption, CloseAssumption

(* Requests keep a device a device (Commanded).                            *)
LEMMA OutcomesTyped ==
  ASSUME NEW d \in Device, NEW r
  PROVE  Commanded(d, r) \in Device /\ Outcomes(d, r) \subseteq Device
BY DEF Commanded, Outcomes, Device

(* What Differences says of each of its four members.                      *)
LEMMA DifferencesAre ==
  ASSUME NEW t \in Device, NEW a \in Device
  PROVE  /\ Differences(t, a) \subseteq {"tvOn", "tvPc", "avrOn", "avrPc"}
         /\ "tvOn" \in Differences(t, a) <=> ~t.on
         /\ "tvPc" \in Differences(t, a) <=> ~t.pc
         /\ "avrOn" \in Differences(t, a) <=> ~a.on
         /\ "avrPc" \in Differences(t, a) <=> ~a.pc
BY DEF Differences, Device
-----------------------------------------------------------------------------
(* A reading that fits excludes what it would have shown (Read).           *)
LEMMA ReadStep ==
  ASSUME DevicesTypeOK, SleepInv, ReadPower \/ ReadApp \/ ReadState
  PROVE  SleepInv'
<1> USE DEF SleepTypeOK, StandbySpares, StandbyTogether, sleepVars, devices,
            DevicesTypeOK, SleepInv, Read, Checking, Commands
<1>0. /\ UNCHANGED <<devices, sleep, elapsed, tried, open, away, cut>>
      /\ SleepTypeOK'
  BY DEF ReadPower, ReadApp, ReadState
<1>1. CASE ReadPower
  <2>1. sleep = "check2" /\ match' => match /\ tv.on
    BY <1>1 DEF ReadPower
  <2>2. tv.on => "tvOn" \notin away
    BY DifferencesAre
  <2>3. todo' = (todo \ {"power"}) \cup {"app"}
    BY <1>1 DEF ReadPower
  <2> QED BY <1>0, <2>1, <2>2, <2>3
<1>2. CASE ReadApp
  <2>1. sleep = "check2" /\ match' => match /\ tv.pc
    BY <1>2 DEF ReadApp
  <2>2. tv.pc => "tvPc" \notin away
    BY DifferencesAre
  <2>3. todo' = todo \ {"app"}
    BY <1>2 DEF ReadApp
  <2> QED BY <1>0, <2>1, <2>2, <2>3
<1>3. CASE ReadState
  <2>1. sleep = "check2" /\ match' => match /\ avr = Target
    BY <1>3 DEF ReadState
  <2>2. avr = Target => away \cap {"avrOn", "avrPc"} = {}
    BY DifferencesAre DEF Target
  <2>3. todo' = todo \ {"state"}
    BY <1>3 DEF ReadState
  <2> QED BY <1>0, <2>1, <2>2, <2>3
<1> QED BY <1>1, <1>2, <1>3

(* The devices may change under the standby: what comes back to the target *)
(* is no longer away (StillAway).                                          *)
LEMMA AwayShrinks ==
  ASSUME SleepInv, StillAway
  PROVE  away' \subseteq Differences(tv, avr)' /\ away' \subseteq away
BY DEF SleepInv, StillAway, Differences

(* Every step of run keeps SleepInv.                                       *)
LEMMA SleepStep ==
  ASSUME DevicesTypeOK, SleepInv, SleepNext
  PROVE  SleepInv' /\ DevicesTypeOK' /\ sleep # "idle" /\ sleep' # "idle"
<1> USE DEF SleepTypeOK, StandbySpares, StandbyTogether, devices,
            DevicesTypeOK, SleepInv
<1>1. CASE SleepConnect
  BY <1>1 DEF SleepConnect, Snapshot, Commands
<1>2. CASE ReadPower \/ ReadApp \/ ReadState
  <2>1. DevicesTypeOK' /\ sleep # "idle" /\ sleep' = sleep
    BY <1>2 DEF ReadPower, ReadApp, ReadState, Read, Checking
  <2> QED BY <1>2, <2>1, ReadStep
<1>3. CASE Checked
  <2>1. away' \subseteq Differences(tv, avr)
    BY <1>3 DEF Checked
  <2>2. sleep = "check2" /\ match => away = {}
    BY <1>3 DEF Checked
  <2>3. Differences(tv, avr) \subseteq {"tvOn", "tvPc", "avrOn", "avrPc"}
    BY DifferencesAre
  <2>4. UNCHANGED <<devices, tried, cut>>
    BY <1>3 DEF Checked
  <2>5. elapsed' \in 0 .. Budget + CloseTime
    BY <1>3, Numbers DEF Checked, Close, Snapshot
  <2>6. CASE ~match /\ Close /\ UNCHANGED open
    BY <1>3, <2>1, <2>3, <2>4, <2>5, <2>6 DEF Checked, Close, Checking, Commands
  <2>7. CASE match /\ sleep = "check1" /\ Snapshot("check2")
                /\ UNCHANGED <<elapsed, open>>
    BY <1>3, <2>1, <2>3, <2>4, <2>5, <2>7
       DEF Checked, Snapshot, Checking, Commands
  <2>8. CASE match /\ sleep = "check2" /\ sleep' = "off" /\ open' = Commands
               /\ UNCHANGED <<elapsed, todo, match>>
    BY <1>3, <2>1, <2>2, <2>3, <2>4, <2>5, <2>8 DEF Checked, Checking, Commands
  <2> QED BY <1>3, <2>6, <2>7, <2>8 DEF Checked
<1>4. CASE SleepFails
  BY <1>4, Numbers DEF SleepFails, Close, Checking, Commands
<1>5. CASE SleepTick
  <2>1. elapsed' \in 0 .. Budget + CloseTime
    BY <1>5, Numbers DEF SleepTick
  <2> QED BY <1>5, <2>1 DEF SleepTick
<1>6. ASSUME NEW cs, StandbyOutcomes(cs)
      PROVE  /\ DevicesTypeOK' /\ away' \subseteq Differences(tv, avr)'
             /\ away' \subseteq away
  BY <1>6, OutcomesTyped, AwayShrinks DEF StandbyOutcomes
<1>7. CASE OutOfTime
  <2>1. /\ DevicesTypeOK' /\ away' \subseteq Differences(tv, avr)'
        /\ away' \subseteq away
    BY <1>6, <1>7 DEF OutOfTime
  <2>2. /\ sleep # "idle" /\ sleep' = "closing" /\ elapsed' = 0 /\ cut'
        /\ UNCHANGED <<todo, match, tried, open>>
    BY <1>7 DEF OutOfTime, Close
  <2>3. SleepTypeOK' BY <1>7, <2>1, <2>2, Numbers DEF OutOfTime
  <2>4. StandbySpares' BY <2>1, <2>2
  <2>5. StandbyTogether' BY <2>2
  <2> QED BY <2>1, <2>2, <2>3, <2>4, <2>5
<1>8. CASE Closed
  BY <1>8 DEF Closed
<1>9. ASSUME NEW c \in Commands, Request(c)
      PROVE  SleepInv' /\ DevicesTypeOK' /\ sleep # "idle" /\ sleep' # "idle"
  BY <1>9 DEF Request
<1>10. ASSUME NEW c \in Commands, Finish(c)
       PROVE  SleepInv' /\ DevicesTypeOK' /\ sleep # "idle" /\ sleep' # "idle"
  <2>1. /\ DevicesTypeOK' /\ away' \subseteq Differences(tv, avr)'
        /\ away' \subseteq away
    BY <1>6, <1>10 DEF Finish
  <2>2. /\ sleep = "off" /\ c \in open \cap tried /\ open' = open \ {c}
        /\ UNCHANGED <<tried, cut>>
    BY <1>10 DEF Finish
  <2>3. CASE open' = {}
    <3>1. /\ sleep' = "closing" /\ elapsed' = 0 /\ UNCHANGED <<todo, match>>
      BY <1>10, <2>3 DEF Finish, Close
    <3>2. tried' = Commands BY <2>2, <2>3
    <3>3. SleepTypeOK' BY <2>1, <2>2, <2>3, <3>1, Numbers
    <3>4. StandbySpares' /\ StandbyTogether' BY <2>1, <2>2, <3>2
    <3> QED BY <2>1, <2>2, <3>1, <3>3, <3>4
  <2>4. CASE open' # {}
    BY <1>10, <2>1, <2>2, <2>4 DEF Finish
  <2> QED BY <2>3, <2>4
<1> QED BY <1>1, <1>2, <1>3, <1>4, <1>5, <1>7, <1>8, <1>9, <1>10 DEF SleepNext
-----------------------------------------------------------------------------

(* Every step of the receiver's task keeps WakeInv.                        *)
LEMMA ReceiverStep ==
  ASSUME DevicesTypeOK, WakeInv, ReceiverNext
  PROVE  WakeInv' /\ DevicesTypeOK'
<1> USE DEF WakeInv, DevicesTypeOK, ReceiverNext, Task
<1>1. /\ UNCHANGED <<wake, stable, tvReady, television, wol, seen, calm>>
      /\ status' \in [tv : BOOLEAN, avr : BOOLEAN] /\ status'.tv = status.tv
  BY DEF WakeTypeOK, ReceiverAsks, ReceiverState, ReceiverCommand,
         ReceiverFails, devices
<1>2. receiver' \in [at : {"state", "PWON", "SI", "pause"}, age : {0}]
  <2>1. ReceiverState => receiver' \in {Task("pause"), Task("SI"), Task("PWON")}
    BY DEF ReceiverState
  <2> QED BY <2>1 DEF ReceiverAsks, ReceiverState, ReceiverCommand,
                      ReceiverFails
<1>3. receiverReady' \in BOOLEAN
  BY ZenonT(30) DEF WakeTypeOK, ReceiverAsks, ReceiverState, ReceiverCommand,
         ReceiverFails
<1>4. DevicesTypeOK'
  BY OutcomesTyped DEF ReceiverAsks, ReceiverState, ReceiverCommand,
         ReceiverFails, devices
<1>5. WakeTypeOK'
  BY <1>1, <1>2, <1>3, Numbers DEF WakeTypeOK
<1>6. receiver'.age =< ReceiverLimit'
  BY <1>2, Numbers DEF ReceiverLimit
<1>7. (television.age =< TelevisionLimit)' /\ (wake # "settled" => stable < StableTime)'
      /\ SettledTelevision'
  BY <1>1 DEF TelevisionLimit, Asking, Running, SettledTelevision
<1>8. FreshEnough'
  BY <1>1 DEF FreshEnough, SinceReading
<1> QED BY <1>1, <1>4, <1>5, <1>6, <1>7, <1>8

(* Every step of the wake packets' task keeps WakeInv.                     *)
LEMMA WolStep ==
  ASSUME DevicesTypeOK, WakeInv, WolNext
  PROVE  WakeInv' /\ DevicesTypeOK'
<1> USE DEF WakeInv, DevicesTypeOK, WolNext, Task
<1>1. /\ UNCHANGED <<status, stable, receiverReady, tvReady, receiver,
                     television, seen, calm>>
      /\ wake' \in {wake, "failed"} /\ Running
  BY DEF WakePacket, WakePacketFails, NoMorePackets
<1>2. wol' = wol \/ wol' \in [at : {"sleep", "done"}, age : {0}]
  BY DEF WakePacket, WakePacketFails, NoMorePackets
<1>3. DevicesTypeOK'
  BY DEF WakePacket, WakePacketFails, NoMorePackets, Device
<1>4. WakeTypeOK'
  BY <1>1, <1>2, Numbers DEF WakeTypeOK
<1>5. /\ (television.age =< TelevisionLimit)' /\ (receiver.age =< ReceiverLimit)'
      /\ (wake # "settled" => stable < StableTime)' /\ SettledTelevision'
  BY <1>1 DEF TelevisionLimit, ReceiverLimit, Asking, Running,
              SettledTelevision
<1>6. FreshEnough'
  BY <1>1 DEF FreshEnough, SinceReading
<1> QED BY <1>1, <1>3, <1>4, <1>5, <1>6

(* The television's answers and failures: an old status is dropped with    *)
(* the connection, or replaced by the next reading.                        *)
LEMMA TelevisionStep ==
  ASSUME DevicesTypeOK, WakeInv, TelevisionNext
  PROVE  WakeInv' /\ DevicesTypeOK'
<1> USE DEF WakeInv, DevicesTypeOK, Task
<1>1. /\ UNCHANGED <<stable, receiverReady, receiver, wol, calm>> /\ Running
      /\ avr' = avr /\ wake' \in {wake, "failed"}
  BY DEF TelevisionNext, Connect, Registered, EarlySwitch, Poll, Power, App,
         Switch, TelevisionFails, TelevisionDies, TelevisionClosed,
         devices
<1>2. DevicesTypeOK'
  BY OutcomesTyped DEF TelevisionNext, Connect, Registered, EarlySwitch, Poll,
         Power, App, Switch, TelevisionFails, TelevisionDies, TelevisionClosed,
         devices
<1>3. /\ television' = television
      \/ television' \in [at : {"connect", "early", "power", "app",
             "appWhileOff", "switchInput", "poll", "closing", "retry",
             "dying"}, age : {0}]
  BY DEF TelevisionNext, Connect, Registered, EarlySwitch, Poll, Power, App,
         Switch, TelevisionFails, TelevisionDies, TelevisionClosed
<1>4. /\ tvReady' \in BOOLEAN /\ seen' \in BOOLEAN
      /\ status' \in [tv : BOOLEAN, avr : BOOLEAN]
  BY ZenonT(30) DEF WakeTypeOK, TelevisionNext, Connect, Registered,
         EarlySwitch, Poll, Power, App, Switch, TelevisionFails,
         TelevisionDies, TelevisionClosed, Device
<1>5. WakeTypeOK'
  BY <1>1, <1>3, <1>4, Numbers DEF WakeTypeOK
<1>6. (television.age =< TelevisionLimit)'
  BY <1>1, <1>3, Numbers DEF TelevisionLimit, Asking
<1>7. /\ (receiver.age =< ReceiverLimit)' /\ (wake # "settled" => stable < StableTime)'
      /\ SettledTelevision'
  BY <1>1 DEF ReceiverLimit, Running, SettledTelevision
<1>8. /\ (status.tv => television.at \in {"poll", "power", "app",
                                          "appWhileOff", "dying"})'
      /\ FreshEnough'
  <2>1. CASE App
    BY <2>1 DEF App, WakeTypeOK, FreshEnough
  <2>2. CASE TelevisionFails
    BY <2>2 DEF TelevisionFails, WakeTypeOK, FreshEnough
  <2>3. CASE TelevisionDies \/ TelevisionClosed
    BY <2>3, <1>1 DEF TelevisionDies, TelevisionClosed, FreshEnough
  <2>4. CASE Connect \/ Registered \/ EarlySwitch \/ Switch
    BY <2>4 DEF Connect, Registered, EarlySwitch, Switch, FreshEnough
  <2>5. CASE Poll
    BY <2>5, <1>1, Numbers
       DEF Poll, FreshEnough, SinceReading, TelevisionLimit, Asking,
           WakeTypeOK
  <2>6. CASE Power
    BY <2>6, <1>1, Numbers
       DEF Power, FreshEnough, SinceReading, TelevisionLimit, Asking,
           WakeTypeOK
  <2> QED BY <2>1, <2>2, <2>3, <2>4, <2>5, <2>6 DEF TelevisionNext
<1> QED BY <1>2, <1>5, <1>6, <1>7, <1>8

(* A tick makes the status and what it rests on older by as much.  It      *)
(* settles only what has been right for longer than a pause and two        *)
(* readings take.                                                          *)
LEMMA TickStep ==
  ASSUME DevicesTypeOK, WakeInv, Tick
  PROVE  WakeInv' /\ DevicesTypeOK'
<1> USE DEF WakeInv, DevicesTypeOK
<1>1. /\ UNCHANGED <<devices, status, receiverReady, tvReady, calm>>
      /\ Running /\ NothingDue
  BY DEF Tick
<1>2. /\ television'.at = television.at
      /\ television'.age = IF television.at = "wait" THEN television.age
                           ELSE television.age + 1
  BY Numbers DEF Tick, Older, WakeTypeOK
<1>3. /\ receiver'.at = receiver.at /\ receiver'.age = receiver.age + 1
  BY Numbers DEF Tick, Older, WakeTypeOK
<1>4. /\ (television.age =< TelevisionLimit)'
      /\ (receiver.age =< ReceiverLimit)'
  BY <1>1, <1>2, <1>3, Numbers
     DEF NothingDue, TelevisionLimit, ReceiverLimit, Asking, WakeTypeOK
<1>5. stable' \in None .. StableTime /\ (wake # "settled" => stable < StableTime)'
  BY <1>1, Numbers DEF Tick, WakeTypeOK, None, Running
<1>6. FreshEnough'
  <2>1. CASE stable = None
    BY <1>1, <1>2, <2>1, Numbers
       DEF Tick, None, FreshEnough, SinceReading, WakeTypeOK
  <2>2. CASE stable # None /\ seen
    BY <2>2 DEF Tick, FreshEnough
  <2>3. CASE stable # None /\ ~seen
    BY <1>1, <1>2, <2>3, Numbers
       DEF Tick, None, FreshEnough, SinceReading, WakeTypeOK
  <2> QED BY <2>1, <2>2, <2>3
<1>7. SettledTelevision'
  <2>1. SUFFICES ASSUME wake' = "settled", television'.at # "dying"
                 PROVE  seen' /\ television'.at # "switchInput"
    BY DEF SettledTelevision
  <2>2. /\ stable' = StableTime /\ status.tv /\ stable = StableTime - 1
        /\ stable # None
    BY <1>1, <2>1, Numbers DEF Tick, Running, None, WakeTypeOK
  <2>3. SinceReading < TvPause + 2 * TvTime /\ television.at # "dying"
    BY <1>1, <1>2, <2>1, <2>2, Numbers
       DEF NothingDue, SinceReading, TelevisionLimit, Asking, WakeTypeOK
  <2>4. seen
    BY <2>2, <2>3, Numbers DEF FreshEnough, SinceReading, WakeTypeOK
  <2> QED BY <1>2, <2>2, <2>4 DEF Tick
<1>8. WakeTypeOK'
  <2>1. television' \in [at : {"wait", "connect", "early", "power", "app",
                               "appWhileOff", "switchInput", "poll",
                               "closing", "retry", "dying"},
                         age : 0 .. TvTime + TvPause + CloseTime]
    BY <1>1, Numbers
       DEF Tick, Older, NothingDue, TelevisionLimit, WakeTypeOK
  <2>2. receiver' \in [at : {"state", "PWON", "SI", "pause"},
                       age : 0 .. HttpTime + AvrPause]
    BY <1>1, Numbers
       DEF Tick, Older, NothingDue, ReceiverLimit, WakeTypeOK
  <2>3. wol' \in [at : {"wait", "sleep", "done"}, age : 0 .. WolPause]
    BY <1>1, Numbers DEF Tick, Older, NothingDue, WakeTypeOK
  <2>4. wake' \in {wake, "settled"}
    BY DEF Tick
  <2>5. seen' \in BOOLEAN
    BY Zenon DEF Tick
  <2> QED BY <1>1, <1>5, <2>1, <2>2, <2>3, <2>4, <2>5 DEF WakeTypeOK, devices
<1>9. (status.tv => television.at \in {"poll", "power", "app",
                                       "appWhileOff", "dying"})'
  BY <1>1, <1>2
<1> QED BY <1>1, <1>4, <1>5, <1>6, <1>7, <1>8, <1>9 DEF devices

(* Every step of the wake keeps WakeInv.                                   *)
LEMMA WakeStep ==
  ASSUME DevicesTypeOK, WakeInv, WakeNext
  PROVE  WakeInv' /\ DevicesTypeOK' /\ Running
<1>1. CASE ReceiverNext
  BY <1>1, ReceiverStep DEF ReceiverNext, ReceiverAsks, ReceiverState,
         ReceiverCommand, ReceiverFails
<1>2. CASE TelevisionNext
  BY <1>2, TelevisionStep DEF TelevisionNext, Connect, Registered,
         EarlySwitch, Poll, Power, App, Switch, TelevisionFails,
         TelevisionDies, TelevisionClosed
<1>3. CASE WolNext
  BY <1>3, WolStep DEF WolNext, WakePacket, WakePacketFails, NoMorePackets
<1>4. CASE Tick
  BY <1>4, TickStep DEF Tick
<1>5. CASE Expire
  BY <1>5 DEF Expire, WakeInv, WakeTypeOK, DevicesTypeOK, devices, Running,
         TelevisionLimit, ReceiverLimit, Asking, FreshEnough, SinceReading,
         SettledTelevision, tasks
<1> QED BY <1>1, <1>2, <1>3, <1>4, <1>5 DEF WakeNext

(* A part that a step leaves alone keeps its invariant.                    *)
LEMMA WakeUntouched ==
  ASSUME WakeInv, UNCHANGED wakeVars, calm' \in BOOLEAN
  PROVE  WakeInv'
BY DEF WakeInv, WakeTypeOK, wakeVars, tasks, Running, TelevisionLimit,
       ReceiverLimit, Asking, FreshEnough, SinceReading, SettledTelevision

LEMMA SleepUntouched ==
  ASSUME SleepInv, UNCHANGED sleepVars, UNCHANGED devices \/ away = {}
  PROVE  SleepInv'
BY DEF SleepInv, SleepTypeOK, sleepVars, devices, StandbySpares,
       StandbyTogether, Differences

(* A wake that was stopped, and one that has not begun.                    *)
LEMMA WakeIdles == WakeIdle /\ calm \in BOOLEAN => WakeInv
<1> SUFFICES ASSUME WakeIdle, calm \in BOOLEAN PROVE WakeInv
  OBVIOUS
<1> USE DEF WakeIdle, Task
<1>1. /\ receiver.age =< ReceiverLimit /\ television.age =< TelevisionLimit
  BY Numbers DEF ReceiverLimit, TelevisionLimit
<1>2. /\ receiver \in [at : {"state"}, age : {0}]
      /\ television \in [at : {"wait"}, age : {0}]
      /\ wol \in [at : {"wait"}, age : {0}]
  OBVIOUS
<1>3. /\ receiverReady \in BOOLEAN /\ tvReady \in BOOLEAN
      /\ seen \in BOOLEAN
  BY Zenon
<1>4. status \in [tv : BOOLEAN, avr : BOOLEAN]
  BY Zenon
<1>5. stable < StableTime
  BY Numbers DEF None
<1>6. WakeTypeOK
  BY <1>2, <1>3, <1>4, Numbers DEF WakeTypeOK, None
<1> QED BY <1>1, <1>5, <1>6 DEF WakeInv, SettledTelevision, FreshEnough

LEMMA SleepIdles == SleepIdle => SleepInv
<1> SUFFICES ASSUME SleepIdle PROVE SleepInv
  OBVIOUS
<1> USE DEF SleepIdle
<1>1. SleepTypeOK
  <2>1. match \in BOOLEAN /\ cut \in BOOLEAN BY Zenon
  <2> QED BY <2>1, Numbers DEF SleepTypeOK
<1>2. StandbySpares /\ StandbyTogether
  BY DEF StandbySpares, StandbyTogether
<1> QED BY <1>1, <1>2 DEF SleepInv

LEMMA Initially == Init => AvInv
BY WakeIdles, SleepIdles
   DEF Init, AvInv, Coupled, Running, WakeIdle, SleepIdle

(* Every step of the two units keeps AvInv.                                *)
LEMMA Preserved == AvInv /\ [Next]_vars => AvInv'
<1> SUFFICES ASSUME AvInv, [Next]_vars PROVE AvInv'
  OBVIOUS
<1> USE DEF AvInv
<1>1. CASE StartWake
  <2>1. /\ wake = "idle" /\ wake' = "running" /\ pc = "awake"
        /\ UNCHANGED <<devices, status, stable, receiverReady, tvReady, tasks,
                       seen, calm, sleepVars, pc>>
    BY <1>1 DEF StartWake, WakeStart
  <2>2. WakeTypeOK'
    BY <2>1 DEF WakeInv, WakeTypeOK, tasks
  <2>3. WakeInv'
    BY <2>1, <2>2
       DEF WakeInv, Running, TelevisionLimit, ReceiverLimit, Asking,
           FreshEnough, SinceReading, SettledTelevision, tasks
  <2> QED BY <2>1, <2>3, SleepUntouched
          DEF Coupled, devices, DevicesTypeOK, sleepVars
<1>2. CASE Suspend
  <2>1. DevicesTypeOK'
    BY <1>2, OutcomesTyped DEF Suspend, DevicesTypeOK
  <2>2. (WakeIdle /\ calm \in BOOLEAN)'
    BY <1>2 DEF Suspend, WakeStopped, WakeIdle, WakeInv, WakeTypeOK
  <2>3. WakeInv'
    BY <2>2, WakeIdles, PTL
  <2>4. SleepInv'
    BY <1>2 DEF Suspend, SleepStart, SleepInv, SleepTypeOK, StandbySpares,
                StandbyTogether, Differences
  <2> QED BY <1>2, <2>1, <2>3, <2>4
          DEF Suspend, WakeStopped, SleepStart, Coupled, Running
<1>3. CASE FallAsleep
  <2>1. SleepIdle' BY <1>3 DEF FallAsleep, SleepIdle
  <2>2. SleepInv' BY <2>1, SleepIdles, PTL
  <2> QED BY <1>3, <2>1, <2>2, WakeUntouched
          DEF FallAsleep, Coupled, devices, DevicesTypeOK, wakeVars, Running,
              SleepIdle, WakeInv, WakeTypeOK
<1>4. CASE Resume
  BY <1>4, WakeUntouched, SleepUntouched
     DEF Resume, Coupled, devices, DevicesTypeOK, wakeVars, Running,
         sleepVars, WakeInv, WakeTypeOK
<1>5. CASE Person
  <2>1. DevicesTypeOK'
    BY <1>5 DEF Person, Switched, DevicesTypeOK
  <2>2. WakeInv'
    BY <1>5, WakeUntouched DEF Person, WakeInv, WakeTypeOK
  <2>3. SleepInv'
    BY <1>5, AwayShrinks
       DEF Person, SleepInv, SleepTypeOK, StandbySpares, StandbyTogether
  <2> QED BY <1>5, <2>1, <2>2, <2>3 DEF Person, Coupled, wakeVars, Running
<1>6. CASE WakeNext /\ UNCHANGED <<sleepVars, pc>>
  <2>1. WakeInv' /\ DevicesTypeOK' /\ Running
    BY <1>6, WakeStep
  <2>2. SleepInv'
    BY <1>6, <2>1, SleepUntouched DEF Coupled, SleepInv
  <2> QED BY <1>6, <2>1, <2>2 DEF Coupled, sleepVars
<1>7. CASE SleepNext /\ UNCHANGED <<wakeVars, calm, pc>>
  <2>1. /\ SleepInv' /\ DevicesTypeOK' /\ sleep # "idle"
    BY <1>7, SleepStep
  <2>2. WakeInv'
    BY <1>7, WakeUntouched DEF WakeInv, WakeTypeOK
  <2> QED BY <1>7, <2>1, <2>2 DEF Coupled, wakeVars, Running
<1>8. CASE LeftAlone /\ UNCHANGED <<sleepVars, pc>>
  BY <1>8, WakeUntouched, SleepUntouched
     DEF LeftAlone, Coupled, devices, DevicesTypeOK, wakeVars, Running,
         sleepVars
<1>9. CASE UNCHANGED vars
  BY <1>9, WakeUntouched, SleepUntouched
     DEF vars, Coupled, devices, DevicesTypeOK, wakeVars, Running, sleepVars,
         WakeInv, WakeTypeOK
<1> QED BY <1>1, <1>2, <1>3, <1>4, <1>5, <1>6, <1>7, <1>8, <1>9 DEF Next
-----------------------------------------------------------------------------
THEOREM AlwaysAvInv == Spec => []AvInv
BY Initially, Preserved, PTL DEF Spec

(* The devices, the wake and the standby stay well typed; in particular no *)
(* request outlives its time-out and no pause its end, whatever the two    *)
(* scripts and the people in the room do.                                  *)
THEOREM TypeCorrect == Spec => []TypeOK
<1>1. AvInv => TypeOK
  BY DEF AvInv, TypeOK, WakeInv, SleepInv, Coupled
<1> QED BY <1>1, AlwaysAvInv, PTL

(* A wake settles only on a television that was read again since the       *)
(* status came right: two readings and a pause fit into the stable time.   *)
(* Only a task that is dying leaves an old reading, while it closes.       *)
THEOREM TelevisionRead == Spec => []SettledTelevision
<1>1. AvInv => SettledTelevision
  BY DEF AvInv, WakeInv
<1> QED BY <1>1, AlwaysAvInv, PTL

(* No standby request is begun for a chain that has been showing something *)
(* else since the end of the first check.                                  *)
THEOREM ChainSpared == Spec => []StandbySpares
<1>1. AvInv => StandbySpares
  BY DEF AvInv, SleepInv
<1> QED BY <1>1, AlwaysAvInv, PTL

(* A standby that its budget does not cut off is asked of both devices or  *)
(* of neither, though one of them should fail.                             *)
THEOREM BothOrNeither == Spec => []StandbyTogether
<1>1. AvInv => StandbyTogether
  BY DEF AvInv, SleepInv
<1> QED BY <1>1, AlwaysAvInv, PTL
=============================================================================
