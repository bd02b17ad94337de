------------------------------ MODULE AvSleep ------------------------------
(***************************************************************************)
(* sleep_av.py: before the PC sleeps, reads the television and the         *)
(* receiver twice and puts both in standby if they show the PC each time.  *)
(* The television is asked for its power state and then for its app, while *)
(* the receiver is asked for its state.  Anything that fails, and the      *)
(* budget of three seconds, ends the attempt without another one.          *)
(***************************************************************************)
EXTENDS AvDevices

CONSTANT Budget \* CHECK_BUDGET, in ticks

ASSUME SleepAssumption == Budget \in Nat \ {0}

VARIABLES
  sleep,   \* what run is doing
  elapsed, \* ticks since it began, or since it began to close
  todo,    \* readings that the check still lacks
  match,   \* those it has all showed the target
  tried,   \* standby requests that were begun, refused connections included
  open,    \* standby commands that are not finished
  away,    \* history: what differed from the target at the end of the first
           \* check and has done so ever since
  cut      \* history: the budget has ended it

sleepVars == <<sleep, elapsed, todo, match, tried, open, away, cut>>

Commands == {"turnOff", "PWSTANDBY"}

(* What differs from TARGET.                                               *)
Differences(t, a) ==
  {x \in {"tvOn", "tvPc", "avrOn", "avrPc"} :
     ~CASE x = "tvOn" -> t.on [] x = "tvPc" -> t.pc
        [] x = "avrOn" -> a.on [] x = "avrPc" -> a.pc}

StillAway == away' = away \cap Differences(tv', avr')

SleepIdle ==
  /\ sleep = "idle" /\ elapsed = 0 /\ todo = {} /\ match = TRUE
  /\ tried = {} /\ open = {} /\ away = {} /\ cut = FALSE

(* The attempt ends at once where there is no pairing key.                 *)
SleepStart ==
  /\ sleep = "idle" /\ sleep' \in {"connect", "done"}
  /\ UNCHANGED <<elapsed, todo, match, tried, open, away, cut>>

Checking == sleep \in {"check1", "check2"}

(* A call of snapshot.                                                     *)
Snapshot(check) ==
  /\ sleep' = check /\ todo' = {"power", "state"} /\ match' = TRUE

Close == sleep' = "closing" /\ elapsed' = 0 /\ UNCHANGED <<todo, match>>

SleepConnect ==
  /\ sleep = "connect" /\ Snapshot("check1")
  /\ UNCHANGED <<devices, elapsed, tried, open, away, cut>>

Read(reading, right, next) ==
  /\ Checking /\ reading \in todo
  /\ match' = (match /\ right)
  /\ todo' = (todo \ {reading}) \cup next
  /\ UNCHANGED <<devices, sleep, elapsed, tried, open, away, cut>>

ReadPower == Read("power", tv.on, {"app"})
ReadApp   == Read("app", tv.pc, {})
ReadState == Read("state", avr = Target, {})

(* Mutant of Checked: one check is enough.                                 *)
CheckedOnce ==
  /\ Checking /\ todo = {}
  /\ away' = Differences(tv, avr)
  /\ \/ ~match /\ Close /\ UNCHANGED open
     \/ /\ match /\ sleep' = "off" /\ open' = Commands
        /\ UNCHANGED <<elapsed, todo, match>>
  /\ UNCHANGED <<devices, tried, cut>>

(* Both of a check's tasks have returned.                                  *)
Checked ==
  /\ Checking /\ todo = {}
  /\ away' = IF sleep = "check1" THEN Differences(tv, avr) ELSE away
  /\ \/ ~match /\ Close /\ UNCHANGED open
     \/ /\ match /\ sleep = "check1" /\ Snapshot("check2")
        /\ UNCHANGED <<elapsed, open>>
     \/ /\ match /\ sleep = "check2" /\ sleep' = "off" /\ open' = Commands
        /\ UNCHANGED <<elapsed, todo, match>>
  /\ UNCHANGED <<devices, tried, cut>>

(* Connecting or a reading fails.                                          *)
SleepFails ==
  /\ sleep = "connect" \/ (Checking /\ todo # {})
  /\ Close
  /\ UNCHANGED <<devices, tried, open, away, cut>>

(* gather has begun the request: its connection may still be refused.      *)
Request(c) ==
  /\ sleep = "off" /\ c \in open \ tried
  /\ tried' = tried \cup {c}
  /\ UNCHANGED <<devices, sleep, elapsed, todo, match, open, away, cut>>

(* What becomes of the devices when commands are answered or given up.     *)
StandbyOutcomes(cs) ==
  /\ tv' \in IF "turnOff" \in cs THEN Outcomes(tv, "turnOff") ELSE {tv}
  /\ avr' \in IF "PWSTANDBY" \in cs THEN Outcomes(avr, "PWSTANDBY") ELSE {avr}
  /\ StillAway

(* Mutant of Finish: the error of one command ends the other.              *)
FinishFirst(c) ==
  /\ sleep = "off" /\ c \in open \cap tried
  /\ StandbyOutcomes({c})
  /\ open' \in {open \ {c}, {}}
  /\ IF open' = {} THEN Close ELSE UNCHANGED <<sleep, elapsed, todo, match>>
  /\ UNCHANGED <<tried, cut>>

(* A command is acknowledged or fails; gather returns when both are done.  *)
Finish(c) ==
  /\ sleep = "off" /\ c \in open \cap tried
  /\ StandbyOutcomes({c})
  /\ open' = open \ {c}
  /\ IF open' = {} THEN Close ELSE UNCHANGED <<sleep, elapsed, todo, match>>
  /\ UNCHANGED <<tried, cut>>

SleepTick ==
  /\ sleep \notin {"idle", "done"}
  /\ elapsed < IF sleep = "closing" THEN CloseTime ELSE Budget
  /\ elapsed' = elapsed + 1
  /\ UNCHANGED <<devices, sleep, todo, match, tried, open, away, cut>>

(* Mutant of OutOfTime: the budget does not cover the connection.          *)
OutOfTimeChecking ==
  /\ sleep # "connect" /\ sleep \notin {"idle", "closing", "done"}
  /\ elapsed = Budget
  /\ Close /\ cut' = TRUE
  /\ StandbyOutcomes(open \cap tried)
  /\ UNCHANGED <<tried, open>>

(* asyncio.timeout cancels what is under way.                              *)
OutOfTime ==
  /\ sleep \notin {"idle", "closing", "done"} /\ elapsed = Budget
  /\ Close /\ cut' = TRUE
  /\ StandbyOutcomes(open \cap tried)
  /\ UNCHANGED <<tried, open>>

(* The websocket is closed, in finally and for at most CloseTime.          *)
Closed ==
  /\ sleep = "closing" /\ sleep' = "done"
  /\ UNCHANGED <<devices, elapsed, todo, match, tried, open, away, cut>>

SleepNext ==
  \/ SleepConnect \/ ReadPower \/ ReadApp \/ ReadState \/ Checked
  \/ SleepFails \/ SleepTick \/ OutOfTime \/ Closed
  \/ \E c \in Commands : Request(c) \/ Finish(c)
-----------------------------------------------------------------------------
SleepTypeOK ==
  /\ sleep \in {"idle", "connect", "check1", "check2", "off", "closing",
                "done"}
  /\ elapsed \in 0 .. Budget + CloseTime
  /\ todo \subseteq {"power", "app", "state"} /\ match \in BOOLEAN
  /\ tried \subseteq Commands /\ open \subseteq Commands
  /\ away \subseteq {"tvOn", "tvPc", "avrOn", "avrPc"} /\ cut \in BOOLEAN

(* Whatever has been off its target since the first check was over keeps   *)
(* every standby request from being begun: "an input change during the     *)
(* first check also vetoes standby" (lines 28-33).  Only a change after    *)
(* its own second reading can escape notice.                               *)
StandbySpares == tried # {} => away = {}

(* Both devices are asked or neither: a television that drops or refuses   *)
(* its connection does not keep the receiver's approved request from being *)
(* begun (lines 38-44).  Only the end of the budget can come in between.   *)
StandbyTogether == sleep \in {"closing", "done"} /\ ~cut
                     => tried \in {{}, Commands}
-----------------------------------------------------------------------------
sleepSpecVars == <<devices, sleepVars>>

SleepAlone ==
  /\ DevicesTypeOK /\ SleepIdle
  /\ [][\/ SleepStart /\ UNCHANGED devices
        \/ SleepNext
        \/ /\ Switched /\ StillAway
           /\ UNCHANGED <<sleep, elapsed, todo, match, tried, open, cut>>
       ]_sleepSpecVars
=============================================================================
