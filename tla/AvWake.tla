------------------------------- MODULE AvWake -------------------------------
(***************************************************************************)
(* wake of direct_av.py: three tasks of one event loop wake the receiver   *)
(* and the television and select the PC, and a supervisor waits until the  *)
(* status they keep has been right for a while.  A task is its current     *)
(* await: a request with its time-out, or a pause.                         *)
(*                                                                         *)
(* Time passes in ticks of half a second.  A request takes any time up to  *)
(* its time-out; a pause ends after the tick that ends it.  The supervisor *)
(* looks ten times a second, so it sees every status that outlives a       *)
(* pause: it runs with each tick.  The deadline may pass at any moment.    *)
(***************************************************************************)
EXTENDS AvDevices

CONSTANTS
  StableTime, \* how long the status must be right (5 s)
  TvTime,     \* time-out of a request to the television (2 s)
  HttpTime,   \* time-out of a request to the receiver (3 s)
  TvPause,    \* longest pause of the television's task (0.5 s)
  AvrPause,   \* longest pause of the receiver's task (0.75 s)
  WolPause    \* pause between two wake packets (2 s)

ASSUME WakeAssumption ==
  /\ \A t \in {StableTime, TvTime, HttpTime, TvPause, AvrPause, WolPause} :
       t \in Nat \ {0}
  /\ TvPause + 2 * TvTime < StableTime

VARIABLES
  wake,                    \* "running", or how the call has ended
  status,                  \* what the tasks report of their devices
  stable,                  \* ticks for which it has been right, or None
  receiverReady, tvReady,  \* the two events
  receiver, television, wol, \* the tasks
  calm,  \* from now on nobody touches the devices and no request fails
  seen   \* history: the television was read since stable was set

tasks == <<receiver, television, wol>>
wakeVars == <<wake, status, stable, receiverReady, tvReady, tasks, seen>>

None == -1
Task(at) == [at |-> at, age |-> 0]
Running == wake = "running"

WakeIdle ==
  /\ wake = "idle" /\ status = [tv |-> FALSE, avr |-> FALSE] /\ stable = None
  /\ receiverReady = FALSE /\ tvReady = FALSE /\ seen = FALSE
  /\ receiver = Task("state") /\ television = Task("wait")
  /\ wol = Task("wait")

WakeStart == /\ wake = "idle" /\ wake' = "running"
             /\ UNCHANGED <<status, stable, receiverReady, tvReady, tasks,
                            seen, devices>>
-----------------------------------------------------------------------------
(* The receiver's task.                                                    *)
ReceiverAsks ==
  /\ Running /\ receiver.at = "pause" /\ receiver.age > 0
  /\ receiver' = Task("state")
  /\ UNCHANGED <<devices, status, receiverReady>>

(* avr_state has answered.  The receiver counts as contacted once a        *)
(* command that its state calls for has been answered.                     *)
ReceiverState ==
  /\ Running /\ receiver.at = "state"
  /\ receiver' = Task(CASE avr = Target -> "pause"
                        [] avr.on /\ ~avr.pc -> "SI"
                        [] OTHER -> "PWON")
  /\ receiverReady' = (receiverReady \/ avr.on)
  /\ status' = [status EXCEPT !.avr = @ \/ avr = Target]
  /\ UNCHANGED devices

ReceiverCommand ==
  /\ Running /\ receiver.at \in {"PWON", "SI"}
  /\ avr' = Commanded(avr, receiver.at)
  /\ receiver' = Task("pause")
  /\ receiverReady' = TRUE
  /\ status' = [status EXCEPT !.avr = FALSE]
  /\ UNCHANGED tv

(* A request fails or times out.                                           *)
ReceiverFails ==
  /\ Running /\ receiver.at # "pause" /\ ~calm
  /\ avr' \in Outcomes(avr, receiver.at)
  /\ receiver' = Task("pause")
  /\ status' = [status EXCEPT !.avr = FALSE]
  /\ UNCHANGED <<tv, receiverReady>>

ReceiverNext ==
  /\ ReceiverAsks \/ ReceiverState \/ ReceiverCommand \/ ReceiverFails
  /\ UNCHANGED <<wake, stable, tvReady, television, wol, seen, calm>>
-----------------------------------------------------------------------------
(* The television's task.                                                  *)
Connect ==
  /\ Running
  /\ \/ television.at = "wait" /\ receiverReady
     \/ television.at = "retry" /\ television.age > 0
  /\ television' = Task("connect")
  /\ UNCHANGED <<devices, wake, status, tvReady, seen>>

Registered ==
  /\ Running /\ television.at = "connect"
  /\ television' = Task("early")
  /\ UNCHANGED <<devices, wake, status, tvReady, seen>>

(* The first switchInput may be refused or time out.                       *)
EarlySwitch ==
  /\ Running /\ television.at = "early"
  /\ tv' \in Outcomes(tv, "early")
  /\ television' = Task("power")
  /\ UNCHANGED <<avr, wake, status, tvReady, seen>>

Poll ==
  /\ Running /\ television.at = "poll" /\ television.age > 0
  /\ television' = Task("power")
  /\ UNCHANGED <<devices, wake, status, tvReady, seen>>

(* getPowerState: the answer is kept while the app is asked for.           *)
Power ==
  /\ Running /\ television.at = "power"
  /\ television' = Task(IF tv.on THEN "app" ELSE "appWhileOff")
  /\ UNCHANGED <<devices, wake, status, tvReady, seen>>

App ==
  LET on == television.at = "app" IN
  /\ Running /\ television.at \in {"app", "appWhileOff"}
  /\ tvReady' = (tvReady \/ on)
  /\ status' = [status EXCEPT !.tv = on /\ tv.pc]
  /\ television' = Task(IF on /\ ~tv.pc THEN "switchInput" ELSE "poll")
  /\ seen' = TRUE
  /\ UNCHANGED <<devices, wake>>

Switch ==
  /\ Running /\ television.at = "switchInput"
  /\ tv' = Commanded(tv, "switchInput")
  /\ television' = Task("poll")
  /\ UNCHANGED <<avr, wake, status, tvReady, seen>>

Asking == television.at \in {"connect", "early", "power", "app",
                             "appWhileOff", "switchInput"}

(* Mutant of TelevisionFails: the status outlives the connection.          *)
TelevisionFailsQuietly ==
  /\ Running /\ Asking /\ ~calm
  /\ tv' \in Outcomes(tv, television.at)
  /\ television' = Task("closing")
  /\ UNCHANGED <<avr, wake, status, tvReady, seen>>

TelevisionFails ==
  /\ Running /\ Asking /\ ~calm
  /\ tv' \in Outcomes(tv, television.at)
  /\ television' = Task("closing")
  /\ status' = [status EXCEPT !.tv = FALSE]
  /\ UNCHANGED <<avr, wake, tvReady, seen>>

(* An error that the task does not catch, as when a message is not text:   *)
(* the websocket is closed while the status stays what it was.             *)
TelevisionDies ==
  /\ Running /\ Asking /\ ~calm
  /\ tv' \in Outcomes(tv, television.at)
  /\ television' = Task("dying")
  /\ UNCHANGED <<avr, wake, status, tvReady, seen>>

(* The websocket is closed, in finally: the task goes on, or has died and  *)
(* the supervisor raises its error.                                        *)
TelevisionClosed ==
  /\ Running
  /\ \/ television.at = "closing" /\ television' = Task("retry")
        /\ UNCHANGED wake
     \/ television.at = "dying" /\ wake' = "failed" /\ UNCHANGED television
  /\ UNCHANGED <<devices, status, tvReady, seen>>

TelevisionNext ==
  /\ \/ Connect \/ Registered \/ EarlySwitch \/ Poll \/ Power \/ App \/ Switch
     \/ TelevisionFails \/ TelevisionDies \/ TelevisionClosed
  /\ UNCHANGED <<stable, receiverReady, receiver, wol, calm>>
-----------------------------------------------------------------------------
WolTurn == \/ wol.at = "wait" /\ receiverReady
           \/ wol.at = "sleep" /\ wol.age = WolPause

(* Mutant of WakePacket: one packet has to do.                             *)
WakePacketOnce ==
  /\ Running /\ WolTurn /\ ~tvReady
  /\ \/ tv' = [tv EXCEPT !.on = TRUE]
     \/ ~calm /\ UNCHANGED tv
  /\ wol' = Task("done")
  /\ UNCHANGED wake

(* A packet may be lost, and no further one is sent once the television    *)
(* has been seen Active.                                                   *)
WakePacket ==
  /\ Running /\ WolTurn /\ ~tvReady
  /\ \/ tv' = [tv EXCEPT !.on = TRUE]
     \/ ~calm /\ UNCHANGED tv
  /\ wol' = Task("sleep")
  /\ UNCHANGED wake

(* ip fails, the neighbour is behind a router, or the socket refuses.      *)
WakePacketFails ==
  /\ Running /\ WolTurn /\ ~tvReady /\ ~calm
  /\ wake' = "failed"
  /\ UNCHANGED <<tv, wol>>

NoMorePackets ==
  /\ Running /\ WolTurn /\ tvReady
  /\ wol' = Task("done")
  /\ UNCHANGED <<tv, wake>>

WolNext ==
  /\ WakePacket \/ WakePacketFails \/ NoMorePackets
  /\ UNCHANGED <<avr, status, stable, receiverReady, tvReady, receiver,
                 television, seen, calm>>
-----------------------------------------------------------------------------
ReceiverLimit == IF receiver.at = "pause" THEN AvrPause ELSE HttpTime
TelevisionLimit ==
  CASE Asking -> TvTime
    [] television.at \in {"closing", "dying"} -> CloseTime
    [] OTHER -> TvPause

(* Mutant of NothingDue: the receiver's requests have no time-out.         *)
NothingDueThere ==
  /\ television.at # "wait" => television.age < TelevisionLimit
  /\ wol.at = "sleep" => wol.age < WolPause

(* No request has reached its time-out, no pause its end.                  *)
NothingDue ==
  /\ receiver.age < ReceiverLimit
  /\ television.at # "wait" => television.age < TelevisionLimit
  /\ wol.at = "sleep" => wol.age < WolPause

Older(task) == IF task.at \in {"wait", "done"} THEN task
               ELSE [task EXCEPT !.age = @ + 1]

(* Half a second passes, and the supervisor looks at the status.           *)
Tick ==
  /\ Running /\ NothingDue
  /\ receiver' = Older(receiver) /\ television' = Older(television)
  /\ wol' = Older(wol)
  /\ stable' = IF status.tv /\ status.avr THEN stable + 1 ELSE None
  /\ seen' = (seen /\ stable # None)
  /\ wake' = IF stable' = StableTime THEN "settled" ELSE wake
  /\ UNCHANGED <<devices, status, receiverReady, tvReady, calm>>

Expire ==
  /\ Running /\ wake' = "timeout"
  /\ UNCHANGED <<devices, status, stable, receiverReady, tvReady, tasks, seen,
                 calm>>

(* The chain is left alone from now on, and either the television is on or *)
(* there are packets to come for it.                                       *)
LeftAlone ==
  /\ ~calm /\ (tv.on \/ ~Running \/ ~(tvReady \/ television.at = "app"))
  /\ calm' = TRUE
  /\ UNCHANGED <<devices, wakeVars>>

Disturb == Running /\ ~calm /\ Switched /\ UNCHANGED <<wakeVars, calm>>

WakeNext == ReceiverNext \/ TelevisionNext \/ WolNext \/ Tick \/ Expire
-----------------------------------------------------------------------------
WakeTypeOK ==
  /\ wake \in {"idle", "running", "settled", "timeout", "failed"}
  /\ status \in [tv : BOOLEAN, avr : BOOLEAN]
  /\ stable \in None .. StableTime
  /\ receiverReady \in BOOLEAN /\ tvReady \in BOOLEAN
  /\ receiver \in [at : {"state", "PWON", "SI", "pause"},
                   age : 0 .. HttpTime + AvrPause]
  /\ television \in [at : {"wait", "connect", "early", "power", "app",
                           "appWhileOff", "switchInput", "poll", "closing",
                           "retry", "dying"},
                     age : 0 .. TvTime + TvPause + CloseTime]
  /\ wol \in [at : {"wait", "sleep", "done"}, age : 0 .. WolPause]
  /\ calm \in BOOLEAN /\ seen \in BOOLEAN

(* A wake that reports both inputs stable has read the television again    *)
(* since the status came right, and that reading was not followed by a     *)
(* command to correct the input: a television that no longer answers, or   *)
(* was switched away, cannot pass for settled on the strength of an old    *)
(* reading (lines 176 and 182 of direct_av.py, against the five seconds of *)
(* line 202).  Only a task that is dying leaves its old reading standing,  *)
(* for as long as its websocket takes to close (line 185).                 *)
SettledTelevision ==
  wake = "settled" => \/ seen /\ television.at # "switchInput"
                      \/ television.at = "dying"

(* Once the chain is left alone, and the television is on or will be sent  *)
(* wake packets, the wake ends: unless the deadline comes first, both      *)
(* devices reach the PC's input and stay there long enough (lines 119-207).*)
WakeEnds == (calm /\ Running) ~> ~Running
-----------------------------------------------------------------------------
wakeSpecVars == <<devices, wakeVars, calm>>

WakeInit == DevicesTypeOK /\ WakeIdle /\ calm = FALSE

WakeAlone == /\ WakeInit
             /\ [][\/ WakeStart /\ UNCHANGED calm
                   \/ WakeNext \/ Disturb \/ LeftAlone]_wakeSpecVars
=============================================================================
