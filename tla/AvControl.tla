----------------------------- MODULE AvControl -----------------------------
(***************************************************************************)
(* The units of TV-CONTROL.md: wake runs when the PC has started or        *)
(* resumed, standby before it sleeps.  The sleep unit conflicts with the   *)
(* wake unit and is ordered after it, so systemd has stopped a wake that   *)
(* still runs when standby begins; its process is killed in any await.     *)
(***************************************************************************)
EXTENDS AvWake, AvSleep

VARIABLE pc \* "awake", "suspending" or "asleep"

vars == <<devices, wakeVars, calm, sleepVars, pc>>

WakeStopped ==
  /\ wake' = "idle" /\ status' = [tv |-> FALSE, avr |-> FALSE]
  /\ stable' = None /\ receiverReady' = FALSE /\ tvReady' = FALSE
  /\ seen' = FALSE /\ receiver' = Task("state")
  /\ television' = Task("wait") /\ wol' = Task("wait")

Init == DevicesTypeOK /\ WakeIdle /\ SleepIdle /\ calm = FALSE /\ pc = "awake"

(* ExecStart of the wake unit.                                             *)
StartWake == pc = "awake" /\ WakeStart /\ UNCHANGED <<calm, sleepVars, pc>>

(* A request that the wake has sent may still be carried out.              *)
Suspend ==
  /\ pc = "awake" /\ pc' = "suspending"
  /\ tv' \in IF Running THEN Outcomes(tv, television.at) ELSE {tv}
  /\ avr' \in IF Running THEN Outcomes(avr, receiver.at) ELSE {avr}
  /\ WakeStopped
  /\ SleepStart
  /\ UNCHANGED calm

(* The standby unit has finished, whatever its result.                     *)
FallAsleep ==
  /\ pc = "suspending" /\ sleep = "done" /\ pc' = "asleep"
  /\ sleep' = "idle" /\ elapsed' = 0 /\ todo' = {} /\ match' = TRUE
  /\ tried' = {} /\ open' = {} /\ away' = {} /\ cut' = FALSE
  /\ UNCHANGED <<devices, wakeVars, calm>>

Resume ==
  /\ pc = "asleep" /\ pc' = "awake"
  /\ UNCHANGED <<devices, wakeVars, calm, sleepVars>>

Person ==
  /\ ~calm /\ Switched /\ StillAway
  /\ UNCHANGED <<wakeVars, calm, pc, sleep, elapsed, todo, match, tried,
                 open, cut>>

Next ==
  \/ StartWake \/ Suspend \/ FallAsleep \/ Resume \/ Person
  \/ WakeNext /\ UNCHANGED <<sleepVars, pc>>
  \/ SleepNext /\ UNCHANGED <<wakeVars, calm, pc>>
  \/ LeftAlone /\ UNCHANGED <<sleepVars, pc>>

(* Event loops run.  A request of the wake is answered or times out; the   *)
(* standby is owed no answer, only its budget and the end of its close.    *)
(* systemd goes on to sleep when the standby unit has finished.            *)
Fairness ==
  /\ WF_vars(ReceiverNext /\ UNCHANGED <<sleepVars, pc>>)
  /\ WF_vars(TelevisionNext /\ UNCHANGED <<sleepVars, pc>>)
  /\ WF_vars(WolNext /\ UNCHANGED <<sleepVars, pc>>)
  /\ WF_vars(Tick /\ UNCHANGED <<sleepVars, pc>>)
  /\ WF_vars((SleepTick \/ OutOfTime \/ Closed)
               /\ UNCHANGED <<wakeVars, calm, pc>>)
  /\ WF_vars(FallAsleep)

Spec == Init /\ [][Next]_vars /\ Fairness
-----------------------------------------------------------------------------
TypeOK == /\ DevicesTypeOK /\ WakeTypeOK /\ SleepTypeOK
          /\ pc \in {"awake", "suspending", "asleep"}

(* Sleep control "must never prevent the PC from sleeping" (lines 59-71 of *)
(* sleep_av.py): a suspend goes on whatever the devices do.                *)
SleepGoesOn == pc = "suspending" ~> pc = "asleep"
=============================================================================
