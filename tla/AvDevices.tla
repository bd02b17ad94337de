----------------------------- MODULE AvDevices ------------------------------
(***************************************************************************)
(* The television and the receiver of the viewing chain, as direct_av.py   *)
(* and sleep_av.py use them.  Both are external: a person may switch them  *)
(* and change their inputs at any time, and each carries out a command at  *)
(* some moment between its sending and its answer.                         *)
(***************************************************************************)
EXTENDS Integers

CONSTANT CloseTime \* longest close of the television's websocket (1 s)

ASSUME CloseAssumption == CloseTime \in Nat \ {0}

VARIABLES
  tv,   \* the television: it is Active, and its foreground app is the PC's
  avr   \* the receiver: its power is ON, and its source is the PC's input

devices == <<tv, avr>>

Device == [on : BOOLEAN, pc : BOOLEAN]
Target == [on |-> TRUE, pc |-> TRUE]

DevicesTypeOK == tv \in Device /\ avr \in Device

(* What a request does to a device; one that only reads does nothing.      *)
Commanded(device, request) ==
  CASE request = "PWON" -> [device EXCEPT !.on = TRUE]
    [] request \in {"SI", "switchInput", "early"} /\ device.on
         -> [device EXCEPT !.pc = TRUE]
    [] request \in {"turnOff", "PWSTANDBY"} -> [device EXCEPT !.on = FALSE]
    [] OTHER -> device

(* A request that failed may have been carried out all the same.           *)
Outcomes(device, request) == {device, Commanded(device, request)}

(* Somebody uses a remote control.                                         *)
Switched ==
  \/ tv' \in Device \ {tv} /\ UNCHANGED avr
  \/ avr' \in Device \ {avr} /\ UNCHANGED tv
=============================================================================
