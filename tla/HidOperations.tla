---------------------------- MODULE HidOperations ----------------------------
(***************************************************************************)
(* What the virtual Steam Controller promises to the HID stack about the   *)
(* operations (feature reads, feature writes, output reports) that VHF     *)
(* hands to it: each one is settled once, by a refusal, by the answer of a *)
(* broker that was given it, by its deadline or by the cancellation of the *)
(* whole session, and then completed once.  HidDriver implements this.     *)
(***************************************************************************)
CONSTANTS Handles  \* the operation handles that VHF uses, and uses again

VARIABLES kind,    \* kind[h]: what the HID stack asked for, "none" when idle
          stage,   \* stage[h]: how far the driver is with it
          outcome  \* outcome[h]: the status it will be completed with

opVars == <<kind, stage, outcome>>

AllKinds == {"malformed", "unsupported", "get", "send", "unsafe"}
Refusals == {"INVALID_PARAMETER", "NOT_SUPPORTED", "DEVICE_NOT_READY",
             "DEVICE_BUSY"}

(* The answers that a broker can cause: an unsafe feature write fails      *)
(* whatever the broker says, only a read can be answered out of shape.     *)
Answers(k) == CASE k = "get"    -> {"SUCCESS", "UNSUCCESSFUL", "INVALID_PARAMETER"}
                [] k = "send"   -> {"SUCCESS", "UNSUCCESSFUL"}
                [] k = "unsafe" -> {"NOT_SUPPORTED"}
                [] OTHER        -> {}

Open(h) == stage[h] \in {"queued", "polled"}

Settle(h, status) ==
  /\ stage' = [stage EXCEPT ![h] = "settled"]
  /\ outcome' = [outcome EXCEPT ![h] = status]
  /\ UNCHANGED kind

Offer(h, k) ==
  /\ stage[h] = "idle"
  /\ kind' = [kind EXCEPT ![h] = k]
  /\ \/ /\ k \in {"get", "send", "unsafe"}
        /\ stage' = [stage EXCEPT ![h] = "offered"]
        /\ UNCHANGED outcome
     \/ /\ k \in {"malformed", "unsupported"}
        /\ stage' = [stage EXCEPT ![h] = "settled"]
        /\ \E status \in Refusals : outcome' = [outcome EXCEPT ![h] = status]

Refuse(h) ==
  /\ stage[h] = "offered"
  /\ \E status \in {"DEVICE_NOT_READY", "DEVICE_BUSY"} : Settle(h, status)

Queue(h) ==
  /\ stage[h] = "offered"
  /\ stage' = [stage EXCEPT ![h] = "queued"]
  /\ UNCHANGED <<kind, outcome>>

Poll(h) ==
  /\ stage[h] = "queued"
  /\ stage' = [stage EXCEPT ![h] = "polled"]
  /\ UNCHANGED <<kind, outcome>>

Answer(h) ==
  /\ stage[h] = "polled"
  /\ \E status \in Answers(kind[h]) : Settle(h, status)

(* Several operations may time out together; a cancellation spares none.   *)
Drop(H, status) ==
  /\ stage' = [h \in Handles |-> IF h \in H THEN "settled" ELSE stage[h]]
  /\ outcome' = [h \in Handles |-> IF h \in H THEN status ELSE outcome[h]]
  /\ UNCHANGED kind

TimeOut == \E H \in SUBSET {h \in Handles : Open(h)} : Drop(H, "IO_TIMEOUT")
Cancel  == Drop({h \in Handles : Open(h)}, "CANCELLED")

Complete(h) ==
  /\ stage[h] = "settled"
  /\ kind' = [kind EXCEPT ![h] = "none"]
  /\ stage' = [stage EXCEPT ![h] = "idle"]
  /\ outcome' = [outcome EXCEPT ![h] = "none"]

Init ==
  /\ kind = [h \in Handles |-> "none"]
  /\ stage = [h \in Handles |-> "idle"]
  /\ outcome = [h \in Handles |-> "none"]

Next ==
  \/ \E h \in Handles : \/ \E k \in AllKinds : Offer(h, k)
                        \/ Refuse(h) \/ Queue(h) \/ Poll(h) \/ Answer(h)
                        \/ Complete(h)
  \/ TimeOut \/ Cancel

Spec == Init /\ [][Next]_opVars
=============================================================================
