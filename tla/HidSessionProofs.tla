--------------------------- MODULE HidSessionProofs ---------------------------
(***************************************************************************)
(* More proofs about HidDriver: the session of one broker (the VHF device, *)
(* the flow of input reports, the ring, the ownership) and the operations  *)
(* (their outcomes, the order of their ids, the promise of HidOperations). *)
(***************************************************************************)
EXTENDS HidDriverProofs

-----------------------------------------------------------------------------
(* The VHF device.  Outside start and destroy it is there exactly while    *)
(* vhf is set; in between, the holder of the lock knows how far it is.     *)
Between == {"publish", "expire", "cancel", "delete", "reset"}
Phases  == Between \cup {"claim", "vhfcreate", "vhfstart"}

DeviceInv ==
  /\ vhf => owner # NULL
  /\ (\A w \in Worker : pc[w] \notin Between) => (vhf <=> vhfState # "none")
  /\ \A w \in Worker :
       /\ pc[w] \in {"expire", "cancel"} => ~vhf /\ (doomed <=> vhfState # "none")
       /\ pc[w] = "delete" => ~vhf
       /\ pc[w] = "reset" => ~vhf /\ vhfState = "none"
  /\ pc["ioctl"] # "idle" => call.file # NULL
  /\ pc["ioctl"] = "claim" => owner = NULL
  /\ pc["ioctl"] = "vhfcreate" => owner # NULL /\ ~vhf
  /\ pc["ioctl"] = "publish" => owner # NULL /\ vhfState = "created"
  /\ pc["ioctl"] = "vhfstart" => vhfState = "created"

(* Only one worker is inside the sections that the lock guards.            *)
LEMMA OneWorker ==
  ASSUME LockInv, NEW v \in Worker, NEW w \in Worker, pc[v] \in Held, pc[w] \in Held
  PROVE  v = w
  BY DEF LockInv

(* A thread that goes from one place to another, neither of them a phase   *)
(* of start or destroy.                                                    *)
LEMMA DeviceKept ==
  ASSUME TypeOK, DeviceInv, NEW t \in Thread, NEW l, Goto(t, l),
         (vhf' <=> vhf) /\ owner' = owner /\ (doomed' <=> doomed),
         vhfState' = vhfState, call' = call,
         t \in Worker => l \notin Phases /\ pc[t] \notin Phases,
         t = "ioctl" => l = "idle" \/ pc[t] # "idle"
  PROVE  DeviceInv'
<1>1. pc'[t] = l /\ \A u \in Thread \ {t} : pc'[u] = pc[u]
  BY DEF Goto, TypeOK
<1>2. Worker \subseteq Thread /\ "ioctl" \in Worker
  BY DEF Worker, Thread
<1>3. \A w \in Worker : pc'[w] = pc[w] \/ (pc'[w] \notin Phases /\ pc[w] \notin Phases)
  BY <1>1, <1>2
<1>4. pc'["ioctl"] # "idle" => pc["ioctl"] # "idle"
  BY <1>1, <1>2
<1>5. (\A w \in Worker : pc'[w] \notin Between) => \A w \in Worker : pc[w] \notin Between
  BY <1>3 DEF Phases
<1> QED
  BY <1>2, <1>3, <1>4, <1>5 DEF DeviceInv, Phases, Between

(* A step that moves no worker and leaves the device alone.                *)
LEMMA DeviceUntouched ==
  ASSUME DeviceInv, \A w \in Worker : pc'[w] = pc[w],
         (vhf' <=> vhf) /\ owner' = owner /\ (doomed' <=> doomed),
         vhfState' = vhfState, call' = call
  PROVE  DeviceInv'
<1>1. "ioctl" \in Worker
  BY DEF Worker
<1> QED
  BY <1>1 DEF DeviceInv

(* The holder of the lock finds the device there exactly if vhf is set,    *)
(* unless it has begun to create or to delete it itself.                   *)
LEMMA DeviceFound ==
  ASSUME LockInv, DeviceInv, NEW w \in Worker, pc[w] \in Held, pc[w] \notin Between
  PROVE  vhf <=> vhfState # "none"
<1>1. \A u \in Worker : pc[u] \in Between => pc[u] \in Held
  BY DEF Between, Held, Cleared
<1> QED
  BY <1>1, OneWorker DEF DeviceInv

(* What the holder of the lock has to establish when it moves on.          *)
LEMMA DeviceMoves ==
  ASSUME TypeOK, LockInv, DeviceInv, NEW w \in Worker, NEW l, Goto(w, l), pc[w] \in Held,
         vhf' => owner' # NULL,
         l \notin Between => (vhf' <=> vhfState' # "none"),
         l \in {"expire", "cancel"} => ~vhf' /\ (doomed' <=> vhfState' # "none"),
         l \in {"delete", "reset"} => ~vhf',
         l = "reset" => vhfState' = "none",
         w = "ioctl" => /\ l # "idle" => call' = call
                        /\ l = "claim" => owner' = NULL
                        /\ l = "vhfcreate" => owner' # NULL /\ ~vhf'
                        /\ l = "publish" => owner' # NULL /\ vhfState' = "created"
                        /\ l = "vhfstart" => vhfState' = "created",
         w # "ioctl" => call' = call
  PROVE  DeviceInv'
<1>1. Worker \subseteq Thread /\ "ioctl" \in Worker
  BY DEF Worker, Thread
<1>2. pc'[w] = l /\ \A u \in Worker \ {w} : pc'[u] = pc[u]
  BY <1>1 DEF Goto, TypeOK
<1>3. \A u \in Worker \ {w} : pc[u] \notin Held
  BY OneWorker
<1>4. \A u \in Worker \ {w} : pc'[u] \notin Phases
  BY <1>2, <1>3 DEF Phases, Between, Held, Cleared
<1>5. pc["ioctl"] # "idle" => call.file # NULL
  BY DEF DeviceInv
<1>6. w = "ioctl" => pc["ioctl"] # "idle"
  BY DEF Held, Acting, Cleared
<1>7. (pc["ioctl"] # "idle" => call.file # NULL)'
  BY <1>1, <1>2, <1>5, <1>6
<1>8. ((\A u \in Worker : pc[u] \notin Between) => (vhf <=> vhfState # "none"))'
  BY <1>2
<1>9. ASSUME NEW u \in Worker
      PROVE  (/\ pc[u] \in {"expire", "cancel"} => ~vhf /\ (doomed <=> vhfState # "none")
              /\ pc[u] = "delete" => ~vhf
              /\ pc[u] = "reset" => ~vhf /\ vhfState = "none")'
  BY <1>2, <1>4 DEF Phases, Between
<1>10. (/\ pc["ioctl"] = "claim" => owner = NULL
        /\ pc["ioctl"] = "vhfcreate" => owner # NULL /\ ~vhf
        /\ pc["ioctl"] = "publish" => owner # NULL /\ vhfState = "created"
        /\ pc["ioctl"] = "vhfstart" => vhfState = "created")'
  BY <1>1, <1>2, <1>4 DEF Phases, Between
<1> QED
  BY <1>7, <1>8, <1>9, <1>10 DEF DeviceInv

(* Every step keeps the device's invariant.                                *)
LEMMA DeviceSteps ==
  ASSUME LifetimeInv, DeviceInv, Step
  PROVE  DeviceInv'
<1>0. TypeOK /\ LockInv
  BY DEF LifetimeInv
<1> USE <1>0, HidAssumption
    DEF Phases, Between, Thread, Worker, Pumper, ctx, ring, session, flow,
        table, locks, hid, counts
<1>1. CASE UNCHANGED vars
  BY <1>1, DeviceUntouched DEF vars
<1>2. ASSUME NEW f \in Files, FileCreate(f) PROVE DeviceInv'
  BY <1>2, DeviceKept DEF FileCreate
<1>3. ASSUME NEW f \in Files, FileClose(f) PROVE DeviceInv'
  BY <1>3, DeviceKept DEF FileClose
<1>4. ASSUME NEW f \in Files, NEW code \in Codes, NEW id \in Nat,
              NEW verdict \in Verdicts, Dispatch(f, code, id, verdict)
      PROVE  DeviceInv'
  <2>1. pc["ioctl"] = "idle" /\ call'.file # NULL
    BY <1>4 DEF Dispatch
  <2>2. pc'["ioctl"] = "acquire" /\ \A u \in Worker \ {"ioctl"} : pc'[u] = pc[u]
    BY <1>4 DEF Dispatch, Goto, TypeOK
  <2> QED BY <1>4, <2>1, <2>2 DEF Dispatch, DeviceInv
<1>5. ASSUME Prepare PROVE DeviceInv'
  BY <1>5, DeviceUntouched DEF Prepare
<1>6. ASSUME ReleaseStopTimer PROVE DeviceInv'
  BY <1>6, DeviceKept DEF ReleaseStopTimer
<1>7. ASSUME NEW h \in Handles, NEW k \in Kinds, HidOperation(h, k)
      PROVE  DeviceInv'
  <2>1. Goto(h, "enqueue") \/ pc' = pc
    BY <1>7 DEF HidOperation
  <2>2. \A w \in Worker : pc'[w] = pc[w]
    BY <2>1 DEF Goto, TypeOK
  <2> QED BY <1>7, <2>2, DeviceUntouched DEF HidOperation
<1>8. ASSUME NEW s \in Slots, DeadlinePasses(s) PROVE DeviceInv'
  BY <1>8, DeviceUntouched DEF DeadlinePasses
<1>9. ASSUME IoctlAcquire PROVE DeviceInv'
  BY <1>9, DeviceKept DEF IoctlAcquire, Lock
<1>10. ASSUME NEW f \in Files, FileCleanup(f) PROVE DeviceInv'
  BY <1>10, DeviceKept DEF FileCleanup, Lock
<1>11. ASSUME ReleaseAcquire PROVE DeviceInv'
  BY <1>11, DeviceKept DEF ReleaseAcquire, Lock
<1>12. ASSUME Start PROVE DeviceInv'
  BY <1>12, DeviceMoves, DeviceFound DEF Start, DeviceInv, Held, Cleared
<1>13. ASSUME Claim PROVE DeviceInv'
  BY <1>13, DeviceMoves, DeviceFound DEF Claim, DeviceInv, Held, Cleared
<1>14. ASSUME VhfCreate PROVE DeviceInv'
  BY <1>14, DeviceMoves, DeviceFound DEF VhfCreate, DeviceInv, Held, Cleared
<1>15. ASSUME Publish PROVE DeviceInv'
  BY <1>15, DeviceMoves DEF Publish, DeviceInv, Held, Cleared
<1>16. ASSUME VhfStart PROVE DeviceInv'
  BY <1>16, DeviceMoves, DeviceFound DEF VhfStart, DeviceInv, Held, Cleared
<1>17. ASSUME Input PROVE DeviceInv'
  BY <1>17, DeviceKept DEF Input
<1>18. ASSUME NEW t \in Pumper, PumpEnter(t) PROVE DeviceInv'
  BY <1>18, DeviceKept DEF PumpEnter, AfterPump
<1>19. ASSUME NEW t \in Pumper, PumpLeave(t) PROVE DeviceInv'
  BY <1>19, DeviceKept DEF PumpLeave, AfterPump
<1>20. ASSUME NEW t \in Pumper, PumpTake(t) PROVE DeviceInv'
  BY <1>20, DeviceKept DEF PumpTake
<1>21. ASSUME NEW t \in Pumper, PumpAbandon(t) PROVE DeviceInv'
  BY <1>21, DeviceKept DEF PumpAbandon, AfterPump
<1>22. ASSUME NEW t \in Pumper, SubmitAccepted(t) PROVE DeviceInv'
  BY <1>22, DeviceKept DEF SubmitAccepted
<1>23. ASSUME NEW t \in Pumper, SubmitFailed(t) PROVE DeviceInv'
  BY <1>23, DeviceKept DEF SubmitFailed
<1>24. ASSUME NEW t \in Pumper, SubmitReturns(t) PROVE DeviceInv'
  BY <1>24, DeviceKept DEF SubmitReturns
<1>25. ASSUME NoMoreEntries PROVE DeviceInv'
  BY <1>25, DeviceKept DEF NoMoreEntries
<1>26. ASSUME NEW s \in Slots, Deliver(s) PROVE DeviceInv'
  BY <1>26, DeviceKept DEF Deliver
<1>27. ASSUME NEW s \in Slots, Reply(s) PROVE DeviceInv'
  BY <1>27, DeviceKept DEF Reply
<1>28. ASSUME ReplyNotFound PROVE DeviceInv'
  BY <1>28, DeviceKept DEF ReplyNotFound
<1>29. ASSUME ReplyCompleted PROVE DeviceInv'
  BY <1>29, DeviceKept DEF ReplyCompleted
<1>30. ASSUME NEW w \in Worker, DestroyStop(w) PROVE DeviceInv'
  BY <1>30, DeviceMoves, DeviceFound DEF DestroyStop, DeviceInv, Held, Cleared
<1>31. ASSUME NEW w \in Worker, DestroyExpire(w) PROVE DeviceInv'
  BY <1>31, DeviceMoves DEF DestroyExpire, DeviceInv, Held, Cleared
<1>32. ASSUME NEW w \in Worker, DestroyDelete(w) PROVE DeviceInv'
  BY <1>32, DeviceMoves DEF DestroyDelete, DeviceInv, Held, Cleared
<1>33. ASSUME NEW w \in Worker, VhfDeleted(w) PROVE DeviceInv'
  BY <1>33, DeviceMoves DEF VhfDeleted, DeviceInv, Held, Cleared
<1>34. ASSUME NEW w \in Worker, DestroyReset(w) PROVE DeviceInv'
  BY <1>34, DeviceMoves DEF DestroyReset, AfterDestroy, DeviceInv, Held, Cleared
<1>35. ASSUME NEW t \in Thread, Complete(t) PROVE DeviceInv'
  BY <1>35, DeviceUntouched DEF Complete
<1>36. ASSUME NEW w \in Worker, Finish(w) PROVE DeviceInv'
  BY <1>36, DeviceMoves, DeviceFound DEF Finish, DeviceInv, Held, Cleared
<1>37. ASSUME ReleaseTimerStopped PROVE DeviceInv'
  BY <1>37, DeviceKept DEF ReleaseTimerStopped
<1>38. ASSUME ReleaseClose PROVE DeviceInv'
  BY <1>38, DeviceKept DEF ReleaseClose
<1>39. ASSUME NEW h \in Handles, Refuse(h) PROVE DeviceInv'
  BY <1>39, DeviceKept DEF Refuse
<1>40. ASSUME NEW h \in Handles, NEW s \in Slots, Accept(h, s)
      PROVE  DeviceInv'
  BY <1>40, DeviceKept DEF Accept
<1>41. ASSUME Tick PROVE DeviceInv'
  BY <1>41, DeviceUntouched DEF Tick
<1>42. ASSUME VhfReady PROVE DeviceInv'
  BY <1>42, DeviceKept DEF VhfReady
<1>43. ASSUME Ready PROVE DeviceInv'
  BY <1>43, DeviceKept DEF Ready
<1>44. ASSUME VhfStartReturns PROVE DeviceInv'
  BY <1>44, DeviceKept DEF VhfStartReturns
<1> QED
  BY <1>1, <1>2, <1>3, <1>4, <1>5, <1>6, <1>7, <1>8, <1>9, <1>10, <1>11,
     <1>12, <1>13, <1>14, <1>15, <1>16, <1>17, <1>18, <1>19, <1>20, <1>21,
     <1>22, <1>23, <1>24, <1>25, <1>26, <1>27, <1>28, <1>29, <1>30, <1>31,
     <1>32, <1>33, <1>34, <1>35, <1>36, <1>37, <1>38, <1>39, <1>40, <1>41,
     <1>42, <1>43, <1>44 DEF Step

(* The device's invariant holds in every behaviour.                        *)
LEMMA DeviceAlways == Spec => [](LifetimeInv /\ DeviceInv)
<1>1. Init => DeviceInv
  BY HidAssumption DEF Init, DeviceInv, Between, Worker, Thread, NoCall
<1>2. LifetimeInv /\ DeviceInv /\ [Next]_vars => DeviceInv'
  BY StepCases, DeviceSteps
<1> QED
  BY <1>1, <1>2, LifetimeAlways, PTL DEF Spec
-----------------------------------------------------------------------------
(* The flow of input reports.  A request of VHF for a report is a token:   *)
(* credit says that there is one, and it is in one place only, with the    *)
(* callback that brings it, in the ready flag, or with the thread that     *)
(* submits in answer to it.  A ready flag outlives its request only        *)
(* between the deletion of the VHF device and the end of destroy.          *)
InPump == {"take", "submit", "submitted", "failed"}
Live   == vhfState \in {"started", "deleting"}

FlowInv ==
  /\ \A t \in Pumper : pc[t] \in InPump => pumping
  /\ ~(pc["ioctl"] \in InPump /\ pc["ready"] \in InPump)
  /\ pc["ready"] # "idle" => Live
  /\ credit => Live /\ ~want
  /\ \A t \in Pumper : pc[t] = "submit" => credit /\ ~ready /\ pc["ready"] # "ready"
  /\ pc["ready"] = "ready" => credit /\ ~ready
  /\ ready => credit \/ \E w \in Worker : pc[w] = "reset"

(* A thread moves outside the pump, and the flow's variables are as before. *)
LEMMA FlowKept ==
  ASSUME TypeOK, FlowInv, NEW t \in Thread \ {"ready"}, NEW l, Goto(t, l),
         ready' = ready, pumping' = pumping, want' = want, credit' = credit,
         vhfState' = vhfState,
         t = "ioctl" => l \notin InPump, t \in Worker => pc[t] # "reset"
  PROVE  FlowInv'
<1>1. pc'[t] = l /\ \A u \in Thread \ {t} : pc'[u] = pc[u]
  BY DEF Goto, TypeOK
<1>2. Worker \subseteq Thread /\ "ioctl" \in Thread /\ "ready" \in Thread
      /\ Pumper = {"ioctl", "ready"}
  BY DEF Worker, Thread, Pumper
<1>3. pc'["ready"] = pc["ready"] /\ (pc'["ioctl"] = pc["ioctl"] \/ pc'["ioctl"] \notin InPump)
  BY <1>1, <1>2
<1>4. (\E w \in Worker : pc[w] = "reset") => \E w \in Worker : pc'[w] = "reset"
  BY <1>1, <1>2
<1> QED
  BY <1>2, <1>3, <1>4 DEF FlowInv, Live, InPump

(* A step that moves neither a worker nor the ready callback.              *)
LEMMA FlowUntouched ==
  ASSUME FlowInv, \A u \in Worker \cup {"ready"} : pc'[u] = pc[u],
         ready' = ready, pumping' = pumping, want' = want, credit' = credit,
         vhfState' = vhfState
  PROVE  FlowInv'
<1>1. \A t \in Pumper : pc'[t] = pc[t]
  BY DEF Pumper, Worker
<1> QED
  BY <1>1 DEF FlowInv, Live, Pumper, Worker

(* While nobody may be inside the pump: there is no VHF device, or the     *)
(* device is being deleted and its ready callback has returned.            *)
LEMMA NobodyPumps ==
  ASSUME LifetimeInv, FlowInv, NEW w \in Worker, pc[w] \in Held, pc[w] \notin InPump,
         ~Live \/ pc["ready"] = "idle"
  PROVE  \A t \in Pumper : pc[t] \notin InPump
<1>1. pc["ready"] \notin InPump
  BY DEF FlowInv, InPump
<1>2. pc["ioctl"] \notin InPump
  <2>1. "ioctl" \in Worker /\ (pc["ioctl"] \in InPump => pc["ioctl"] \in Held)
    BY DEF Worker, InPump, Held, Acting
  <2> QED BY <2>1, OneWorker DEF LifetimeInv
<1> QED
  BY <1>1, <1>2 DEF Pumper

(* Every step keeps the flow's invariant.                                  *)
LEMMA FlowSteps ==
  ASSUME LifetimeInv, DeviceInv, FlowInv, Step
  PROVE  FlowInv'
<1>0. TypeOK /\ LockInv
  BY DEF LifetimeInv
<1> USE <1>0, HidAssumption
    DEF Thread, Worker, Pumper, ctx, ring, session, flow,
        table, locks, hid, counts
<1>1. CASE UNCHANGED vars
  BY <1>1, FlowUntouched DEF vars
<1>2. ASSUME NEW f \in Files, FileCreate(f) PROVE FlowInv'
  BY <1>2, FlowKept DEF FileCreate, InPump
<1>3. ASSUME NEW f \in Files, FileClose(f) PROVE FlowInv'
  BY <1>3, FlowKept DEF FileClose, InPump
<1>4. ASSUME NEW f \in Files, NEW code \in Codes, NEW id \in Nat,
              NEW verdict \in Verdicts, Dispatch(f, code, id, verdict)
      PROVE  FlowInv'
  BY <1>4, FlowKept DEF Dispatch, InPump
<1>5. ASSUME Prepare PROVE FlowInv'
  BY <1>5, FlowUntouched DEF Prepare
<1>6. ASSUME ReleaseStopTimer PROVE FlowInv'
  BY <1>6, FlowKept DEF ReleaseStopTimer, InPump
<1>7. ASSUME NEW h \in Handles, NEW k \in Kinds, HidOperation(h, k)
      PROVE  FlowInv'
  <2>1. Goto(h, "enqueue") \/ pc' = pc
    BY <1>7 DEF HidOperation
  <2>2. \A u \in Worker \cup {"ready"} : pc'[u] = pc[u]
    BY <2>1 DEF Goto, TypeOK
  <2> QED BY <1>7, <2>2, FlowUntouched DEF HidOperation
<1>8. ASSUME NEW s \in Slots, DeadlinePasses(s) PROVE FlowInv'
  BY <1>8, FlowUntouched DEF DeadlinePasses
<1>9. ASSUME IoctlAcquire PROVE FlowInv'
  BY <1>9, FlowKept DEF IoctlAcquire, Lock, InPump
<1>10. ASSUME NEW f \in Files, FileCleanup(f) PROVE FlowInv'
  BY <1>10, FlowKept DEF FileCleanup, Lock, InPump
<1>11. ASSUME ReleaseAcquire PROVE FlowInv'
  BY <1>11, FlowKept DEF ReleaseAcquire, Lock, InPump
<1>12. ASSUME Start PROVE FlowInv'
  BY <1>12, FlowKept DEF Start, InPump
<1>13. ASSUME Claim PROVE FlowInv'
  BY <1>13, FlowKept DEF Claim, InPump
<1>14. ASSUME VhfCreate PROVE FlowInv'
  <2>1. pc["ioctl"] = "vhfcreate"
    BY <1>14 DEF VhfCreate
  <2>2. /\ pc'["ioctl"] \in {"publish", "destroy"}
        /\ \A u \in (Worker \cup {"ready"}) \ {"ioctl"} : pc'[u] = pc[u]
    BY <1>14 DEF VhfCreate, Goto, TypeOK
  <2>3. vhfState = "none"
    BY <2>1, DeviceFound DEF DeviceInv, Held, Between
  <2>4. ~Live
    BY <2>1, <2>3 DEF Live
  <2>5. pc["ready"] = "idle" /\ ~credit /\ ~ready
    <3>1. \A w \in Worker : pc[w] # "reset"
      BY <2>1, OneWorker DEF Held, Cleared
    <3> QED BY <2>4, <3>1 DEF FlowInv
  <2>6. \A t \in Pumper : pc[t] \notin InPump
    BY <2>1, <2>4, NobodyPumps DEF Held, InPump
  <2> QED BY <1>14, <2>2, <2>4, <2>5, <2>6 DEF VhfCreate, FlowInv, InPump
<1>15. ASSUME Publish PROVE FlowInv'
  BY <1>15, FlowKept DEF Publish, InPump
<1>16. ASSUME VhfStart PROVE FlowInv'
  <2>1. pc["ioctl"] = "vhfstart"
    BY <1>16 DEF VhfStart
  <2>2. /\ pc'["ioctl"] \in {"starting", "destroy"}
        /\ \A u \in (Worker \cup {"ready"}) \ {"ioctl"} : pc'[u] = pc[u]
    BY <1>16 DEF VhfStart, Goto, TypeOK
  <2>3. vhfState = "created"
    BY <2>1 DEF DeviceInv
  <2>4. ~Live
    BY <2>1, <2>3 DEF Live
  <2>5. pc["ready"] = "idle" /\ ~credit /\ ~ready
    <3>1. \A w \in Worker : pc[w] # "reset"
      BY <2>1, OneWorker DEF Held, Cleared
    <3> QED BY <2>4, <3>1 DEF FlowInv
  <2>6. \A t \in Pumper : pc[t] \notin InPump
    BY <2>1, <2>4, NobodyPumps DEF Held, InPump
  <2> QED BY <1>16, <2>2, <2>4, <2>5, <2>6 DEF VhfStart, FlowInv, InPump
<1>17. ASSUME Input PROVE FlowInv'
  BY <1>17, FlowKept DEF Input, InPump
<1>18. ASSUME NEW t \in Pumper, PumpEnter(t) PROVE FlowInv'
  <2>1. pc'[t] \in {"take", "finish", "idle"} /\ (pc'[t] = "take" => ~pumping)
    BY <1>18 DEF PumpEnter, AfterPump, Goto, TypeOK
  <2>2. \A u \in (Worker \cup {"ready"}) \ {t} : pc'[u] = pc[u]
    BY <1>18 DEF PumpEnter, Goto, TypeOK
  <2> QED BY <1>18, <2>1, <2>2 DEF PumpEnter, FlowInv, InPump, Live
<1>19. ASSUME NEW t \in Pumper, PumpLeave(t) PROVE FlowInv'
  <2>1. pc[t] = "take" /\ Goto(t, AfterPump(t))
    BY <1>19 DEF PumpLeave
  <2>2. pc'[t] = AfterPump(t) /\ \A u \in (Worker \cup {"ready"}) \ {t} : pc'[u] = pc[u]
    BY <2>1 DEF Goto, TypeOK
  <2>3. AfterPump(t) \notin InPump \cup {"ready", "submit"}
    BY DEF AfterPump, InPump
  <2> QED BY <1>19, <2>2, <2>3 DEF PumpLeave, FlowInv, InPump, Live
<1>20. ASSUME NEW t \in Pumper, PumpTake(t) PROVE FlowInv'
  <2>1. pc[t] = "take" /\ Goto(t, "submit")
    BY <1>20 DEF PumpTake
  <2>2. pc'[t] = "submit" /\ \A u \in (Worker \cup {"ready"}) \ {t} : pc'[u] = pc[u]
    BY <2>1 DEF Goto, TypeOK
  <2>3. vhf /\ ready
    BY <1>20 DEF PumpTake, NothingToPump
  <2>4. credit
    BY <2>3 DEF FlowInv, DeviceInv
  <2> QED BY <1>20, <2>1, <2>2, <2>3, <2>4 DEF PumpTake, FlowInv, InPump, Live
<1>21. ASSUME NEW t \in Pumper, PumpAbandon(t) PROVE FlowInv'
  <2>1. pc[t] = "failed" /\ Goto(t, AfterPump(t))
    BY <1>21 DEF PumpAbandon
  <2>2. pc'[t] = AfterPump(t) /\ \A u \in (Worker \cup {"ready"}) \ {t} : pc'[u] = pc[u]
    BY <2>1 DEF Goto, TypeOK
  <2>3. AfterPump(t) \notin InPump \cup {"ready", "submit"}
    BY DEF AfterPump, InPump
  <2> QED BY <1>21, <2>2, <2>3 DEF PumpAbandon, FlowInv, InPump, Live
<1>22. ASSUME NEW t \in Pumper, SubmitAccepted(t) PROVE FlowInv'
  <2>1. pc[t] = "submit" /\ Goto(t, "submitted")
    BY <1>22 DEF SubmitAccepted
  <2>2. pc'[t] = "submitted" /\ \A u \in (Worker \cup {"ready"}) \ {t} : pc'[u] = pc[u]
    BY <2>1 DEF Goto, TypeOK
  <2> QED BY <1>22, <2>1, <2>2 DEF SubmitAccepted, FlowInv, InPump, Live
<1>23. ASSUME NEW t \in Pumper, SubmitFailed(t) PROVE FlowInv'
  <2>1. pc[t] = "submit" /\ Goto(t, "failed")
    BY <1>23 DEF SubmitFailed
  <2>2. pc'[t] = "failed" /\ \A u \in (Worker \cup {"ready"}) \ {t} : pc'[u] = pc[u]
    BY <2>1 DEF Goto, TypeOK
  <2> QED BY <1>23, <2>1, <2>2 DEF SubmitFailed, FlowInv, InPump, Live
<1>24. ASSUME NEW t \in Pumper, SubmitReturns(t) PROVE FlowInv'
  <2>1. pc[t] = "submitted" /\ Goto(t, "take")
    BY <1>24 DEF SubmitReturns
  <2>2. pc'[t] = "take" /\ \A u \in (Worker \cup {"ready"}) \ {t} : pc'[u] = pc[u]
    BY <2>1 DEF Goto, TypeOK
  <2> QED BY <1>24, <2>1, <2>2 DEF SubmitReturns, FlowInv, InPump, Live
<1>25. ASSUME NoMoreEntries PROVE FlowInv'
  BY <1>25, FlowKept DEF NoMoreEntries, InPump
<1>26. ASSUME NEW s \in Slots, Deliver(s) PROVE FlowInv'
  BY <1>26, FlowKept DEF Deliver, InPump
<1>27. ASSUME NEW s \in Slots, Reply(s) PROVE FlowInv'
  BY <1>27, FlowKept DEF Reply, InPump
<1>28. ASSUME ReplyNotFound PROVE FlowInv'
  BY <1>28, FlowKept DEF ReplyNotFound, InPump
<1>29. ASSUME ReplyCompleted PROVE FlowInv'
  BY <1>29, FlowKept DEF ReplyCompleted, InPump
<1>30. ASSUME NEW w \in Worker, DestroyStop(w) PROVE FlowInv'
  BY <1>30, FlowKept DEF DestroyStop, InPump
<1>31. ASSUME NEW w \in Worker, DestroyExpire(w) PROVE FlowInv'
  BY <1>31, FlowKept DEF DestroyExpire, InPump
<1>32. ASSUME NEW w \in Worker, DestroyDelete(w) PROVE FlowInv'
  <2>1. pc[w] = "cancel"
    BY <1>32 DEF DestroyDelete
  <2>2. /\ pc'[w] \in {"delete", "reset"}
        /\ \A u \in (Worker \cup {"ready"}) \ {w} : pc'[u] = pc[u]
    BY <1>32 DEF DestroyDelete, Goto, TypeOK
  <2>3. vhfState' = vhfState \/ vhfState' = "deleting"
    BY <1>32 DEF DestroyDelete
  <2> QED BY <1>32, <2>1, <2>2, <2>3 DEF DestroyDelete, FlowInv, InPump, Live
<1>33. ASSUME NEW w \in Worker, VhfDeleted(w) PROVE FlowInv'
  <2>1. pc[w] = "delete" /\ Goto(w, "reset")
    BY <1>33 DEF VhfDeleted
  <2>2. pc'[w] = "reset" /\ \A u \in (Worker \cup {"ready"}) \ {w} : pc'[u] = pc[u]
    BY <2>1 DEF Goto, TypeOK
  <2>3. \A t \in Pumper : pc[t] \notin InPump
    BY <1>33, <2>1, NobodyPumps DEF VhfDeleted, Held, Cleared, InPump
  <2>4. pc["ready"] = "idle"
    BY <1>33 DEF VhfDeleted
  <2> QED BY <1>33, <2>2, <2>3, <2>4 DEF VhfDeleted, FlowInv, InPump
<1>34. ASSUME NEW w \in Worker, DestroyReset(w) PROVE FlowInv'
  <2>1. pc[w] = "reset" /\ Goto(w, AfterDestroy(w))
    BY <1>34 DEF DestroyReset
  <2>2. pc'[w] = AfterDestroy(w) /\ \A u \in (Worker \cup {"ready"}) \ {w} : pc'[u] = pc[u]
    BY <2>1 DEF Goto, TypeOK
  <2>3. ~Live
    BY <2>1 DEF DeviceInv, Live
  <2>4. \A t \in Pumper : pc[t] \notin InPump
    BY <2>1, <2>3, NobodyPumps DEF Held, Cleared, InPump
  <2>5. AfterDestroy(w) \notin InPump
    BY DEF AfterDestroy, InPump
  <2>6. pc["ready"] = "idle" /\ ~credit
    BY <2>3 DEF FlowInv
  <2> QED BY <1>34, <2>2, <2>3, <2>4, <2>5, <2>6 DEF DestroyReset, FlowInv, InPump, Live
<1>35. ASSUME NEW t \in Thread, Complete(t) PROVE FlowInv'
  BY <1>35, FlowUntouched DEF Complete
<1>36. ASSUME NEW w \in Worker, Finish(w) PROVE FlowInv'
  BY <1>36, FlowKept DEF Finish, InPump
<1>37. ASSUME ReleaseTimerStopped PROVE FlowInv'
  BY <1>37, FlowKept DEF ReleaseTimerStopped, InPump
<1>38. ASSUME ReleaseClose PROVE FlowInv'
  BY <1>38, FlowKept DEF ReleaseClose, InPump
<1>39. ASSUME NEW h \in Handles, Refuse(h) PROVE FlowInv'
  BY <1>39, FlowKept DEF Refuse, InPump
<1>40. ASSUME NEW h \in Handles, NEW s \in Slots, Accept(h, s) PROVE FlowInv'
  BY <1>40, FlowKept DEF Accept, InPump
<1>41. ASSUME Tick PROVE FlowInv'
  BY <1>41, FlowUntouched DEF Tick
<1>42. ASSUME VhfReady PROVE FlowInv'
  <2>1. pc["ready"] = "idle" /\ Goto("ready", "ready")
    BY <1>42 DEF VhfReady
  <2>2. pc'["ready"] = "ready" /\ \A u \in (Worker \cup {"ready"}) \ {"ready"} : pc'[u] = pc[u]
    BY <2>1 DEF Goto, TypeOK
  <2>3. ~credit /\ ~ready
    BY <1>42 DEF VhfReady, FlowInv, DeviceInv
  <2> QED BY <1>42, <2>1, <2>2, <2>3 DEF VhfReady, FlowInv, InPump, Live
<1>43. ASSUME Ready PROVE FlowInv'
  <2>1. pc["ready"] = "ready" /\ Goto("ready", "pump")
    BY <1>43 DEF Ready
  <2>2. pc'["ready"] = "pump" /\ \A u \in (Worker \cup {"ready"}) \ {"ready"} : pc'[u] = pc[u]
    BY <2>1 DEF Goto, TypeOK
  <2> QED BY <1>43, <2>1, <2>2 DEF Ready, FlowInv, InPump, Live
<1>44. ASSUME VhfStartReturns PROVE FlowInv'
  BY <1>44, FlowKept DEF VhfStartReturns, InPump
<1> QED
  BY <1>1, <1>2, <1>3, <1>4, <1>5, <1>6, <1>7, <1>8, <1>9, <1>10, <1>11,
     <1>12, <1>13, <1>14, <1>15, <1>16, <1>17, <1>18, <1>19, <1>20, <1>21,
     <1>22, <1>23, <1>24, <1>25, <1>26, <1>27, <1>28, <1>29, <1>30, <1>31,
     <1>32, <1>33, <1>34, <1>35, <1>36, <1>37, <1>38, <1>39, <1>40, <1>41,
     <1>42, <1>43, <1>44 DEF Step

(* The flow's invariant holds in every behaviour.                          *)
LEMMA FlowAlways == Spec => []FlowInv
<1>1. Init => FlowInv
  BY HidAssumption DEF Init, FlowInv, InPump, Live, Worker, Pumper, Thread
<1>2. LifetimeInv /\ DeviceInv /\ FlowInv /\ [Next]_vars => FlowInv'
  BY StepCases, FlowSteps
<1> QED
  BY <1>1, <1>2, DeviceAlways, PTL DEF Spec

(* VhfReadReportSubmit is entered by one thread at a time: the flag        *)
(* pumping is set from before the loop until after it, and destroy, which  *)
(* clears it, comes to that only when nobody is in the pump.               *)
THEOREM OneSubmits == Spec => []SingleSubmitter
<1>1. FlowInv => SingleSubmitter
  BY DEF FlowInv, SingleSubmitter, Submitting, InPump
<1> QED
  BY <1>1, FlowAlways, PTL

(* Every report is submitted in answer to a request of the VHF device that *)
(* receives it, and no request is answered twice.                          *)
THEOREM SubmitsWhenAsked == Spec => []SubmitOnlyWhenAsked
<1>1. FlowInv => SubmitOnlyWhenAsked
  BY DEF FlowInv, SubmitOnlyWhenAsked, Live
<1> QED
  BY <1>1, FlowAlways, PTL
-----------------------------------------------------------------------------
(* The ring.  A place of the ring, without the remainder.                  *)
LEMMA Place ==
  ASSUME NEW h \in 0 .. Cap - 1, NEW i \in 0 .. Cap
  PROVE  (h + i) % Cap = IF h + i < Cap THEN h + i ELSE h + i - Cap
<1>1. \A n \in Nat : n < Cap => n % Cap = n
  BY HidAssumption
<1>2. \A n \in Nat : n < Cap => (n + Cap) % Cap = n
  BY HidAssumption
<1>3. CASE h + i < Cap
  BY <1>1, <1>3, HidAssumption
<1>4. CASE h + i >= Cap
  <2>1. h + i - Cap \in Nat /\ h + i - Cap < Cap
    BY <1>4, HidAssumption
  <2>2. (h + i - Cap) + Cap = h + i
    BY HidAssumption
  <2> QED BY <1>2, <1>4, <2>1, <2>2, HidAssumption
<1> QED
  BY <1>3, <1>4, HidAssumption

(* The step of ioctl that puts a report into the ring.                     *)
LEMMA InputRing ==
  ASSUME TypeOK, RingHoldsBacklog, Input
  PROVE  RingHoldsBacklog'
<1>1. CASE count = Cap
  BY <1>1 DEF Input, RingHoldsBacklog
<1>2. CASE count # Cap
  <2> DEFINE n == (head + count) % Cap
  <2>1. /\ accepted' = accepted + 1 /\ inputs' = [inputs EXCEPT ![n] = accepted + 1]
        /\ count' = count + 1 /\ head' = head /\ taken' = taken
    BY <1>2 DEF Input
  <2>2. count \in 0 .. Cap - 1 /\ head \in 0 .. Cap - 1 /\ accepted \in Nat /\ taken \in Nat
    BY <1>2, HidAssumption DEF TypeOK, ContextOK, EnvironmentOK
  <2>3. n \in 0 .. Cap - 1
    BY <2>2, Place, HidAssumption
  <2>4. inputs'[n] = accepted + 1 /\ \A m \in 0 .. Cap - 1 : m # n => inputs'[m] = inputs[m]
    BY <2>1, <2>3 DEF TypeOK, ContextOK
  <2>5. ASSUME NEW i \in 0 .. Cap - 1, i < count + 1
        PROVE  inputs'[(head + i) % Cap] = taken + 1 + i
    <3>1. CASE i = count
      BY <2>2, <2>4, <3>1 DEF RingHoldsBacklog
    <3>2. CASE i < count
      <4>0. i \in 0 .. Cap /\ count \in 0 .. Cap /\ head \in 0 .. Cap - 1
        BY <2>2, HidAssumption
      <4>1. /\ (head + i) % Cap = IF head + i < Cap THEN head + i ELSE head + i - Cap
            /\ n = IF head + count < Cap THEN head + count ELSE head + count - Cap
        BY <4>0, Place, Zenon
      <4> HIDE DEF n
      <4>2. (head + i) % Cap \in 0 .. Cap - 1 /\ (head + i) % Cap # n
        BY <2>2, <3>2, <4>1, HidAssumption
      <4> QED BY <2>4, <3>2, <4>2 DEF RingHoldsBacklog
    <3> QED BY <2>2, <2>5, <3>1, <3>2
  <2>6. taken + (count + 1) = accepted + 1
    BY <2>2 DEF RingHoldsBacklog
  <2> QED BY <2>1, <2>5, <2>6 DEF RingHoldsBacklog
<1> QED
  BY <1>1, <1>2

(* The step of pump that takes the oldest report out of it.                *)
LEMMA TakeRing ==
  ASSUME TypeOK, RingHoldsBacklog, NEW t \in Pumper, PumpTake(t)
  PROVE  RingHoldsBacklog'
<1>1. /\ count # 0 /\ head' = (head + 1) % Cap /\ count' = count - 1
      /\ taken' = taken + 1 /\ inputs' = inputs /\ accepted' = accepted
  BY DEF PumpTake, NothingToPump
<1>2. count \in 1 .. Cap /\ head \in 0 .. Cap - 1 /\ accepted \in Nat /\ taken \in Nat
  BY <1>1 DEF TypeOK, ContextOK, EnvironmentOK
<1>3. head' = IF head + 1 < Cap THEN head + 1 ELSE 0
  <2>1. 1 \in 0 .. Cap /\ head \in 0 .. Cap - 1
    BY <1>2, HidAssumption
  <2>2. (head + 1) % Cap = IF head + 1 < Cap THEN head + 1 ELSE head + 1 - Cap
    BY <2>1, Place, Zenon
  <2> QED BY <1>1, <1>2, <2>2, HidAssumption
<1>4. ASSUME NEW i \in 0 .. Cap - 1, i < count - 1
      PROVE  inputs[(head' + i) % Cap] = taken + 1 + 1 + i
  <2>1. i + 1 \in 0 .. Cap - 1 /\ i + 1 < count
    BY <1>2, <1>4, HidAssumption
  <2>2. inputs[(head + (i + 1)) % Cap] = taken + 1 + (i + 1)
    BY <2>1 DEF RingHoldsBacklog
  <2>3. (head' + i) % Cap = (head + (i + 1)) % Cap
    <3>1. /\ head' \in 0 .. Cap - 1 /\ i \in 0 .. Cap
          /\ head \in 0 .. Cap - 1 /\ i + 1 \in 0 .. Cap
      BY <1>2, <1>3, <2>1, HidAssumption
    <3>2. (head' + i) % Cap = IF head' + i < Cap THEN head' + i ELSE head' + i - Cap
      BY <3>1, Place, Zenon
    <3>3. (head + (i + 1)) % Cap
            = IF head + (i + 1) < Cap THEN head + (i + 1) ELSE head + (i + 1) - Cap
      BY <3>1, Place, Zenon
    <3> QED BY <1>2, <1>3, <3>2, <3>3, HidAssumption
  <2> QED BY <1>2, <2>2, <2>3, HidAssumption
<1>5. (taken + 1) + (count - 1) = accepted
  BY <1>2 DEF RingHoldsBacklog
<1> QED
  BY <1>1, <1>4, <1>5 DEF RingHoldsBacklog

(* Every step keeps the order and the number of the reports in the ring;   *)
(* most of them leave the ring alone.                                      *)
LEMMA RingSteps ==
  ASSUME TypeOK, RingHoldsBacklog, Step
  PROVE  RingHoldsBacklog'
<1> USE DEF ctx, ring, counts
<1>0. UNCHANGED <<inputs, head, count, accepted, taken>> => RingHoldsBacklog'
  BY DEF RingHoldsBacklog
<1>1. CASE UNCHANGED vars
  BY <1>0, <1>1 DEF vars
<1>2. ASSUME NEW f \in Files, FileCreate(f) PROVE RingHoldsBacklog'
  BY <1>2, <1>0 DEF FileCreate
<1>3. ASSUME NEW f \in Files, FileClose(f) PROVE RingHoldsBacklog'
  BY <1>3, <1>0 DEF FileClose
<1>4. ASSUME NEW f \in Files, NEW code \in Codes, NEW id \in Nat,
              NEW verdict \in Verdicts, Dispatch(f, code, id, verdict)
      PROVE  RingHoldsBacklog'
  BY <1>4, <1>0 DEF Dispatch
<1>5. ASSUME Prepare PROVE RingHoldsBacklog'
  BY <1>5, <1>0 DEF Prepare
<1>6. ASSUME ReleaseStopTimer PROVE RingHoldsBacklog'
  BY <1>6, <1>0 DEF ReleaseStopTimer
<1>7. ASSUME NEW h \in Handles, NEW k \in Kinds, HidOperation(h, k)
      PROVE  RingHoldsBacklog'
  BY <1>7, <1>0 DEF HidOperation
<1>8. ASSUME NEW s \in Slots, DeadlinePasses(s) PROVE RingHoldsBacklog'
  BY <1>8, <1>0 DEF DeadlinePasses
<1>9. ASSUME IoctlAcquire PROVE RingHoldsBacklog'
  BY <1>9, <1>0 DEF IoctlAcquire, Lock
<1>10. ASSUME NEW f \in Files, FileCleanup(f) PROVE RingHoldsBacklog'
  BY <1>10, <1>0 DEF FileCleanup, Lock
<1>11. ASSUME ReleaseAcquire PROVE RingHoldsBacklog'
  BY <1>11, <1>0 DEF ReleaseAcquire, Lock
<1>12. ASSUME Start PROVE RingHoldsBacklog'
  BY <1>12, <1>0 DEF Start
<1>13. ASSUME Claim PROVE RingHoldsBacklog'
  BY <1>13, <1>0 DEF Claim
<1>14. ASSUME VhfCreate PROVE RingHoldsBacklog'
  BY <1>14, <1>0 DEF VhfCreate
<1>15. ASSUME Publish PROVE RingHoldsBacklog'
  BY <1>15, <1>0 DEF Publish
<1>16. ASSUME VhfStart PROVE RingHoldsBacklog'
  BY <1>16, <1>0 DEF VhfStart
<1>17. ASSUME Input PROVE RingHoldsBacklog'
  BY <1>17, InputRing
<1>18. ASSUME NEW t \in Pumper, PumpEnter(t) PROVE RingHoldsBacklog'
  BY <1>18, <1>0 DEF PumpEnter
<1>19. ASSUME NEW t \in Pumper, PumpLeave(t) PROVE RingHoldsBacklog'
  BY <1>19, <1>0 DEF PumpLeave
<1>20. ASSUME NEW t \in Pumper, PumpTake(t) PROVE RingHoldsBacklog'
  BY <1>20, TakeRing
<1>21. ASSUME NEW t \in Pumper, PumpAbandon(t) PROVE RingHoldsBacklog'
  BY <1>21, <1>0 DEF PumpAbandon
<1>22. ASSUME NEW t \in Pumper, SubmitAccepted(t) PROVE RingHoldsBacklog'
  BY <1>22, <1>0 DEF SubmitAccepted
<1>23. ASSUME NEW t \in Pumper, SubmitFailed(t) PROVE RingHoldsBacklog'
  BY <1>23, <1>0 DEF SubmitFailed
<1>24. ASSUME NEW t \in Pumper, SubmitReturns(t) PROVE RingHoldsBacklog'
  BY <1>24, <1>0 DEF SubmitReturns
<1>25. ASSUME NoMoreEntries PROVE RingHoldsBacklog'
  BY <1>25, <1>0 DEF NoMoreEntries
<1>26. ASSUME NEW s \in Slots, Deliver(s) PROVE RingHoldsBacklog'
  BY <1>26, <1>0 DEF Deliver
<1>27. ASSUME NEW s \in Slots, Reply(s) PROVE RingHoldsBacklog'
  BY <1>27, <1>0 DEF Reply
<1>28. ASSUME ReplyNotFound PROVE RingHoldsBacklog'
  BY <1>28, <1>0 DEF ReplyNotFound
<1>29. ASSUME ReplyCompleted PROVE RingHoldsBacklog'
  BY <1>29, <1>0 DEF ReplyCompleted
<1>30. ASSUME NEW w \in Worker, DestroyStop(w) PROVE RingHoldsBacklog'
  BY <1>30, <1>0 DEF DestroyStop
<1>31. ASSUME NEW w \in Worker, DestroyExpire(w) PROVE RingHoldsBacklog'
  BY <1>31, <1>0 DEF DestroyExpire
<1>32. ASSUME NEW w \in Worker, DestroyDelete(w) PROVE RingHoldsBacklog'
  BY <1>32, <1>0 DEF DestroyDelete
<1>33. ASSUME NEW w \in Worker, VhfDeleted(w) PROVE RingHoldsBacklog'
  BY <1>33, <1>0 DEF VhfDeleted
<1>34. ASSUME NEW w \in Worker, DestroyReset(w) PROVE RingHoldsBacklog'
  BY <1>34, HidAssumption DEF DestroyReset, RingHoldsBacklog, TypeOK, EnvironmentOK
<1>35. ASSUME NEW t \in Thread, Complete(t) PROVE RingHoldsBacklog'
  BY <1>35, <1>0 DEF Complete
<1>36. ASSUME NEW w \in Worker, Finish(w) PROVE RingHoldsBacklog'
  BY <1>36, <1>0 DEF Finish
<1>37. ASSUME ReleaseTimerStopped PROVE RingHoldsBacklog'
  BY <1>37, <1>0 DEF ReleaseTimerStopped
<1>38. ASSUME ReleaseClose PROVE RingHoldsBacklog'
  BY <1>38, <1>0 DEF ReleaseClose
<1>39. ASSUME NEW h \in Handles, Refuse(h) PROVE RingHoldsBacklog'
  BY <1>39, <1>0 DEF Refuse
<1>40. ASSUME NEW h \in Handles, NEW s \in Slots, Accept(h, s)
      PROVE  RingHoldsBacklog'
  BY <1>40, <1>0 DEF Accept
<1>41. ASSUME Tick PROVE RingHoldsBacklog'
  BY <1>41, <1>0 DEF Tick
<1>42. ASSUME VhfReady PROVE RingHoldsBacklog'
  BY <1>42, <1>0 DEF VhfReady
<1>43. ASSUME Ready PROVE RingHoldsBacklog'
  BY <1>43, <1>0 DEF Ready
<1>44. ASSUME VhfStartReturns PROVE RingHoldsBacklog'
  BY <1>44, <1>0 DEF VhfStartReturns
<1> QED
  BY <1>1, <1>2, <1>3, <1>4, <1>5, <1>6, <1>7, <1>8, <1>9, <1>10, <1>11,
     <1>12, <1>13, <1>14, <1>15, <1>16, <1>17, <1>18, <1>19, <1>20, <1>21,
     <1>22, <1>23, <1>24, <1>25, <1>26, <1>27, <1>28, <1>29, <1>30, <1>31,
     <1>32, <1>33, <1>34, <1>35, <1>36, <1>37, <1>38, <1>39, <1>40, <1>41,
     <1>42, <1>43, <1>44 DEF Step

(* At every instant the ring holds exactly the reports that were accepted  *)
(* and neither given to VHF nor discarded with their session, in the order *)
(* in which they came, for every size of the ring and any number of laps.  *)
THEOREM RingCorrect == Spec => []RingHoldsBacklog
<1>1. Init => RingHoldsBacklog
  BY HidAssumption DEF Init, RingHoldsBacklog
<1>2. TypeOK /\ RingHoldsBacklog /\ [Next]_vars => RingHoldsBacklog'
  BY StepCases, RingSteps
<1> QED
  BY <1>1, <1>2, TypeCorrect, PTL DEF Spec
-----------------------------------------------------------------------------
(* The owner.  While brokers call one at a time, the file of the request   *)
(* under way is open, and the owner's file has not finished its cleanup.   *)
Owning == {"open", "acquire", "destroy", "expire", "cancel", "delete", "reset"}

OwnerInv == ~Overlapped =>
  /\ call.file # NULL => pc[call.file] = "open"
  /\ owner # NULL => pc[owner] \in Owning

(* A step in which files only go on with a destroy they are in.            *)
LEMMA OwnerKept ==
  ASSUME TypeOK, OwnerInv, owner' = owner, call' = call,
         \A f \in Files : pc'[f] = pc[f]
           \/ (pc[f] # "open" /\ (pc[f] \in Owning => pc'[f] \in Owning))
  PROVE  OwnerInv'
<1>1. owner \in Files \cup {NULL} /\ call.file \in Files \cup {NULL}
  BY DEF TypeOK, ContextOK, ThreadsOK, Call
<1> QED
  BY <1>1 DEF OwnerInv, Owning

(* Every step keeps the owner's file.                                      *)
LEMMA OwnerSteps ==
  ASSUME TypeOK, DeviceInv, OwnerInv, Step
  PROVE  OwnerInv'
<1>0. owner \in Files \cup {NULL} /\ call.file \in Files \cup {NULL} /\ pc \in [Thread -> Labels]
  BY DEF TypeOK, ContextOK, ThreadsOK, Call
<1> USE <1>0, HidAssumption
    DEF Thread, Worker, Pumper, ctx, ring, session, flow, table, locks, hid,
        counts, Goto
<1>1. CASE UNCHANGED vars
  BY <1>1, OwnerKept DEF vars
<1>2. ASSUME NEW f \in Files, FileCreate(f) PROVE OwnerInv'
  <2>1. pc[f] = "closed" /\ call' = call /\ owner' = owner
    BY <1>2 DEF FileCreate
  <2>2. pc'[f] = "open" /\ \A g \in Files \ {f} : pc'[g] = pc[g]
    BY <1>2 DEF FileCreate
  <2> QED BY <2>1, <2>2 DEF OwnerInv, Owning
<1>3. ASSUME NEW f \in Files, FileClose(f) PROVE OwnerInv'
  <2>1. /\ pc[f] = "open" /\ (Overlapped \/ call.file # f)
        /\ call' = call /\ owner' = owner
    BY <1>3 DEF FileClose
  <2>2. pc'[f] = "acquire" /\ \A g \in Files \ {f} : pc'[g] = pc[g]
    BY <1>3 DEF FileClose
  <2> QED BY <2>1, <2>2 DEF OwnerInv, Owning
<1>4. ASSUME NEW f \in Files, NEW code \in Codes, NEW id \in Nat,
              NEW verdict \in Verdicts, Dispatch(f, code, id, verdict)
      PROVE  OwnerInv'
  <2>1. pc[f] = "open" /\ call'.file = f /\ owner' = owner
    BY <1>4 DEF Dispatch
  <2>2. \A g \in Files : pc'[g] = pc[g]
    BY <1>4 DEF Dispatch
  <2> QED BY <2>1, <2>2 DEF OwnerInv
<1>5. ASSUME Prepare PROVE OwnerInv'
  BY <1>5, OwnerKept DEF Prepare
<1>6. ASSUME ReleaseStopTimer PROVE OwnerInv'
  BY <1>6, OwnerKept DEF ReleaseStopTimer
<1>7. ASSUME NEW h \in Handles, NEW k \in Kinds, HidOperation(h, k)
      PROVE  OwnerInv'
  BY <1>7, OwnerKept DEF HidOperation
<1>8. ASSUME NEW s \in Slots, DeadlinePasses(s) PROVE OwnerInv'
  BY <1>8, OwnerKept DEF DeadlinePasses
<1>9. ASSUME IoctlAcquire PROVE OwnerInv'
  BY <1>9, OwnerKept DEF IoctlAcquire, Lock
<1>10. ASSUME NEW f \in Files, FileCleanup(f) PROVE OwnerInv'
  <2>1. pc[f] = "acquire" /\ call' = call /\ owner' = owner
    BY <1>10 DEF FileCleanup, Lock
  <2>2. /\ pc'[f] = IF owner = f THEN "destroy" ELSE "finish"
        /\ \A g \in Files \ {f} : pc'[g] = pc[g]
    BY <1>10 DEF FileCleanup, Lock
  <2> QED BY <2>1, <2>2 DEF OwnerInv, Owning
<1>11. ASSUME ReleaseAcquire PROVE OwnerInv'
  BY <1>11, OwnerKept DEF ReleaseAcquire, Lock
<1>12. ASSUME Start PROVE OwnerInv'
  BY <1>12, OwnerKept DEF Start
<1>13. ASSUME Claim PROVE OwnerInv'
  <2>1. owner' = call.file /\ call' = call
    BY <1>13 DEF Claim
  <2>2. \A g \in Files : pc'[g] = pc[g]
    BY <1>13 DEF Claim
  <2> QED BY <2>1, <2>2 DEF OwnerInv, Owning
<1>14. ASSUME VhfCreate PROVE OwnerInv'
  BY <1>14, OwnerKept DEF VhfCreate
<1>15. ASSUME Publish PROVE OwnerInv'
  BY <1>15, OwnerKept DEF Publish
<1>16. ASSUME VhfStart PROVE OwnerInv'
  BY <1>16, OwnerKept DEF VhfStart
<1>17. ASSUME Input PROVE OwnerInv'
  BY <1>17, OwnerKept DEF Input
<1>18. ASSUME NEW t \in Pumper, PumpEnter(t) PROVE OwnerInv'
  BY <1>18, OwnerKept DEF PumpEnter, AfterPump
<1>19. ASSUME NEW t \in Pumper, PumpLeave(t) PROVE OwnerInv'
  BY <1>19, OwnerKept DEF PumpLeave, AfterPump
<1>20. ASSUME NEW t \in Pumper, PumpTake(t) PROVE OwnerInv'
  BY <1>20, OwnerKept DEF PumpTake
<1>21. ASSUME NEW t \in Pumper, PumpAbandon(t) PROVE OwnerInv'
  BY <1>21, OwnerKept DEF PumpAbandon, AfterPump
<1>22. ASSUME NEW t \in Pumper, SubmitAccepted(t) PROVE OwnerInv'
  BY <1>22, OwnerKept DEF SubmitAccepted
<1>23. ASSUME NEW t \in Pumper, SubmitFailed(t) PROVE OwnerInv'
  BY <1>23, OwnerKept DEF SubmitFailed
<1>24. ASSUME NEW t \in Pumper, SubmitReturns(t) PROVE OwnerInv'
  BY <1>24, OwnerKept DEF SubmitReturns
<1>25. ASSUME NoMoreEntries PROVE OwnerInv'
  BY <1>25, OwnerKept DEF NoMoreEntries
<1>26. ASSUME NEW s \in Slots, Deliver(s) PROVE OwnerInv'
  BY <1>26, OwnerKept DEF Deliver
<1>27. ASSUME NEW s \in Slots, Reply(s) PROVE OwnerInv'
  BY <1>27, OwnerKept DEF Reply
<1>28. ASSUME ReplyNotFound PROVE OwnerInv'
  BY <1>28, OwnerKept DEF ReplyNotFound
<1>29. ASSUME ReplyCompleted PROVE OwnerInv'
  BY <1>29, OwnerKept DEF ReplyCompleted
<1>30. ASSUME NEW w \in Worker, DestroyStop(w) PROVE OwnerInv'
  <2>1. pc[w] \in Owning \ {"open"} /\ pc'[w] \in Owning
    BY <1>30 DEF DestroyStop, Owning
  <2>2. \A f \in Files \ {w} : pc'[f] = pc[f]
    BY <1>30 DEF DestroyStop
  <2> QED BY <1>30, <2>1, <2>2, OwnerKept DEF DestroyStop
<1>31. ASSUME NEW w \in Worker, DestroyExpire(w) PROVE OwnerInv'
  <2>1. pc[w] \in Owning \ {"open"} /\ pc'[w] \in Owning
    BY <1>31 DEF DestroyExpire, Owning
  <2>2. \A f \in Files \ {w} : pc'[f] = pc[f]
    BY <1>31 DEF DestroyExpire
  <2> QED BY <1>31, <2>1, <2>2, OwnerKept DEF DestroyExpire
<1>32. ASSUME NEW w \in Worker, DestroyDelete(w) PROVE OwnerInv'
  <2>1. pc[w] \in Owning \ {"open"} /\ pc'[w] \in Owning
    BY <1>32 DEF DestroyDelete, Owning
  <2>2. \A f \in Files \ {w} : pc'[f] = pc[f]
    BY <1>32 DEF DestroyDelete
  <2> QED BY <1>32, <2>1, <2>2, OwnerKept DEF DestroyDelete
<1>33. ASSUME NEW w \in Worker, VhfDeleted(w) PROVE OwnerInv'
  <2>1. pc[w] \in Owning \ {"open"} /\ pc'[w] \in Owning
    BY <1>33 DEF VhfDeleted, Owning
  <2>2. \A f \in Files \ {w} : pc'[f] = pc[f]
    BY <1>33 DEF VhfDeleted
  <2> QED BY <1>33, <2>1, <2>2, OwnerKept DEF VhfDeleted
<1>34. ASSUME NEW w \in Worker, DestroyReset(w) PROVE OwnerInv'
  <2>1. pc[w] = "reset" /\ owner' = NULL /\ call' = call
    BY <1>34 DEF DestroyReset
  <2>2. \A g \in Files \ {w} : pc'[g] = pc[g]
    BY <1>34 DEF DestroyReset
  <2> QED BY <2>1, <2>2 DEF OwnerInv
<1>35. ASSUME NEW t \in Thread, Complete(t) PROVE OwnerInv'
  BY <1>35, OwnerKept DEF Complete
<1>36. ASSUME NEW w \in Worker, Finish(w) PROVE OwnerInv'
  <2>1. pc[w] = "finish" /\ owner' = owner /\ \A g \in Files \ {w} : pc'[g] = pc[g]
    BY <1>36 DEF Finish
  <2>2. call'.file = NULL \/ call' = call
    BY <1>36 DEF Finish, NoCall
  <2> QED BY <2>1, <2>2 DEF OwnerInv, Owning
<1>37. ASSUME ReleaseTimerStopped PROVE OwnerInv'
  BY <1>37, OwnerKept DEF ReleaseTimerStopped
<1>38. ASSUME ReleaseClose PROVE OwnerInv'
  BY <1>38, OwnerKept DEF ReleaseClose
<1>39. ASSUME NEW h \in Handles, Refuse(h) PROVE OwnerInv'
  BY <1>39, OwnerKept DEF Refuse
<1>40. ASSUME NEW h \in Handles, NEW s \in Slots, Accept(h, s) PROVE OwnerInv'
  BY <1>40, OwnerKept DEF Accept
<1>41. ASSUME Tick PROVE OwnerInv'
  BY <1>41, OwnerKept DEF Tick
<1>42. ASSUME VhfReady PROVE OwnerInv'
  BY <1>42, OwnerKept DEF VhfReady
<1>43. ASSUME Ready PROVE OwnerInv'
  BY <1>43, OwnerKept DEF Ready
<1>44. ASSUME VhfStartReturns PROVE OwnerInv'
  BY <1>44, OwnerKept DEF VhfStartReturns
<1> QED
  BY <1>1, <1>2, <1>3, <1>4, <1>5, <1>6, <1>7, <1>8, <1>9, <1>10, <1>11,
     <1>12, <1>13, <1>14, <1>15, <1>16, <1>17, <1>18, <1>19, <1>20, <1>21,
     <1>22, <1>23, <1>24, <1>25, <1>26, <1>27, <1>28, <1>29, <1>30, <1>31,
     <1>32, <1>33, <1>34, <1>35, <1>36, <1>37, <1>38, <1>39, <1>40, <1>41,
     <1>42, <1>43, <1>44 DEF Step

(* As long as brokers call one at a time, the device never belongs to a    *)
(* broker that is gone: every later start would find it busy.  The cleanup *)
(* of the owner's file is still to come, or is clearing the owner.         *)
THEOREM OwnerLives == Spec => []OwnerIsLive
<1>1. Init => OwnerInv
  BY DEF Init, OwnerInv, NoCall
<1>2. TypeOK /\ DeviceInv /\ OwnerInv /\ [Next]_vars => OwnerInv'
  BY StepCases, OwnerSteps
<1>3. OwnerInv => OwnerIsLive
  BY DEF OwnerInv, OwnerIsLive, Owning
<1> QED
  BY <1>1, <1>2, <1>3, TypeCorrect, DeviceAlways, PTL DEF Spec
-----------------------------------------------------------------------------
(* The ids.  What poll has given out is what was accepted first.           *)
IdInv ==
  /\ lastPolled <= next_id
  /\ \A s \in Used :
       /\ requests[s].id <= next_id
       /\ requests[s].delivered => requests[s].id <= lastPolled
       /\ ~requests[s].delivered => requests[s].id > lastPolled
  /\ \A r, s \in Used : requests[r].id = requests[s].id => r = s

(* Entries are cleared or stay as they are.                                *)
LEMMA IdKept ==
  ASSUME IdInv, next_id' = next_id, lastPolled' = lastPolled,
         \A s \in Slots : \/ requests'[s].handle = NULL
                          \/ /\ requests'[s].handle = requests[s].handle
                             /\ requests'[s].id = requests[s].id
                             /\ requests'[s].delivered = requests[s].delivered
  PROVE  IdInv'
<1>1. \A s \in Used' : /\ s \in Used
                       /\ requests'[s].id = requests[s].id
                       /\ requests'[s].delivered = requests[s].delivered
  BY DEF Used
<1> QED
  BY <1>1 DEF IdInv

(* An accepted operation gets an id that none has had.                     *)
LEMMA AcceptIds ==
  ASSUME TypeOK, IdInv, NEW h \in Handles, NEW s \in Slots, Accept(h, s)
  PROVE  IdInv'
<1>1. next_id \in Nat /\ lastPolled \in Nat /\ \A r \in Slots : requests[r].id \in Nat
  BY DEF TypeOK, ContextOK, EnvironmentOK, Request
<1>2. next_id' = next_id + 1 /\ lastPolled' = lastPolled
  BY DEF Accept
<1>3. /\ requests'[s].id = next_id + 1 /\ ~requests'[s].delivered
      /\ \A r \in Slots \ {s} : requests'[r] = requests[r]
  BY DEF Accept, TypeOK, ContextOK
<1>4. \A r \in Used' : r = s \/ (r \in Used /\ requests'[r] = requests[r])
  BY <1>3 DEF Used
<1>5. \A r \in Used' \ {s} : requests'[r].id <= next_id
  BY <1>4 DEF IdInv
<1>6. lastPolled' <= next_id'
  BY <1>1, <1>2 DEF IdInv
<1>7. ASSUME NEW r \in Used'
      PROVE  /\ requests'[r].id <= next_id'
             /\ requests'[r].delivered => requests'[r].id <= lastPolled'
             /\ ~requests'[r].delivered => requests'[r].id > lastPolled'
  <2>1. CASE r = s
    BY <1>1, <1>2, <1>3, <2>1 DEF IdInv
  <2>2. CASE r # s
    <3>1. r \in Used /\ requests'[r] = requests[r] /\ r \in Slots
      BY <1>4, <2>2 DEF Used
    <3> QED BY <1>1, <1>2, <3>1 DEF IdInv
  <2> QED BY <2>1, <2>2
<1>8. ASSUME NEW q \in Used', NEW r \in Used', requests'[q].id = requests'[r].id
      PROVE  q = r
  <2>1. \A u \in Used' \ {s} : requests'[u].id # requests'[s].id
    <3>1. \A u \in Used' \ {s} : requests'[u].id \in Nat
      BY <1>1, <1>4 DEF Used
    <3> QED BY <1>1, <1>3, <1>5, <3>1
  <2> QED BY <1>4, <1>8, <2>1 DEF IdInv
<1> QED
  BY <1>6, <1>7, <1>8 DEF IdInv

(* poll gives out the operation that has waited longest.                   *)
LEMMA DeliverIds ==
  ASSUME TypeOK, IdInv, NEW s \in Slots, Deliver(s)
  PROVE  IdInv' /\ requests[s].id > lastPolled
<1>1. next_id \in Nat /\ lastPolled \in Nat /\ \A r \in Slots : requests[r].id \in Nat
  BY DEF TypeOK, ContextOK, EnvironmentOK, Request
<1>2. /\ s \in Used /\ ~requests[s].delivered
      /\ \A r \in Used : ~requests[r].delivered => requests[s].id <= requests[r].id
      /\ lastPolled' = requests[s].id /\ next_id' = next_id
      /\ requests' = [requests EXCEPT ![s].delivered = TRUE]
  BY DEF Deliver, Undelivered
<1>3. requests[s].id > lastPolled
  BY <1>2 DEF IdInv
<1>4. /\ \A r \in Slots : /\ requests'[r].handle = requests[r].handle
                          /\ requests'[r].id = requests[r].id
      /\ requests'[s].delivered
      /\ \A r \in Slots \ {s} : requests'[r].delivered = requests[r].delivered
  BY <1>2 DEF TypeOK, ContextOK, Request
<1>5. Used' = Used
  BY <1>4 DEF Used
<1>6. ASSUME NEW r \in Used
      PROVE  /\ requests'[r].id <= next_id'
             /\ requests'[r].delivered => requests'[r].id <= lastPolled'
             /\ ~requests'[r].delivered => requests'[r].id > lastPolled'
  <2>1. r \in Slots
    BY DEF Used
  <2>2. CASE r = s
    BY <1>1, <1>2, <1>4, <2>1, <2>2 DEF IdInv
  <2>3. CASE r # s
    <3>1. requests'[r].id = requests[r].id /\ requests'[r].delivered = requests[r].delivered
      BY <1>4, <2>1, <2>3
    <3>2. requests[r].id # requests[s].id
      BY <1>2, <2>3 DEF IdInv
    <3>3. requests[r].delivered => requests[r].id <= lastPolled
      BY DEF IdInv
    <3>4. ~requests[r].delivered => requests[s].id <= requests[r].id
      BY <1>2
    <3>5. requests[r].id <= next_id
      BY DEF IdInv
    <3> QED BY <1>1, <1>2, <1>3, <2>1, <3>1, <3>2, <3>3, <3>4, <3>5
  <2> QED BY <2>2, <2>3
<1>7. lastPolled' <= next_id'
  BY <1>2 DEF IdInv
<1>8. \A q, r \in Used : requests'[q].id = requests'[r].id => q = r
  BY <1>4 DEF IdInv, Used
<1> QED
  BY <1>3, <1>5, <1>6, <1>7, <1>8 DEF IdInv

(* Every step keeps the ids in order.                                      *)
LEMMA IdSteps ==
  ASSUME TypeOK, IdInv, Step
  PROVE  IdInv'
<1> USE DEF ctx, table
<1>0. UNCHANGED table => IdInv'
  BY IdKept
<1>1. CASE UNCHANGED vars
  BY <1>0, <1>1 DEF vars
<1>2. ASSUME NEW f \in Files, FileCreate(f) PROVE IdInv'
  BY <1>2, <1>0 DEF FileCreate
<1>3. ASSUME NEW f \in Files, FileClose(f) PROVE IdInv'
  BY <1>3, <1>0 DEF FileClose
<1>4. ASSUME NEW f \in Files, NEW code \in Codes, NEW id \in Nat,
              NEW verdict \in Verdicts, Dispatch(f, code, id, verdict)
      PROVE  IdInv'
  BY <1>4, <1>0 DEF Dispatch
<1>5. ASSUME Prepare PROVE IdInv'
  BY <1>5, <1>0 DEF Prepare
<1>6. ASSUME ReleaseStopTimer PROVE IdInv'
  BY <1>6, <1>0 DEF ReleaseStopTimer
<1>7. ASSUME NEW h \in Handles, NEW k \in Kinds, HidOperation(h, k)
      PROVE  IdInv'
  BY <1>7, <1>0 DEF HidOperation
<1>8. ASSUME NEW s \in Slots, DeadlinePasses(s) PROVE IdInv'
  <2>1. /\ requests' = [requests EXCEPT ![s].due = TRUE]
        /\ UNCHANGED <<next_id, lastPolled>>
    BY <1>8 DEF DeadlinePasses
  <2>2. \A r \in Slots : /\ requests'[r].handle = requests[r].handle
                         /\ requests'[r].id = requests[r].id
                         /\ requests'[r].delivered = requests[r].delivered
    BY <2>1 DEF TypeOK, ContextOK, Request
  <2> QED BY <2>1, <2>2, IdKept
<1>9. ASSUME IoctlAcquire PROVE IdInv'
  BY <1>9, <1>0 DEF IoctlAcquire, Lock
<1>10. ASSUME NEW f \in Files, FileCleanup(f) PROVE IdInv'
  BY <1>10, <1>0 DEF FileCleanup, Lock
<1>11. ASSUME ReleaseAcquire PROVE IdInv'
  BY <1>11, <1>0 DEF ReleaseAcquire, Lock
<1>12. ASSUME Start PROVE IdInv'
  BY <1>12, <1>0 DEF Start
<1>13. ASSUME Claim PROVE IdInv'
  BY <1>13, <1>0 DEF Claim
<1>14. ASSUME VhfCreate PROVE IdInv'
  BY <1>14, <1>0 DEF VhfCreate
<1>15. ASSUME Publish PROVE IdInv'
  BY <1>15, <1>0 DEF Publish
<1>16. ASSUME VhfStart PROVE IdInv'
  BY <1>16, <1>0 DEF VhfStart
<1>17. ASSUME Input PROVE IdInv'
  BY <1>17, <1>0 DEF Input
<1>18. ASSUME NEW t \in Pumper, PumpEnter(t) PROVE IdInv'
  BY <1>18, <1>0 DEF PumpEnter
<1>19. ASSUME NEW t \in Pumper, PumpLeave(t) PROVE IdInv'
  BY <1>19, <1>0 DEF PumpLeave
<1>20. ASSUME NEW t \in Pumper, PumpTake(t) PROVE IdInv'
  BY <1>20, <1>0 DEF PumpTake
<1>21. ASSUME NEW t \in Pumper, PumpAbandon(t) PROVE IdInv'
  BY <1>21, <1>0 DEF PumpAbandon
<1>22. ASSUME NEW t \in Pumper, SubmitAccepted(t) PROVE IdInv'
  BY <1>22, <1>0 DEF SubmitAccepted
<1>23. ASSUME NEW t \in Pumper, SubmitFailed(t) PROVE IdInv'
  BY <1>23, <1>0 DEF SubmitFailed
<1>24. ASSUME NEW t \in Pumper, SubmitReturns(t) PROVE IdInv'
  BY <1>24, <1>0 DEF SubmitReturns
<1>25. ASSUME NoMoreEntries PROVE IdInv'
  BY <1>25, <1>0 DEF NoMoreEntries
<1>26. ASSUME NEW s \in Slots, Deliver(s) PROVE IdInv'
  BY <1>26, DeliverIds
<1>27. ASSUME NEW s \in Slots, Reply(s) PROVE IdInv'
  <2>1. /\ requests' = [requests EXCEPT ![s] = Empty]
        /\ UNCHANGED <<next_id, lastPolled>>
    BY <1>27 DEF Reply
  <2>2. requests'[s].handle = NULL /\ \A r \in Slots \ {s} : requests'[r] = requests[r]
    BY <2>1 DEF TypeOK, ContextOK, Empty
  <2> QED BY <2>1, <2>2, IdKept
<1>28. ASSUME ReplyNotFound PROVE IdInv'
  BY <1>28, <1>0 DEF ReplyNotFound
<1>29. ASSUME ReplyCompleted PROVE IdInv'
  BY <1>29, <1>0 DEF ReplyCompleted
<1>30. ASSUME NEW w \in Worker, DestroyStop(w) PROVE IdInv'
  BY <1>30, <1>0 DEF DestroyStop
<1>31. ASSUME NEW w \in Worker, DestroyExpire(w) PROVE IdInv'
  <2>1. /\ requests' = [s \in Slots |-> IF s \in Used THEN Empty ELSE requests[s]]
        /\ UNCHANGED <<next_id, lastPolled>>
    BY <1>31 DEF DestroyExpire, Expire
  <2> QED BY <2>1, IdKept DEF Empty
<1>32. ASSUME NEW w \in Worker, DestroyDelete(w) PROVE IdInv'
  BY <1>32, <1>0 DEF DestroyDelete
<1>33. ASSUME NEW w \in Worker, VhfDeleted(w) PROVE IdInv'
  BY <1>33, <1>0 DEF VhfDeleted
<1>34. ASSUME NEW w \in Worker, DestroyReset(w) PROVE IdInv'
  BY <1>34, <1>0 DEF DestroyReset
<1>35. ASSUME NEW t \in Thread, Complete(t) PROVE IdInv'
  BY <1>35, <1>0 DEF Complete
<1>36. ASSUME NEW w \in Worker, Finish(w) PROVE IdInv'
  BY <1>36, <1>0 DEF Finish
<1>37. ASSUME ReleaseTimerStopped PROVE IdInv'
  BY <1>37, <1>0 DEF ReleaseTimerStopped
<1>38. ASSUME ReleaseClose PROVE IdInv'
  BY <1>38, <1>0 DEF ReleaseClose
<1>39. ASSUME NEW h \in Handles, Refuse(h) PROVE IdInv'
  BY <1>39, <1>0 DEF Refuse
<1>40. ASSUME NEW h \in Handles, NEW s \in Slots, Accept(h, s) PROVE IdInv'
  BY <1>40, AcceptIds
<1>41. ASSUME Tick PROVE IdInv'
  <2> DEFINE overdue == {s \in Used : requests[s].due}
  <2>1. /\ requests' = [s \in Slots |-> IF s \in overdue THEN Empty ELSE requests[s]]
        /\ UNCHANGED <<next_id, lastPolled>>
    BY <1>41 DEF Tick, Expire
  <2> HIDE DEF overdue
  <2> QED BY <2>1, IdKept DEF Empty
<1>42. ASSUME VhfReady PROVE IdInv'
  BY <1>42, <1>0 DEF VhfReady
<1>43. ASSUME Ready PROVE IdInv'
  BY <1>43, <1>0 DEF Ready
<1>44. ASSUME VhfStartReturns PROVE IdInv'
  BY <1>44, <1>0 DEF VhfStartReturns
<1> QED
  BY <1>1, <1>2, <1>3, <1>4, <1>5, <1>6, <1>7, <1>8, <1>9, <1>10, <1>11,
     <1>12, <1>13, <1>14, <1>15, <1>16, <1>17, <1>18, <1>19, <1>20, <1>21,
     <1>22, <1>23, <1>24, <1>25, <1>26, <1>27, <1>28, <1>29, <1>30, <1>31,
     <1>32, <1>33, <1>34, <1>35, <1>36, <1>37, <1>38, <1>39, <1>40, <1>41,
     <1>42, <1>43, <1>44 DEF Step

(* The ids stay in order in every behaviour.                               *)
LEMMA IdsAlways == Spec => [](TypeOK /\ IdInv)
<1>1. Init => IdInv
  BY HidAssumption DEF Init, IdInv, Used, Empty
<1>2. TypeOK /\ IdInv /\ [Next]_vars => IdInv'
  BY StepCases, IdSteps
<1> QED
  BY <1>1, <1>2, TypeCorrect, PTL DEF Spec

(* Operations are given to brokers in the order of their acceptance and    *)
(* none twice, over all sessions: what waits in the table is younger than  *)
(* what was given out last, and destroy does not restart the ids.          *)
THEOREM PolledInOrder == Spec => DeliveredOnceInOrder
<1>1. TypeOK /\ IdInv
        => [\A s \in Slots : Deliver(s) => requests[s].id > lastPolled]_vars
  BY DeliverIds
<1> QED
  BY <1>1, IdsAlways, PTL DEF DeliveredOnceInOrder
-----------------------------------------------------------------------------
(* The outcomes.  An entry knows what its operation is, only permitted     *)
(* operations wait, and a report buffer is filled only for an operation    *)
(* that is about to be completed.                                          *)
Permitted == {"get", "send", "unsafe"}

EntriesMatch ==
  \A s \in Used : requests[s].op = Marshalled(op[requests[s].handle])
WaitingPermitted ==
  \A h \in Handles : pc[h] = "enqueue" \/ Registered(h) => op[h] \in Permitted
FilledSettled == \A h \in filled : Completing(h)

OutcomeInv == EntriesMatch /\ WaitingPermitted /\ FilledSettled /\ HonestOutcome

(* A step that clears entries at most, and lets no operation wait anew.    *)
EntriesKept ==
  /\ \A s \in Slots : \/ requests'[s].handle = NULL
                      \/ /\ requests'[s].handle = requests[s].handle
                         /\ requests'[s].op = requests[s].op
  /\ \A h \in Handles : pc'[h] = "enqueue" => pc[h] = "enqueue"
  /\ op' = op

LEMMA WaitingKept ==
  ASSUME EntriesMatch, WaitingPermitted, EntriesKept
  PROVE  (EntriesMatch /\ WaitingPermitted)'
<1>1. \A s \in Used' : /\ s \in Used
                       /\ requests'[s].handle = requests[s].handle
                       /\ requests'[s].op = requests[s].op
  BY DEF Used, EntriesKept
<1>2. \A h \in Handles : Registered(h)' => Registered(h)
  BY HidAssumption DEF EntriesKept, Registered
<1> QED
  BY <1>1, <1>2 DEF EntriesKept, EntriesMatch, WaitingPermitted

LEMMA OutcomeKept ==
  ASSUME OutcomeInv, EntriesKept, completing' = completing, filled' = filled
  PROVE  OutcomeInv'
<1>1. (EntriesMatch /\ WaitingPermitted)'
  BY WaitingKept DEF OutcomeInv
<1>2. (FilledSettled /\ HonestOutcome)'
  BY DEF OutcomeInv, EntriesKept, FilledSettled, HonestOutcome, Completing
<1> QED
  BY <1>1, <1>2 DEF OutcomeInv

(* A thread takes operations in order to complete them without success.    *)
LEMMA OutcomeTaken ==
  ASSUME HoldersInv, OutcomeInv, NEW t \in Thread, completing[t] = {}, NEW X,
         completing' = [completing EXCEPT ![t] = X], filled' = filled,
         \A c \in X : c[1] \in Handles /\ ~Completing(c[1]) /\ c[2] # "SUCCESS",
         EntriesKept
  PROVE  OutcomeInv'
<1>1. (EntriesMatch /\ WaitingPermitted)'
  BY WaitingKept DEF OutcomeInv
<1>2. completing'[t] = X /\ \A u \in Thread \ {t} : completing'[u] = completing[u]
  BY DEF HoldersInv, TypeOK, ThreadsOK
<1>3. FilledSettled'
  BY <1>2 DEF OutcomeInv, FilledSettled, Completing
<1>4. \A c \in X : c[1] \notin filled
  BY DEF OutcomeInv, FilledSettled
<1>5. HonestOutcome'
  BY <1>2, <1>4 DEF OutcomeInv, HonestOutcome, EntriesKept
<1> QED
  BY <1>1, <1>3, <1>5 DEF OutcomeInv

(* A new operation waits if it may, or is turned down at once.             *)
LEMMA HidOperationOutcome ==
  ASSUME HoldersInv, OutcomeInv, NEW h \in Handles, NEW k \in Kinds, HidOperation(h, k)
  PROVE  OutcomeInv'
<1>1. /\ op[h] = "none" /\ op' = [op EXCEPT ![h] = k] /\ requests' = requests
      /\ filled' = filled
  BY DEF HidOperation, ctx
<1>2. ~Registered(h) /\ ~Completing(h)
  BY <1>1 DEF HoldersInv, ExactlyOneHolder, OneHolder
<1>3. op'[h] = k /\ \A g \in Handles \ {h} : op'[g] = op[g]
  BY <1>1 DEF HoldersInv, TypeOK, EnvironmentOK
<1>4. \A s \in Used : requests[s].handle \in Handles \ {h}
  BY <1>2 DEF HoldersInv, TypeOK, ContextOK, Request, Used, Registered
<1>5. EntriesMatch'
  BY <1>1, <1>3, <1>4 DEF OutcomeInv, EntriesMatch, Used
<1>6. \A g \in Handles : Registered(g)' = Registered(g)
  BY <1>1 DEF Registered
<1>7. \A t \in Thread : \A c \in completing[t] : c[1] \in Handles \ {h}
  BY <1>2 DEF HoldersInv, TypeOK, ThreadsOK, Completing
<1>8. CASE Validate(k) = "valid"
  <2>1. completing' = completing /\ Goto(h, "enqueue")
    BY <1>8 DEF HidOperation
  <2>2. k \in Permitted
    <3>1. Validate("malformed") # "valid" /\ Validate("unsupported") # "valid"
      BY DEF Validate
    <3>2. k \in {"malformed", "unsupported", "get", "send", "unsafe"}
      BY HidAssumption
    <3> QED BY <1>8, <3>1, <3>2 DEF Permitted
  <2>3. \A g \in Handles \ {h} : pc'[g] = pc[g]
    BY <2>1 DEF Goto, HoldersInv, TypeOK, Thread
  <2>4. WaitingPermitted'
    BY <1>3, <1>6, <2>2, <2>3 DEF OutcomeInv, WaitingPermitted
  <2>5. (FilledSettled /\ HonestOutcome)'
    BY <1>1, <1>3, <1>7, <2>1 DEF OutcomeInv, FilledSettled, HonestOutcome, Completing
  <2> QED BY <1>5, <2>4, <2>5 DEF OutcomeInv
<1>9. CASE Validate(k) # "valid"
  <2>1. completing' = [completing EXCEPT ![h] = {<<h, Validate(k)>>}] /\ pc' = pc
    BY <1>9 DEF HidOperation
  <2>2. completing[h] = {} /\ h \in Thread
    BY <1>2 DEF HoldersInv, Hands, Completing, Thread
  <2>3. /\ completing'[h] = {<<h, Validate(k)>>}
        /\ \A u \in Thread \ {h} : completing'[u] = completing[u]
    BY <2>1, <2>2 DEF HoldersInv, TypeOK, ThreadsOK
  <2>4. Validate(k) # "SUCCESS"
    BY <1>9 DEF Validate
  <2>5. h \notin filled
    BY <1>2 DEF OutcomeInv, FilledSettled
  <2>6. WaitingPermitted'
    <3>1. pc[h] = "idle" /\ ~Registered(h)
      BY <1>1 DEF HoldersInv, ExactlyOneHolder, OneHolder
    <3> QED BY <1>3, <1>6, <2>1, <3>1 DEF OutcomeInv, WaitingPermitted
  <2>7. FilledSettled'
    BY <1>1, <2>2, <2>3 DEF OutcomeInv, FilledSettled, Completing
  <2>8. ASSUME NEW t \in Thread, NEW c \in completing'[t]
        PROVE  /\ c[2] = "SUCCESS" => op'[c[1]] \in {"get", "send"}
               /\ op'[c[1]] = "get" => (c[2] = "SUCCESS" <=> c[1] \in filled')
    <3>1. CASE t = h
      <4>1. c = <<h, Validate(k)>>
        BY <2>3, <3>1
      <4> QED BY <1>1, <2>4, <2>5, <4>1
    <3>2. CASE t # h
      <4>1. c \in completing[t]
        BY <2>3, <3>2
      <4>2. op'[c[1]] = op[c[1]]
        BY <1>3, <1>7, <4>1
      <4> QED BY <1>1, <4>1, <4>2 DEF OutcomeInv, HonestOutcome
    <3> QED BY <3>1, <3>2
  <2> QED BY <1>5, <2>6, <2>7, <2>8 DEF OutcomeInv, HonestOutcome
<1> QED
  BY <1>8, <1>9

(* An accepted operation is entered as what it is.                         *)
LEMMA AcceptOutcome ==
  ASSUME HoldersInv, OutcomeInv, NEW h \in Handles, NEW s \in Slots, Accept(h, s)
  PROVE  OutcomeInv'
<1>1. /\ pc[h] = "enqueue" /\ Goto(h, "idle") /\ op' = op /\ completing' = completing
      /\ filled' = filled
  BY DEF Accept, hid
<1>2. /\ requests'[s].handle = h /\ requests'[s].op = Marshalled(op[h])
      /\ \A r \in Slots \ {s} : requests'[r] = requests[r]
  BY DEF Accept, HoldersInv, TypeOK, ContextOK
<1>3. pc'[h] = "idle" /\ \A g \in Handles \ {h} : pc'[g] = pc[g]
  BY <1>1 DEF Goto, HoldersInv, TypeOK, Thread
<1>4. EntriesMatch'
  BY <1>1, <1>2 DEF OutcomeInv, EntriesMatch, Used
<1>5. \A g \in Handles : Registered(g)' => g = h \/ Registered(g)
  BY <1>2 DEF Registered
<1>6. WaitingPermitted'
  BY <1>1, <1>3, <1>5 DEF OutcomeInv, WaitingPermitted
<1>7. (FilledSettled /\ HonestOutcome)'
  BY <1>1 DEF OutcomeInv, FilledSettled, HonestOutcome, Completing
<1> QED
  BY <1>4, <1>6, <1>7 DEF OutcomeInv

(* A reply fills the buffer of a read exactly if it completes it with      *)
(* success, and completes no operation with success that was not permitted. *)
LEMMA ReplyOutcome ==
  ASSUME HoldersInv, OutcomeInv, NEW s \in Slots, Reply(s)
  PROVE  OutcomeInv'
<1> DEFINE r == requests[s]
           status == Completion(r)
<1>1. /\ pc["ioctl"] = "reply" /\ Goto("ioctl", "answer") /\ op' = op
      /\ s \in Used
      /\ requests' = [requests EXCEPT ![s] = Empty]
      /\ completing' = [completing EXCEPT !["ioctl"] = {<<r.handle, status>>}]
      /\ filled' = IF Fills(r) THEN filled \cup {r.handle} ELSE filled
  BY DEF Reply, Answers
<1>2. PICK h \in Handles : h = r.handle /\ Registered(h)
  BY <1>1 DEF HoldersInv, TypeOK, ContextOK, Request, Used, Registered
<1>3. op[h] \in Permitted /\ r.op = Marshalled(op[h]) /\ ~Completing(h)
  BY <1>1, <1>2 DEF OutcomeInv, EntriesMatch, WaitingPermitted, HoldersInv,
                    ExactlyOneHolder, OneHolder
<1>4. completing["ioctl"] = {} /\ "ioctl" \in Thread
  BY <1>1 DEF HoldersInv, Hands, Worker, Thread
<1>5. /\ completing'["ioctl"] = {<<h, status>>}
      /\ \A u \in Thread \ {"ioctl"} : completing'[u] = completing[u]
  BY <1>1, <1>2, <1>4 DEF HoldersInv, TypeOK, ThreadsOK
<1>6. h \notin filled
  BY <1>3 DEF OutcomeInv, FilledSettled
<1>7. call.verdict \in {"ok", "mismatch", "error"}
  BY HidAssumption DEF HoldersInv, TypeOK, ThreadsOK, Call
<1>8. /\ status = "SUCCESS" => op[h] \in {"get", "send"}
      /\ op[h] = "get" => (status = "SUCCESS" <=> Fills(r))
      /\ Fills(r) => op[h] = "get"
  <2>1. CASE op[h] = "unsafe"
    BY <1>3, <2>1 DEF Marshalled, Completion, Fills
  <2>2. CASE op[h] = "send"
    BY <1>3, <2>2 DEF Marshalled, Completion, Fills
  <2>3. CASE op[h] = "get"
    BY <1>3, <1>7, <2>3 DEF Marshalled, Completion, Fills
  <2> QED BY <1>3, <2>1, <2>2, <2>3 DEF Permitted
<1> HIDE DEF status
<1>9. (EntriesMatch /\ WaitingPermitted)'
  <2>1. requests'[s].handle = NULL /\ \A q \in Slots \ {s} : requests'[q] = requests[q]
    BY <1>1 DEF HoldersInv, TypeOK, ContextOK, Empty
  <2>2. \A g \in Handles : pc'[g] = pc[g]
    BY <1>1, HidAssumption DEF Goto, HoldersInv, TypeOK, Thread
  <2>3. EntriesKept
    BY <1>1, <2>1, <2>2 DEF EntriesKept
  <2> QED BY <2>3, WaitingKept DEF OutcomeInv
<1>10. filled' \subseteq filled \cup {h} /\ (h \in filled' <=> Fills(r))
  BY <1>1, <1>2, <1>6
<1>11. FilledSettled'
  <2>1. \A g \in filled : Completing(g)'
    BY <1>4, <1>5 DEF OutcomeInv, FilledSettled, Completing
  <2>2. Completing(h)'
    <3>1. <<h, status>> \in completing'["ioctl"] /\ <<h, status>>[1] = h
      BY <1>5
    <3> QED BY <1>4, <3>1 DEF Completing
  <2> QED BY <1>10, <2>1, <2>2 DEF FilledSettled
<1>12. ASSUME NEW t \in Thread, NEW c \in completing'[t]
       PROVE  /\ c[2] = "SUCCESS" => op'[c[1]] \in {"get", "send"}
              /\ op'[c[1]] = "get" => (c[2] = "SUCCESS" <=> c[1] \in filled')
  <2>1. CASE t = "ioctl"
    <3>1. c[1] = h /\ c[2] = status
      BY <1>5, <2>1
    <3> QED BY <1>1, <1>8, <1>10, <3>1
  <2>2. CASE t # "ioctl"
    <3>1. c \in completing[t]
      BY <1>5, <2>2
    <3>2. c[1] # h
      BY <1>3, <3>1 DEF Completing
    <3>3. c[1] \in filled' <=> c[1] \in filled
      BY <1>1, <1>2, <3>2
    <3> QED BY <1>1, <3>1, <3>3 DEF OutcomeInv, HonestOutcome
  <2> QED BY <2>1, <2>2
<1> QED
  BY <1>9, <1>11, <1>12 DEF OutcomeInv, HonestOutcome

(* A completed operation takes its buffer with it.                         *)
LEMMA CompleteOutcome ==
  ASSUME HoldersInv, OutcomeInv, NEW t \in Thread, Complete(t)
  PROVE  OutcomeInv'
<1>1. PICK c \in completing[t] :
        /\ completing' = [completing EXCEPT ![t] = @ \ {c}]
        /\ op' = [op EXCEPT ![c[1]] = "none"]
        /\ filled' = filled \ {c[1]}
        /\ UNCHANGED <<requests, pc>>
  BY DEF Complete, ctx
<1>2. c[1] \in Handles /\ Completing(c[1])
  BY DEF HoldersInv, TypeOK, ThreadsOK, Completing
<1>3. /\ completing'[t] = completing[t] \ {c}
      /\ \A u \in Thread \ {t} : completing'[u] = completing[u]
  BY <1>1 DEF HoldersInv, TypeOK, ThreadsOK
<1>4. \A g \in Handles \ {c[1]} : op'[g] = op[g]
  BY <1>1 DEF HoldersInv, TypeOK, EnvironmentOK
<1>5. ~Registered(c[1]) /\ pc[c[1]] = "idle"
  BY <1>2 DEF HoldersInv, ExactlyOneHolder, OneHolder
<1>6. \A u \in Thread : \A d \in completing'[u] :
        d \in completing[u] /\ d[1] \in Handles \ {c[1]}
  BY <1>3 DEF HoldersInv, TypeOK, ThreadsOK, ExactlyOneHolder, OneHandEach
<1>7. EntriesMatch'
  <2>1. \A s \in Used : requests[s].handle \in Handles \ {c[1]}
    BY <1>5 DEF HoldersInv, TypeOK, ContextOK, Request, Used, Registered
  <2> QED BY <1>1, <1>4, <2>1 DEF OutcomeInv, EntriesMatch, Used
<1>8. WaitingPermitted'
  BY <1>1, <1>4, <1>5 DEF OutcomeInv, WaitingPermitted, Registered
<1>9. FilledSettled'
  BY <1>1, <1>3 DEF OutcomeInv, FilledSettled, Completing
<1>10. HonestOutcome'
  BY <1>1, <1>4, <1>6 DEF OutcomeInv, HonestOutcome
<1> QED
  BY <1>7, <1>8, <1>9, <1>10 DEF OutcomeInv

(* Entries that expire go to a thread that completes them without success. *)
LEMMA ExpireOutcome ==
  ASSUME HoldersInv, OutcomeInv, NEW t \in Thread, completing[t] = {},
         NEW S \in SUBSET Used, NEW status, status # "SUCCESS",
         Expire(t, S, status), op' = op, filled' = filled,
         \A h \in Handles : pc'[h] = pc[h]
  PROVE  OutcomeInv'
<1> DEFINE X == {<<requests[s].handle, status>> : s \in S}
<1>1. completing' = [completing EXCEPT ![t] = X]
  BY DEF Expire
<1>2. \A s \in Used : requests[s].handle \in Handles /\ Registered(requests[s].handle)
  BY DEF HoldersInv, TypeOK, ContextOK, Request, Used, Registered
<1>3. \A c \in X : c[1] \in Handles /\ ~Completing(c[1]) /\ c[2] # "SUCCESS"
  BY <1>2 DEF HoldersInv, ExactlyOneHolder, OneHolder
<1>4. EntriesKept
  BY DEF Expire, EntriesKept, Empty
<1> HIDE DEF X
<1> QED
  BY <1>1, <1>3, <1>4, OutcomeTaken

(* Every step keeps the outcomes honest.                                   *)
LEMMA OutcomeSteps ==
  ASSUME HoldersInv, OutcomeInv, Step
  PROVE  OutcomeInv'
<1>0. TypeOK
  BY DEF HoldersInv
<1> USE <1>0, HidAssumption DEF Thread, Worker, Pumper, ctx, table, hid, EntriesKept
<1>a. ASSUME NEW t \in Thread \ Handles, NEW l, Goto(t, l), requests' = requests,
             completing' = completing, op' = op, filled' = filled
      PROVE  OutcomeInv'
  <2>1. \A h \in Handles : pc'[h] = pc[h]
    BY <1>a DEF Goto, TypeOK
  <2> QED BY <1>a, <2>1, OutcomeKept
<1>1. CASE UNCHANGED vars
  BY <1>1, OutcomeKept DEF vars
<1>2. ASSUME NEW f \in Files, FileCreate(f) PROVE OutcomeInv'
  BY <1>2, <1>a DEF FileCreate
<1>3. ASSUME NEW f \in Files, FileClose(f) PROVE OutcomeInv'
  BY <1>3, <1>a DEF FileClose
<1>4. ASSUME NEW f \in Files, NEW code \in Codes, NEW id \in Nat,
              NEW verdict \in Verdicts, Dispatch(f, code, id, verdict)
      PROVE  OutcomeInv'
  BY <1>4, <1>a DEF Dispatch
<1>5. ASSUME Prepare PROVE OutcomeInv'
  BY <1>5, OutcomeKept DEF Prepare
<1>6. ASSUME ReleaseStopTimer PROVE OutcomeInv'
  BY <1>6, <1>a DEF ReleaseStopTimer
<1>7. ASSUME NEW h \in Handles, NEW k \in Kinds, HidOperation(h, k)
      PROVE  OutcomeInv'
  BY <1>7, HidOperationOutcome
<1>8. ASSUME NEW s \in Slots, DeadlinePasses(s) PROVE OutcomeInv'
  <2>1. requests' = [requests EXCEPT ![s].due = TRUE]
    BY <1>8 DEF DeadlinePasses
  <2>2. \A r \in Slots : /\ requests'[r].handle = requests[r].handle
                         /\ requests'[r].op = requests[r].op
    BY <2>1 DEF TypeOK, ContextOK, Request
  <2> QED BY <1>8, <2>2, OutcomeKept DEF DeadlinePasses
<1>9. ASSUME IoctlAcquire PROVE OutcomeInv'
  BY <1>9, <1>a DEF IoctlAcquire, Lock
<1>10. ASSUME NEW f \in Files, FileCleanup(f) PROVE OutcomeInv'
  BY <1>10, <1>a DEF FileCleanup, Lock
<1>11. ASSUME ReleaseAcquire PROVE OutcomeInv'
  BY <1>11, <1>a DEF ReleaseAcquire, Lock
<1>12. ASSUME Start PROVE OutcomeInv'
  BY <1>12, <1>a DEF Start
<1>13. ASSUME Claim PROVE OutcomeInv'
  BY <1>13, <1>a DEF Claim
<1>14. ASSUME VhfCreate PROVE OutcomeInv'
  BY <1>14, <1>a DEF VhfCreate
<1>15. ASSUME Publish PROVE OutcomeInv'
  BY <1>15, <1>a DEF Publish
<1>16. ASSUME VhfStart PROVE OutcomeInv'
  BY <1>16, <1>a DEF VhfStart
<1>17. ASSUME Input PROVE OutcomeInv'
  BY <1>17, <1>a DEF Input
<1>18. ASSUME NEW t \in Pumper, PumpEnter(t) PROVE OutcomeInv'
  BY <1>18, <1>a DEF PumpEnter
<1>19. ASSUME NEW t \in Pumper, PumpLeave(t) PROVE OutcomeInv'
  BY <1>19, <1>a DEF PumpLeave
<1>20. ASSUME NEW t \in Pumper, PumpTake(t) PROVE OutcomeInv'
  BY <1>20, <1>a DEF PumpTake
<1>21. ASSUME NEW t \in Pumper, PumpAbandon(t) PROVE OutcomeInv'
  BY <1>21, <1>a DEF PumpAbandon
<1>22. ASSUME NEW t \in Pumper, SubmitAccepted(t) PROVE OutcomeInv'
  BY <1>22, <1>a DEF SubmitAccepted
<1>23. ASSUME NEW t \in Pumper, SubmitFailed(t) PROVE OutcomeInv'
  BY <1>23, <1>a DEF SubmitFailed
<1>24. ASSUME NEW t \in Pumper, SubmitReturns(t) PROVE OutcomeInv'
  BY <1>24, <1>a DEF SubmitReturns
<1>25. ASSUME NoMoreEntries PROVE OutcomeInv'
  BY <1>25, <1>a DEF NoMoreEntries
<1>26. ASSUME NEW s \in Slots, Deliver(s) PROVE OutcomeInv'
  <2>1. requests' = [requests EXCEPT ![s].delivered = TRUE] /\ Goto("ioctl", "finish")
    BY <1>26 DEF Deliver
  <2>2. \A r \in Slots : /\ requests'[r].handle = requests[r].handle
                         /\ requests'[r].op = requests[r].op
    BY <2>1 DEF TypeOK, ContextOK, Request
  <2>3. \A h \in Handles : pc'[h] = pc[h]
    BY <2>1 DEF Goto, TypeOK
  <2> QED BY <1>26, <2>2, <2>3, OutcomeKept DEF Deliver
<1>27. ASSUME NEW s \in Slots, Reply(s) PROVE OutcomeInv'
  BY <1>27, ReplyOutcome
<1>28. ASSUME ReplyNotFound PROVE OutcomeInv'
  BY <1>28, <1>a DEF ReplyNotFound
<1>29. ASSUME ReplyCompleted PROVE OutcomeInv'
  BY <1>29, <1>a DEF ReplyCompleted
<1>30. ASSUME NEW w \in Worker, DestroyStop(w) PROVE OutcomeInv'
  BY <1>30, <1>a DEF DestroyStop
<1>31. ASSUME NEW w \in Worker, DestroyExpire(w) PROVE OutcomeInv'
  <2>1. /\ pc[w] = "expire" /\ Goto(w, "cancel") /\ Expire(w, Used, "CANCELLED")
        /\ op' = op /\ filled' = filled
    BY <1>31 DEF DestroyExpire
  <2>2. completing[w] = {} /\ \A h \in Handles : pc'[h] = pc[h]
    BY <2>1 DEF HoldersInv, Hands, Goto, TypeOK
  <2> QED BY <2>1, <2>2, ExpireOutcome
<1>32. ASSUME NEW w \in Worker, DestroyDelete(w) PROVE OutcomeInv'
  BY <1>32, <1>a DEF DestroyDelete
<1>33. ASSUME NEW w \in Worker, VhfDeleted(w) PROVE OutcomeInv'
  BY <1>33, <1>a DEF VhfDeleted
<1>34. ASSUME NEW w \in Worker, DestroyReset(w) PROVE OutcomeInv'
  BY <1>34, <1>a DEF DestroyReset
<1>35. ASSUME NEW t \in Thread, Complete(t) PROVE OutcomeInv'
  BY <1>35, CompleteOutcome
<1>36. ASSUME NEW w \in Worker, Finish(w) PROVE OutcomeInv'
  BY <1>36, <1>a DEF Finish
<1>37. ASSUME ReleaseTimerStopped PROVE OutcomeInv'
  BY <1>37, <1>a DEF ReleaseTimerStopped
<1>38. ASSUME ReleaseClose PROVE OutcomeInv'
  BY <1>38, <1>a DEF ReleaseClose
<1>39. ASSUME NEW h \in Handles, Refuse(h) PROVE OutcomeInv'
  <2> DEFINE status == IF stopping \/ owner = NULL THEN "DEVICE_NOT_READY"
                                                  ELSE "DEVICE_BUSY"
         X == {<<h, status>>}
  <2>1. /\ pc[h] = "enqueue" /\ Goto(h, "idle")
        /\ completing' = [completing EXCEPT ![h] = X]
        /\ op' = op /\ filled' = filled /\ requests' = requests
    BY <1>39 DEF Refuse
  <2>2. status # "SUCCESS"
    OBVIOUS
  <2> HIDE DEF status
  <2>3. ~Completing(h)
    BY <2>1 DEF HoldersInv, ExactlyOneHolder, OneHolder
  <2>4. completing[h] = {} /\ h \in Thread
    BY <2>3 DEF HoldersInv, Hands, Completing
  <2>5. \A c \in X : c[1] \in Handles /\ ~Completing(c[1]) /\ c[2] # "SUCCESS"
    BY <2>2, <2>3
  <2>6. \A g \in Handles : pc'[g] = "enqueue" => pc[g] = "enqueue"
    BY <2>1 DEF Goto, TypeOK
  <2> HIDE DEF X
  <2>7. EntriesKept
    BY <2>1, <2>6
  <2> QED BY <2>1, <2>4, <2>5, <2>7, OutcomeTaken
<1>40. ASSUME NEW h \in Handles, NEW s \in Slots, Accept(h, s)
      PROVE  OutcomeInv'
  BY <1>40, AcceptOutcome
<1>41. ASSUME Tick PROVE OutcomeInv'
  <2> DEFINE overdue == {s \in Used : requests[s].due}
  <2>1. /\ completing["tick"] = {} /\ Expire("tick", overdue, "IO_TIMEOUT")
        /\ op' = op /\ filled' = filled /\ pc' = pc
    BY <1>41 DEF Tick, locks
  <2>2. overdue \in SUBSET Used
    OBVIOUS
  <2> HIDE DEF overdue
  <2> QED BY <2>1, <2>2, ExpireOutcome
<1>42. ASSUME VhfReady PROVE OutcomeInv'
  BY <1>42, <1>a DEF VhfReady
<1>43. ASSUME Ready PROVE OutcomeInv'
  BY <1>43, <1>a DEF Ready
<1>44. ASSUME VhfStartReturns PROVE OutcomeInv'
  BY <1>44, <1>a DEF VhfStartReturns
<1> QED
  BY <1>1, <1>2, <1>3, <1>4, <1>5, <1>6, <1>7, <1>8, <1>9, <1>10, <1>11,
     <1>12, <1>13, <1>14, <1>15, <1>16, <1>17, <1>18, <1>19, <1>20, <1>21,
     <1>22, <1>23, <1>24, <1>25, <1>26, <1>27, <1>28, <1>29, <1>30, <1>31,
     <1>32, <1>33, <1>34, <1>35, <1>36, <1>37, <1>38, <1>39, <1>40, <1>41,
     <1>42, <1>43, <1>44 DEF Step

(* The outcomes are honest in every behaviour.                             *)
LEMMA OutcomesAlways == Spec => [](HoldersInv /\ OutcomeInv)
<1>1. Init => OutcomeInv
  BY HidAssumption
  DEF Init, OutcomeInv, EntriesMatch, WaitingPermitted, FilledSettled,
      HonestOutcome, Registered, Completing, Used, Empty, Thread
<1>2. HoldersInv /\ OutcomeInv /\ [Next]_vars => OutcomeInv'
  BY StepCases, OutcomeSteps
<1> QED
  BY <1>1, <1>2, HoldersAlways, PTL DEF Spec

(* Whatever a broker replies and whoever completes an operation, SUCCESS   *)
(* is told only of a permitted one, and of a read exactly if its buffer    *)
(* was filled.  It rests on the one holder of every operation: no second   *)
(* thread can tell another outcome.                                        *)
THEOREM OutcomesHonest == Spec => []HonestOutcome
  BY OutcomesAlways, PTL DEF OutcomeInv
-----------------------------------------------------------------------------
(* The refinement.  What the mapping makes of an operation depends on its  *)
(* one holder alone.                                                       *)
Polled(h) == \E s \in Slots : requests[s].handle = h /\ requests[s].delivered

StageFacts ==
  \A h \in Handles :
    /\ op[h] = "none" => StageOf(h) = "idle"
    /\ pc[h] = "enqueue" => StageOf(h) = "offered"
    /\ Registered(h) => StageOf(h) = IF Polled(h) THEN "polled" ELSE "queued"
    /\ Completing(h) => StageOf(h) = "settled"
    /\ ~Completing(h) => OutcomeOf(h) = "none"
    /\ \A t \in Thread : \A c \in completing[t] : c[1] = h => OutcomeOf(h) = c[2]

LEMMA Staged == HoldersInv => StageFacts
<1> SUFFICES ASSUME HoldersInv, NEW h \in Handles
             PROVE  /\ op[h] = "none" => StageOf(h) = "idle"
                    /\ pc[h] = "enqueue" => StageOf(h) = "offered"
                    /\ Registered(h) => StageOf(h) = IF Polled(h) THEN "polled"
                                                                  ELSE "queued"
                    /\ Completing(h) => StageOf(h) = "settled"
                    /\ ~Completing(h) => OutcomeOf(h) = "none"
                    /\ \A t \in Thread : \A c \in completing[t] :
                         c[1] = h => OutcomeOf(h) = c[2]
  BY DEF StageFacts
<1>1. OneHolder(h)
  BY DEF HoldersInv, ExactlyOneHolder
<1>s. StageOf(h) = CASE op[h] = "none"    -> "idle"
                     [] pc[h] = "enqueue" -> "offered"
                     [] Completing(h)     -> "settled"
                     [] Polled(h)         -> "polled"
                     [] OTHER             -> "queued"
  BY DEF StageOf, Polled
<1>p. Polled(h) => Registered(h)
  BY DEF Polled, Registered
<1>2. op[h] = "none" => StageOf(h) = "idle"
  BY <1>1, <1>s, <1>p DEF OneHolder
<1>3. pc[h] = "enqueue" => StageOf(h) = "offered"
  BY <1>1, <1>s, <1>p DEF OneHolder
<1>4. Completing(h) => StageOf(h) = "settled"
  BY <1>1, <1>s, <1>p DEF OneHolder
<1>5. Registered(h) => StageOf(h) = IF Polled(h) THEN "polled" ELSE "queued"
  BY <1>1, <1>s DEF OneHolder
<1>6. ~Completing(h) => OutcomeOf(h) = "none"
  BY DEF OutcomeOf
<1>7. ASSUME NEW t \in Thread, NEW c \in completing[t], c[1] = h
      PROVE  OutcomeOf(h) = c[2]
  <2> DEFINE u == CHOOSE v \in Thread : \E d \in completing[v] : d[1] = h
             e == CHOOSE d \in completing[u] : d[1] = h
  <2>1. OutcomeOf(h) = e[2]
    BY <1>7 DEF OutcomeOf, Completing
  <2>2. u \in Thread /\ \E d \in completing[u] : d[1] = h
    BY <1>7
  <2>3. e \in completing[u] /\ e[1] = h
    BY <2>2
  <2>4. e = c
    BY <1>7, <2>2, <2>3 DEF HoldersInv, ExactlyOneHolder, OneHandEach
  <2> QED BY <2>1, <2>4
<1> QED
  BY <1>2, <1>3, <1>4, <1>5, <1>6, <1>7

(* What is known before and after a step.                                  *)
Known == /\ HoldersInv /\ OutcomeInv /\ StageFacts
         /\ HoldersInv' /\ StageFacts'

(* A step that leaves an operation where it is.                            *)
Left(h) ==
  /\ op'[h] = op[h] /\ pc'[h] = pc[h]
  /\ Registered(h)' = Registered(h) /\ Polled(h)' = Polled(h)
  /\ \A t \in Thread : \A c \in completing[t] : c[1] = h => c \in completing'[t]
  /\ \A t \in Thread : \A c \in completing'[t] : c[1] = h => c \in completing[t]

StageSame(h) == StageOf(h)' = StageOf(h) /\ OutcomeOf(h)' = OutcomeOf(h)

LEMMA LeftSame ==
  ASSUME Known, NEW h \in Handles, Left(h)
  PROVE  StageSame(h)
<1>1. OneHolder(h) /\ OneHolder(h)'
  BY DEF Known, HoldersInv, ExactlyOneHolder
<1>2. CASE op[h] = "none"
  BY <1>1, <1>2 DEF Known, StageFacts, Left, StageSame, OneHolder
<1>3. CASE pc[h] = "enqueue"
  BY <1>1, <1>3 DEF Known, StageFacts, Left, StageSame, OneHolder
<1>4. CASE Registered(h)
  BY <1>1, <1>4 DEF Known, StageFacts, Left, StageSame, OneHolder
<1>5. CASE Completing(h)
  <2>1. PICK t \in Thread : \E c \in completing[t] : c[1] = h
    BY <1>5 DEF Completing
  <2>2. PICK c \in completing[t] : c[1] = h
    BY <2>1
  <2>3. c \in completing'[t]
    BY <2>2 DEF Left
  <2>4. OutcomeOf(h)' = c[2] /\ OutcomeOf(h) = c[2]
    BY <2>2, <2>3 DEF Known, StageFacts
  <2>5. Completing(h)'
    BY <2>2, <2>3 DEF Completing
  <2> QED BY <1>5, <2>4, <2>5 DEF Known, StageFacts, StageSame
<1> QED
  BY <1>1, <1>2, <1>3, <1>4, <1>5 DEF OneHolder

(* A step that leaves every operation where it is stutters.                *)
Stutters == UNCHANGED Operations!opVars

LEMMA AllLeft ==
  ASSUME Known, op' = op, \A h \in Handles : Left(h)
  PROVE  Stutters
<1>1. \A h \in Handles : StageOf(h)' = StageOf(h) /\ OutcomeOf(h)' = OutcomeOf(h)
  BY LeftSame DEF StageSame
<1> QED
  BY <1>1 DEF Stutters, Operations!opVars

(* The same for a step of a thread that carries no operation in its pc.    *)
LEMMA EntriesLeft ==
  ASSUME Known, op' = op, completing' = completing,
         \A h \in Handles : pc'[h] = pc[h],
         \A s \in Slots : /\ requests'[s].handle = requests[s].handle
                          /\ requests'[s].delivered = requests[s].delivered
  PROVE  Stutters
<1>1. \A h \in Handles : Left(h)
  BY DEF Left, Registered, Polled
<1> QED
  BY <1>1, AllLeft

(* The step of the promise that moves one operation.                       *)
LEMMA OneMoves ==
  ASSUME NEW g \in Handles, NEW stage, NEW outcome,
         StageOf(g)' = stage, OutcomeOf(g)' = outcome,
         \A h \in Handles \ {g} : StageSame(h)
  PROVE  /\ [h \in Handles |-> StageOf(h)]'
              = [[h \in Handles |-> StageOf(h)] EXCEPT ![g] = stage]
         /\ [h \in Handles |-> OutcomeOf(h)]'
              = [[h \in Handles |-> OutcomeOf(h)] EXCEPT ![g] = outcome]
  BY DEF StageSame

(* Operations that a thread has not been handed stay where they are.       *)
LEMMA OthersHanded ==
  ASSUME Known, NEW t \in Thread, completing[t] = {}, NEW X,
         completing' = [completing EXCEPT ![t] = X],
         NEW g \in Handles, \A c \in X : c[1] # g,
         op'[g] = op[g], pc'[g] = pc[g],
         Registered(g)' = Registered(g), Polled(g)' = Polled(g)
  PROVE  StageSame(g)
<1>1. completing'[t] = X /\ \A u \in Thread \ {t} : completing'[u] = completing[u]
  BY DEF Known, HoldersInv, TypeOK, ThreadsOK
<1>2. Left(g)
  BY <1>1 DEF Left
<1> QED
  BY <1>2, LeftSame

LEMMA HidOperationRefines ==
  ASSUME Known, NEW h \in Handles, NEW k \in Kinds, HidOperation(h, k)
  PROVE  Operations!Offer(h, k) /\ k \in Operations!AllKinds
<1>1. /\ op[h] = "none" /\ op' = [op EXCEPT ![h] = k] /\ requests' = requests
  BY DEF HidOperation, ctx
<1>2. ~Registered(h) /\ ~Completing(h) /\ pc[h] = "idle" /\ h \in Thread
  BY <1>1 DEF Known, HoldersInv, ExactlyOneHolder, OneHolder, Thread
<1>3. completing[h] = {}
  BY <1>2 DEF Known, HoldersInv, Hands, Completing
<1>4. \A g \in Handles \ {h} : op'[g] = op[g]
  BY <1>1 DEF Known, HoldersInv, TypeOK, EnvironmentOK
<1>5. \A g \in Handles : Registered(g)' = Registered(g) /\ Polled(g)' = Polled(g)
  BY <1>1 DEF Registered, Polled
<1>6. StageOf(h) = "idle" /\ OutcomeOf(h) = "none"
  BY <1>1, <1>2 DEF Known, StageFacts
<1>7. k \in Operations!AllKinds
  BY HidAssumption DEF Operations!AllKinds
<1>8. CASE Validate(k) = "valid"
  <2>1. completing' = completing /\ Goto(h, "enqueue")
    BY <1>8 DEF HidOperation
  <2>2. pc'[h] = "enqueue" /\ \A g \in Handles \ {h} : pc'[g] = pc[g]
    BY <1>2, <2>1 DEF Goto, Known, HoldersInv, TypeOK, Thread
  <2>3. \A g \in Handles \ {h} : Left(g)
    BY <1>4, <1>5, <2>1, <2>2 DEF Left
  <2>4. \A g \in Handles \ {h} : StageSame(g)
    BY <2>3, LeftSame
  <2>5. Completing(h)' = Completing(h)
    BY <2>1 DEF Completing
  <2>6. StageOf(h)' = "offered" /\ OutcomeOf(h)' = "none"
    BY <1>2, <2>2, <2>5 DEF Known, StageFacts
  <2>7. k \in {"get", "send", "unsafe"}
    <3>1. Validate("malformed") # "valid" /\ Validate("unsupported") # "valid"
      BY DEF Validate
    <3> QED BY <1>7, <1>8, <3>1 DEF Operations!AllKinds
  <2>8. [h_1 \in Handles |-> OutcomeOf(h_1)]' = [h_1 \in Handles |-> OutcomeOf(h_1)]
    BY <1>6, <2>4, <2>6 DEF StageSame
  <2> QED BY <1>1, <1>6, <1>7, <2>4, <2>6, <2>7, <2>8, OneMoves DEF Operations!Offer
<1>9. CASE Validate(k) # "valid"
  <2> DEFINE X == {<<h, Validate(k)>>}
  <2>1. completing' = [completing EXCEPT ![h] = X] /\ pc' = pc
    BY <1>9 DEF HidOperation
  <2>2. completing'[h] = X
    BY <1>2, <2>1 DEF Known, HoldersInv, TypeOK, ThreadsOK
  <2>3. \A c \in X : c[1] = h /\ c[2] = Validate(k)
    OBVIOUS
  <2>4. <<h, Validate(k)>> \in completing'[h]
    BY <2>2
  <2> HIDE DEF X
  <2>5. \A g \in Handles \ {h} : StageSame(g)
    BY <1>2, <1>3, <1>4, <1>5, <2>1, <2>3, OthersHanded
  <2>6. Completing(h)'
    BY <1>2, <2>2, <2>3, <2>4 DEF Completing
  <2>7. StageOf(h)' = "settled" /\ OutcomeOf(h)' = Validate(k)
    BY <1>2, <2>2, <2>3, <2>4, <2>6 DEF Known, StageFacts
  <2>8. k \in {"malformed", "unsupported"} /\ Validate(k) \in Operations!Refusals
    BY <1>7, <1>9 DEF Validate, Operations!AllKinds, Operations!Refusals
  <2> QED BY <1>1, <1>6, <1>7, <2>5, <2>7, <2>8, OneMoves DEF Operations!Offer
<1> QED
  BY <1>8, <1>9

LEMMA RefuseRefines ==
  ASSUME Known, NEW h \in Handles, Refuse(h)
  PROVE  Operations!Refuse(h)
<1> DEFINE status == IF stopping \/ owner = NULL THEN "DEVICE_NOT_READY"
                                                 ELSE "DEVICE_BUSY"
           X == {<<h, status>>}
<1>1. /\ pc[h] = "enqueue" /\ Goto(h, "idle") /\ op' = op /\ requests' = requests
      /\ completing' = [completing EXCEPT ![h] = X]
  BY DEF Refuse, ctx, hid
<1>2. status \in {"DEVICE_NOT_READY", "DEVICE_BUSY"}
  OBVIOUS
<1> HIDE DEF status
<1>3. ~Completing(h) /\ h \in Thread
  BY <1>1 DEF Known, HoldersInv, ExactlyOneHolder, OneHolder, Thread
<1>4. completing[h] = {}
  BY <1>3 DEF Known, HoldersInv, Hands, Completing
<1>5. completing'[h] = X
  BY <1>1, <1>3 DEF Known, HoldersInv, TypeOK, ThreadsOK
<1>6. (\A c \in X : c[1] = h /\ c[2] = status) /\ <<h, status>> \in X
  OBVIOUS
<1> HIDE DEF X
<1>7. \A g \in Handles \ {h} : pc'[g] = pc[g]
  BY <1>1 DEF Goto, Known, HoldersInv, TypeOK, Thread
<1>8. \A g \in Handles : Registered(g)' = Registered(g) /\ Polled(g)' = Polled(g)
  BY <1>1 DEF Registered, Polled
<1>9. \A g \in Handles \ {h} : StageSame(g)
  BY <1>1, <1>3, <1>4, <1>6, <1>7, <1>8, OthersHanded
<1>10. Completing(h)'
  BY <1>3, <1>5, <1>6 DEF Completing
<1>11. StageOf(h)' = "settled" /\ OutcomeOf(h)' = status
  BY <1>3, <1>5, <1>6, <1>10 DEF Known, StageFacts
<1>12. StageOf(h) = "offered"
  BY <1>1 DEF Known, StageFacts
<1> QED
  BY <1>1, <1>2, <1>9, <1>11, <1>12, OneMoves DEF Operations!Refuse, Operations!Settle

LEMMA AcceptRefines ==
  ASSUME Known, NEW h \in Handles, NEW s \in Slots, Accept(h, s)
  PROVE  Operations!Queue(h)
<1>1. /\ pc[h] = "enqueue" /\ Goto(h, "idle") /\ op' = op /\ completing' = completing
      /\ s \notin Used
  BY DEF Accept, hid
<1>2. /\ requests'[s].handle = h /\ requests'[s].delivered = FALSE
      /\ \A r \in Slots \ {s} : requests'[r] = requests[r]
  BY DEF Accept, Known, HoldersInv, TypeOK, ContextOK
<1>3. requests[s].handle = NULL
  BY <1>1 DEF Used
<1>4. ~Registered(h) /\ ~Completing(h)
  BY <1>1 DEF Known, HoldersInv, ExactlyOneHolder, OneHolder
<1>5. Registered(h)' /\ ~Polled(h)'
  BY <1>2, <1>4 DEF Registered, Polled
<1>6. \A g \in Handles \ {h} : Registered(g)' = Registered(g) /\ Polled(g)' = Polled(g)
  BY <1>2, <1>3, HidAssumption DEF Registered, Polled
<1>7. \A g \in Handles \ {h} : pc'[g] = pc[g]
  BY <1>1 DEF Goto, Known, HoldersInv, TypeOK, Thread
<1>8. \A g \in Handles \ {h} : Left(g)
  BY <1>1, <1>6, <1>7 DEF Left
<1>9. \A g \in Handles \ {h} : StageSame(g)
  BY <1>8, LeftSame
<1>10. Completing(h)' = Completing(h)
  BY <1>1 DEF Completing
<1>11. /\ StageOf(h) = "offered" /\ OutcomeOf(h) = "none"
       /\ StageOf(h)' = "queued" /\ OutcomeOf(h)' = "none"
  BY <1>1, <1>4, <1>5, <1>10 DEF Known, StageFacts
<1>12. [g \in Handles |-> OutcomeOf(g)]' = [g \in Handles |-> OutcomeOf(g)]
  BY <1>9, <1>11 DEF StageSame
<1> QED
  BY <1>1, <1>9, <1>11, <1>12, OneMoves DEF Operations!Queue

LEMMA DeliverRefines ==
  ASSUME Known, NEW s \in Slots, Deliver(s)
  PROVE  \E h \in Handles : Operations!Poll(h)
<1>1. /\ requests' = [requests EXCEPT ![s].delivered = TRUE] /\ Goto("ioctl", "finish")
      /\ op' = op /\ completing' = completing
      /\ s \in Used /\ ~requests[s].delivered
  BY DEF Deliver, Undelivered, hid
<1>2. PICK h \in Handles : h = requests[s].handle
  BY <1>1 DEF Known, HoldersInv, TypeOK, ContextOK, Request, Used
<1>3. /\ \A r \in Slots : requests'[r].handle = requests[r].handle
      /\ \A r \in Slots \ {s} : requests'[r].delivered = requests[r].delivered
      /\ requests'[s].delivered = TRUE
  BY <1>1 DEF Known, HoldersInv, TypeOK, ContextOK, Request
<1>4. Registered(h) /\ Registered(h)' /\ Polled(h)'
  BY <1>1, <1>2, <1>3 DEF Registered, Polled
<1>5. ~Polled(h)
  <2>1. ASSUME NEW r \in Slots, requests[r].handle = h PROVE r = s
    BY <1>1, <1>2, <2>1, HidAssumption
    DEF Known, HoldersInv, ExactlyOneHolder, OneEntryEach, Used
  <2> QED BY <1>1, <2>1 DEF Polled
<1>6. \A g \in Handles \ {h} : Registered(g)' = Registered(g) /\ Polled(g)' = Polled(g)
  BY <1>2, <1>3 DEF Registered, Polled
<1>7. \A g \in Handles : pc'[g] = pc[g]
  BY <1>1, HidAssumption DEF Goto, Known, HoldersInv, TypeOK, Thread
<1>8. \A g \in Handles \ {h} : Left(g)
  BY <1>1, <1>6, <1>7 DEF Left
<1>9. \A g \in Handles \ {h} : StageSame(g)
  BY <1>8, LeftSame
<1>10. ~Completing(h) /\ Completing(h)' = Completing(h)
  BY <1>1, <1>4 DEF Known, HoldersInv, ExactlyOneHolder, OneHolder, Completing
<1>11. /\ StageOf(h) = "queued" /\ OutcomeOf(h) = "none"
       /\ StageOf(h)' = "polled" /\ OutcomeOf(h)' = "none"
  BY <1>4, <1>5, <1>10 DEF Known, StageFacts
<1>12. [g \in Handles |-> OutcomeOf(g)]' = [g \in Handles |-> OutcomeOf(g)]
  BY <1>9, <1>11 DEF StageSame
<1>13. Operations!Poll(h)
  BY <1>1, <1>9, <1>11, <1>12, OneMoves DEF Operations!Poll
<1> QED
  BY <1>13

LEMMA ReplyRefines ==
  ASSUME Known, NEW s \in Slots, Reply(s)
  PROVE  \E h \in Handles : Operations!Answer(h)
<1> DEFINE r == requests[s]
           status == Completion(r)
           X == {<<r.handle, status>>}
<1>1. /\ pc["ioctl"] = "reply" /\ Goto("ioctl", "answer") /\ op' = op
      /\ s \in Used /\ r.delivered
      /\ requests' = [requests EXCEPT ![s] = Empty]
      /\ completing' = [completing EXCEPT !["ioctl"] = X]
  BY DEF Reply, Answers
<1>2. PICK h \in Handles : h = r.handle /\ Registered(h)
  BY <1>1 DEF Known, HoldersInv, TypeOK, ContextOK, Request, Used, Registered
<1>3. op[h] \in Permitted /\ r.op = Marshalled(op[h])
  BY <1>1, <1>2 DEF Known, OutcomeInv, EntriesMatch, WaitingPermitted
<1>4. completing["ioctl"] = {} /\ "ioctl" \in Thread
  BY <1>1 DEF Known, HoldersInv, Hands, Worker, Thread
<1>5. call.verdict \in {"ok", "mismatch", "error"}
  BY HidAssumption DEF Known, HoldersInv, TypeOK, ThreadsOK, Call
<1>6. status \in Operations!Answers(op[h])
  <2>1. CASE op[h] = "unsafe"
    BY <1>3, <2>1 DEF Marshalled, Completion, Operations!Answers
  <2>2. CASE op[h] = "send"
    BY <1>3, <2>2 DEF Marshalled, Completion, Operations!Answers
  <2>3. CASE op[h] = "get"
    BY <1>3, <1>5, <2>3 DEF Marshalled, Completion, Operations!Answers
  <2> QED BY <1>3, <2>1, <2>2, <2>3 DEF Permitted
<1> HIDE DEF status
<1>7. (\A c \in X : c[1] = h /\ c[2] = status) /\ <<h, status>> \in X
  BY <1>2
<1> HIDE DEF X
<1>8. /\ requests'[s].handle = NULL
      /\ \A q \in Slots \ {s} : requests'[q] = requests[q]
  BY <1>1 DEF Known, HoldersInv, TypeOK, ContextOK, Empty
<1>9. \A g \in Handles \ {h} : Registered(g)' = Registered(g) /\ Polled(g)' = Polled(g)
  BY <1>2, <1>8, HidAssumption DEF Registered, Polled
<1>10. \A g \in Handles : pc'[g] = pc[g]
  BY <1>1, HidAssumption DEF Goto, Known, HoldersInv, TypeOK, Thread
<1>11. \A g \in Handles \ {h} : StageSame(g)
  BY <1>1, <1>4, <1>7, <1>9, <1>10, OthersHanded
<1>12. completing'["ioctl"] = X
  BY <1>1, <1>4 DEF Known, HoldersInv, TypeOK, ThreadsOK
<1>13. Completing(h)'
  BY <1>4, <1>7, <1>12 DEF Completing
<1>14. StageOf(h)' = "settled" /\ OutcomeOf(h)' = status
  BY <1>4, <1>7, <1>12, <1>13 DEF Known, StageFacts
<1>15. Polled(h)
  BY <1>1, <1>2 DEF Polled
<1>16. StageOf(h) = "polled"
  BY <1>2, <1>15 DEF Known, StageFacts
<1>17. Operations!Answer(h)
  BY <1>1, <1>6, <1>11, <1>14, <1>16, OneMoves
  DEF Operations!Answer, Operations!Settle
<1> QED
  BY <1>17

LEMMA CompleteRefines ==
  ASSUME Known, NEW t \in Thread, Complete(t)
  PROVE  \E h \in Handles : Operations!Complete(h)
<1>1. PICK c \in completing[t] :
        /\ completing' = [completing EXCEPT ![t] = @ \ {c}]
        /\ op' = [op EXCEPT ![c[1]] = "none"]
        /\ UNCHANGED <<requests, pc>>
  BY DEF Complete, ctx
<1>2. PICK h \in Handles : h = c[1]
  BY DEF Known, HoldersInv, TypeOK, ThreadsOK
<1>3. Completing(h)
  BY <1>2 DEF Completing
<1>4. op'[h] = "none" /\ \A g \in Handles \ {h} : op'[g] = op[g]
  BY <1>1, <1>2 DEF Known, HoldersInv, TypeOK, EnvironmentOK
<1>5. \A u \in Thread : /\ completing'[u] \subseteq completing[u]
                        /\ completing[u] \subseteq completing'[u] \cup {c}
  BY <1>1 DEF Known, HoldersInv, TypeOK, ThreadsOK
<1>6. \A g \in Handles : Registered(g)' = Registered(g) /\ Polled(g)' = Polled(g)
  BY <1>1 DEF Registered, Polled
<1>7. \A g \in Handles \ {h} : Left(g)
  BY <1>1, <1>2, <1>4, <1>5, <1>6 DEF Left
<1>8. \A g \in Handles \ {h} : StageSame(g)
  BY <1>7, LeftSame
<1>9. ~Completing(h)'
  BY <1>4 DEF Known, HoldersInv, ExactlyOneHolder, OneHolder
<1>10. StageOf(h) = "settled" /\ StageOf(h)' = "idle" /\ OutcomeOf(h)' = "none"
  BY <1>3, <1>4, <1>9 DEF Known, StageFacts
<1>11. Operations!Complete(h)
  BY <1>1, <1>2, <1>8, <1>10, OneMoves DEF Operations!Complete
<1> QED
  BY <1>11

(* Entries that leave the table together drop their operations together.   *)
LEMMA ExpireRefines ==
  ASSUME Known, NEW t \in Thread, completing[t] = {}, NEW S \in SUBSET Used,
         NEW status, Expire(t, S, status), op' = op, \A h \in Handles : pc'[h] = pc[h]
  PROVE  LET H == {h \in Handles : \E s \in S : requests[s].handle = h}
         IN  /\ Operations!Drop(H, status)
             /\ \A h \in H : Operations!Open(h)
<1> DEFINE H == {h \in Handles : \E s \in S : requests[s].handle = h}
           X == {<<requests[s].handle, status>> : s \in S}
<1>1. /\ completing' = [completing EXCEPT ![t] = X]
      /\ \A s \in S : requests'[s] = Empty
      /\ \A s \in Slots \ S : requests'[s] = requests[s]
  BY DEF Expire, Used
<1>2. \A c \in X : c[1] \in H /\ c[2] = status
  BY DEF Known, HoldersInv, TypeOK, ContextOK, Request, Used
<1>3. ASSUME NEW h \in H PROVE \E c \in X : c[1] = h
  <2>1. PICK s \in S : requests[s].handle = h
    OBVIOUS
  <2>2. <<requests[s].handle, status>> \in X
    OBVIOUS
  <2> QED BY <2>1, <2>2
<1>4. completing'[t] = X
  BY <1>1 DEF Known, HoldersInv, TypeOK, ThreadsOK
<1>5. \A h \in H : Registered(h)
  BY DEF Registered, Used
<1> HIDE DEF X
<1>6. ASSUME NEW h \in H
      PROVE  StageOf(h)' = "settled" /\ OutcomeOf(h)' = status /\ Operations!Open(h)
  <2>1. PICK c \in X : c[1] = h /\ c[2] = status
    BY <1>2, <1>3
  <2>2. c \in completing'[t]
    BY <1>4
  <2>3. Completing(h)'
    BY <2>1, <2>2 DEF Completing
  <2>4. StageOf(h)' = "settled" /\ OutcomeOf(h)' = status
    BY <2>1, <2>2, <2>3 DEF Known, StageFacts
  <2>5. StageOf(h) \in {"queued", "polled"}
    BY <1>5 DEF Known, StageFacts
  <2> QED BY <2>4, <2>5 DEF Operations!Open
<1>7. ASSUME NEW h \in Handles \ H
      PROVE  StageOf(h)' = StageOf(h) /\ OutcomeOf(h)' = OutcomeOf(h)
  <2>1. \A s \in S : requests[s].handle # h
    OBVIOUS
  <2>2. Registered(h)' = Registered(h) /\ Polled(h)' = Polled(h)
    BY <1>1, <2>1, HidAssumption DEF Registered, Polled, Empty, Used
  <2>3. \A c \in X : c[1] # h
    BY <1>2
  <2> QED BY <1>1, <2>2, <2>3, OthersHanded DEF StageSame
<1> HIDE DEF H
<1>8. Operations!Drop(H, status)
  BY <1>6, <1>7 DEF Operations!Drop
<1> QED
  BY <1>6, <1>8 DEF H

(* Every step is a step of the promise, or leaves it alone.                *)
Refines == Operations!Next \/ Stutters

LEMMA RefinesSteps ==
  ASSUME Known, Step
  PROVE  Refines
<1>0. TypeOK
  BY DEF Known, HoldersInv
<1> USE <1>0, HidAssumption DEF Thread, Worker, Pumper, ctx, table, hid
<1>a. ASSUME NEW t \in Thread \ Handles, NEW l, Goto(t, l), requests' = requests,
             completing' = completing, op' = op
      PROVE  Refines
  <2>1. \A h \in Handles : pc'[h] = pc[h]
    BY <1>a DEF Goto, TypeOK
  <2> QED BY <1>a, <2>1, EntriesLeft DEF Refines
<1>1. CASE UNCHANGED vars
  BY <1>1, EntriesLeft DEF vars, Refines
<1>2. ASSUME NEW f \in Files, FileCreate(f) PROVE Refines
  BY <1>2, <1>a DEF FileCreate
<1>3. ASSUME NEW f \in Files, FileClose(f) PROVE Refines
  BY <1>3, <1>a DEF FileClose
<1>4. ASSUME NEW f \in Files, NEW code \in Codes, NEW id \in Nat,
              NEW verdict \in Verdicts, Dispatch(f, code, id, verdict)
      PROVE  Refines
  BY <1>4, <1>a DEF Dispatch
<1>5. ASSUME Prepare PROVE Refines
  BY <1>5, EntriesLeft DEF Prepare, Refines
<1>6. ASSUME ReleaseStopTimer PROVE Refines
  BY <1>6, <1>a DEF ReleaseStopTimer
<1>7. ASSUME NEW h \in Handles, NEW k \in Kinds, HidOperation(h, k)
      PROVE  Refines
  BY <1>7, HidOperationRefines DEF Refines, Operations!Next
<1>8. ASSUME NEW s \in Slots, DeadlinePasses(s) PROVE Refines
  <2>1. requests' = [requests EXCEPT ![s].due = TRUE]
    BY <1>8 DEF DeadlinePasses
  <2>2. \A r \in Slots : /\ requests'[r].handle = requests[r].handle
                         /\ requests'[r].delivered = requests[r].delivered
    BY <2>1 DEF TypeOK, ContextOK, Request
  <2> QED BY <1>8, <2>2, EntriesLeft DEF DeadlinePasses, Refines
<1>9. ASSUME IoctlAcquire PROVE Refines
  BY <1>9, <1>a DEF IoctlAcquire, Lock
<1>10. ASSUME NEW f \in Files, FileCleanup(f) PROVE Refines
  BY <1>10, <1>a DEF FileCleanup, Lock
<1>11. ASSUME ReleaseAcquire PROVE Refines
  BY <1>11, <1>a DEF ReleaseAcquire, Lock
<1>12. ASSUME Start PROVE Refines
  BY <1>12, <1>a DEF Start
<1>13. ASSUME Claim PROVE Refines
  BY <1>13, <1>a DEF Claim
<1>14. ASSUME VhfCreate PROVE Refines
  BY <1>14, <1>a DEF VhfCreate
<1>15. ASSUME Publish PROVE Refines
  BY <1>15, <1>a DEF Publish
<1>16. ASSUME VhfStart PROVE Refines
  BY <1>16, <1>a DEF VhfStart
<1>17. ASSUME Input PROVE Refines
  BY <1>17, <1>a DEF Input
<1>18. ASSUME NEW t \in Pumper, PumpEnter(t) PROVE Refines
  BY <1>18, <1>a DEF PumpEnter
<1>19. ASSUME NEW t \in Pumper, PumpLeave(t) PROVE Refines
  BY <1>19, <1>a DEF PumpLeave
<1>20. ASSUME NEW t \in Pumper, PumpTake(t) PROVE Refines
  BY <1>20, <1>a DEF PumpTake
<1>21. ASSUME NEW t \in Pumper, PumpAbandon(t) PROVE Refines
  BY <1>21, <1>a DEF PumpAbandon
<1>22. ASSUME NEW t \in Pumper, SubmitAccepted(t) PROVE Refines
  BY <1>22, <1>a DEF SubmitAccepted
<1>23. ASSUME NEW t \in Pumper, SubmitFailed(t) PROVE Refines
  BY <1>23, <1>a DEF SubmitFailed
<1>24. ASSUME NEW t \in Pumper, SubmitReturns(t) PROVE Refines
  BY <1>24, <1>a DEF SubmitReturns
<1>25. ASSUME NoMoreEntries PROVE Refines
  BY <1>25, <1>a DEF NoMoreEntries
<1>26. ASSUME NEW s \in Slots, Deliver(s) PROVE Refines
  BY <1>26, DeliverRefines DEF Refines, Operations!Next
<1>27. ASSUME NEW s \in Slots, Reply(s) PROVE Refines
  BY <1>27, ReplyRefines DEF Refines, Operations!Next
<1>28. ASSUME ReplyNotFound PROVE Refines
  BY <1>28, <1>a DEF ReplyNotFound
<1>29. ASSUME ReplyCompleted PROVE Refines
  BY <1>29, <1>a DEF ReplyCompleted
<1>30. ASSUME NEW w \in Worker, DestroyStop(w) PROVE Refines
  BY <1>30, <1>a DEF DestroyStop
<1>31. ASSUME NEW w \in Worker, DestroyExpire(w) PROVE Refines
  <2>1. /\ pc[w] = "expire" /\ Goto(w, "cancel") /\ Expire(w, Used, "CANCELLED")
        /\ op' = op
    BY <1>31 DEF DestroyExpire
  <2>2. completing[w] = {} /\ \A h \in Handles : pc'[h] = pc[h]
    BY <2>1 DEF Known, HoldersInv, Hands, Goto, TypeOK
  <2> DEFINE H == {h \in Handles : \E s \in Used : requests[s].handle = h}
  <2>3. Operations!Drop(H, "CANCELLED") /\ \A h \in H : Operations!Open(h)
    BY <2>1, <2>2, ExpireRefines
  <2>4. \A h \in Handles \ H : ~Registered(h)
    BY DEF Registered, Used
  <2>5. ASSUME NEW h \in Handles \ H PROVE ~Operations!Open(h)
    <3>1. OneHolder(h) /\ ~Registered(h)
      BY <2>4 DEF Known, HoldersInv, ExactlyOneHolder
    <3>2. StageOf(h) \in {"idle", "offered", "settled"}
      BY <3>1 DEF Known, StageFacts, OneHolder
    <3> QED BY <3>2 DEF Operations!Open
  <2>6. H = {h \in Handles : Operations!Open(h)}
    BY <2>3, <2>5
  <2> HIDE DEF H
  <2> QED BY <2>3, <2>6 DEF Refines, Operations!Next, Operations!Cancel
<1>32. ASSUME NEW w \in Worker, DestroyDelete(w) PROVE Refines
  BY <1>32, <1>a DEF DestroyDelete
<1>33. ASSUME NEW w \in Worker, VhfDeleted(w) PROVE Refines
  BY <1>33, <1>a DEF VhfDeleted
<1>34. ASSUME NEW w \in Worker, DestroyReset(w) PROVE Refines
  BY <1>34, <1>a DEF DestroyReset
<1>35. ASSUME NEW t \in Thread, Complete(t) PROVE Refines
  BY <1>35, CompleteRefines DEF Refines, Operations!Next
<1>36. ASSUME NEW w \in Worker, Finish(w) PROVE Refines
  BY <1>36, <1>a DEF Finish
<1>37. ASSUME ReleaseTimerStopped PROVE Refines
  BY <1>37, <1>a DEF ReleaseTimerStopped
<1>38. ASSUME ReleaseClose PROVE Refines
  BY <1>38, <1>a DEF ReleaseClose
<1>39. ASSUME NEW h \in Handles, Refuse(h) PROVE Refines
  BY <1>39, RefuseRefines DEF Refines, Operations!Next
<1>40. ASSUME NEW h \in Handles, NEW s \in Slots, Accept(h, s) PROVE Refines
  BY <1>40, AcceptRefines DEF Refines, Operations!Next
<1>41. ASSUME Tick PROVE Refines
  <2> DEFINE overdue == {s \in Used : requests[s].due}
         H == {h \in Handles : \E s \in overdue : requests[s].handle = h}
  <2>1. /\ completing["tick"] = {} /\ Expire("tick", overdue, "IO_TIMEOUT")
        /\ op' = op /\ pc' = pc
    BY <1>41 DEF Tick, locks
  <2>2. overdue \in SUBSET Used
    OBVIOUS
  <2> HIDE DEF overdue
  <2>3. Operations!Drop(H, "IO_TIMEOUT") /\ \A h \in H : Operations!Open(h)
    BY <2>1, <2>2, ExpireRefines
  <2>4. H \in SUBSET {h \in Handles : Operations!Open(h)}
    BY <2>3
  <2> HIDE DEF H
  <2> QED BY <2>3, <2>4 DEF Refines, Operations!Next, Operations!TimeOut
<1>42. ASSUME VhfReady PROVE Refines
  BY <1>42, <1>a DEF VhfReady
<1>43. ASSUME Ready PROVE Refines
  BY <1>43, <1>a DEF Ready
<1>44. ASSUME VhfStartReturns PROVE Refines
  BY <1>44, <1>a DEF VhfStartReturns
<1> QED
  BY <1>1, <1>2, <1>3, <1>4, <1>5, <1>6, <1>7, <1>8, <1>9, <1>10, <1>11,
     <1>12, <1>13, <1>14, <1>15, <1>16, <1>17, <1>18, <1>19, <1>20, <1>21,
     <1>22, <1>23, <1>24, <1>25, <1>26, <1>27, <1>28, <1>29, <1>30, <1>31,
     <1>32, <1>33, <1>34, <1>35, <1>36, <1>37, <1>38, <1>39, <1>40, <1>41,
     <1>42, <1>43, <1>44 DEF Step

(* The driver implements the promise of HidOperations: each HID operation  *)
(* is settled once, by a refusal before it is queued, by an answer after a *)
(* poll has given it out, by its deadline or by a cancellation that spares *)
(* no open one, and with a status that this cause may have.  Every section *)
(* of the driver is one step of the promise or none of its business; the   *)
(* mapping is a function of the state because every operation has exactly  *)
(* one holder.                                                             *)
THEOREM OperationsImplemented == Spec => ImplementsOperations
<1>1. Init => Operations!Init
  <2> SUFFICES ASSUME Init PROVE Operations!Init
    OBVIOUS
  <2>1. op = [h \in Handles |-> "none"] /\ \A t \in Thread : completing[t] = {}
    BY DEF Init
  <2>2. \A h \in Handles : StageOf(h) = "idle"
    <3>1. ASSUME NEW h \in Handles PROVE StageOf(h) = "idle"
      <4>1. op[h] = "none" /\ pc[h] # "enqueue" /\ ~Completing(h)
        BY HidAssumption DEF Init, Thread, Completing
      <4>2. ~Polled(h)
        BY HidAssumption DEF Init, Polled, Empty
      <4>3. StageOf(h) = CASE op[h] = "none"    -> "idle"
                           [] pc[h] = "enqueue" -> "offered"
                           [] Completing(h)     -> "settled"
                           [] Polled(h)         -> "polled"
                           [] OTHER             -> "queued"
        BY DEF StageOf, Polled
      <4> QED BY <4>1, <4>2, <4>3
    <3> QED BY <3>1
  <2>3. \A h \in Handles : OutcomeOf(h) = "none"
    BY <2>1 DEF OutcomeOf, Completing
  <2> QED BY <2>1, <2>2, <2>3 DEF Operations!Init
<1>2. /\ HoldersInv /\ OutcomeInv /\ HoldersInv' /\ [Next]_vars
      => [Operations!Next]_Operations!opVars
  <2> SUFFICES ASSUME HoldersInv, OutcomeInv, HoldersInv', [Next]_vars
               PROVE  [Operations!Next]_Operations!opVars
    OBVIOUS
  <2>1. StageFacts
    BY Staged
  <2>2. HoldersInv' => StageFacts'
    BY Staged, PTL
  <2>3. Known
    BY <2>1, <2>2 DEF Known
  <2> QED BY <2>3, StepCases, RefinesSteps DEF Refines, Stutters
<1> QED
  BY <1>1, <1>2, OutcomesAlways, PTL DEF Spec, ImplementsOperations, Operations!Spec
=============================================================================
