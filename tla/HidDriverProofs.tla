--------------------------- MODULE HidDriverProofs ---------------------------
(***************************************************************************)
(* Proofs about HidDriver for every number of brokers, operations, table   *)
(* entries and reports.                                                    *)
(***************************************************************************)
EXTENDS HidDriver, TLAPS

(* A thread that moves to a label leaves pc well typed.                    *)
LEMMA GotoType ==
  ASSUME TypeOK, NEW t \in Thread, NEW l \in Labels, Goto(t, l)
  PROVE  pc' \in [Thread -> Labels]
  BY DEF TypeOK, Goto

(* The actions of Next, one disjunct each.                                 *)
Step ==
  \/ UNCHANGED vars
  \/ \E f \in Files : FileCreate(f)
  \/ \E f \in Files : FileClose(f)
  \/ \E f \in Files, code \in Codes, id \in Nat, verdict \in Verdicts : Dispatch(f, code, id, verdict)
  \/ Prepare
  \/ ReleaseStopTimer
  \/ \E h \in Handles, k \in Kinds : HidOperation(h, k)
  \/ \E s \in Slots : DeadlinePasses(s)
  \/ IoctlAcquire
  \/ \E f \in Files : FileCleanup(f)
  \/ ReleaseAcquire
  \/ Start
  \/ Claim
  \/ VhfCreate
  \/ Publish
  \/ VhfStart
  \/ VhfStartReturns
  \/ Input
  \/ \E t \in Pumper : PumpEnter(t)
  \/ \E t \in Pumper : PumpLeave(t)
  \/ \E t \in Pumper : PumpTake(t)
  \/ \E t \in Pumper : PumpAbandon(t)
  \/ \E t \in Pumper : SubmitAccepted(t)
  \/ \E t \in Pumper : SubmitFailed(t)
  \/ \E t \in Pumper : SubmitReturns(t)
  \/ NoMoreEntries
  \/ \E s \in Slots : Deliver(s)
  \/ \E s \in Slots : Reply(s)
  \/ ReplyNotFound
  \/ ReplyCompleted
  \/ \E w \in Worker : DestroyStop(w)
  \/ \E w \in Worker : DestroyExpire(w)
  \/ \E w \in Worker : DestroyDelete(w)
  \/ \E w \in Worker : VhfDeleted(w)
  \/ \E w \in Worker : DestroyReset(w)
  \/ \E t \in Thread : Complete(t)
  \/ \E w \in Worker : Finish(w)
  \/ ReleaseTimerStopped
  \/ ReleaseClose
  \/ \E h \in Handles : Refuse(h)
  \/ \E h \in Handles, s \in Slots : Accept(h, s)
  \/ Tick
  \/ VhfReady
  \/ Ready

(* Every step is one of the actions, or changes nothing.                   *)
LEMMA StepCases == [Next]_vars => Step
<1> SUFFICES ASSUME [Next]_vars PROVE Step
  OBVIOUS
<1>1. CASE UNCHANGED vars
  BY <1>1 DEF Step
<1>2. CASE Broker
  <2>1. CASE \E f \in Files : FileCreate(f) \/ FileClose(f)
    BY <2>1 DEF Step
  <2>2. ASSUME NEW f \in Files, NEW code \in Codes \ {"reply"},
               Dispatch(f, code, 0, "error")
        PROVE  Step
    <3>1. "error" \in Verdicts /\ 0 \in Nat /\ code \in Codes
      BY HidAssumption
    <3> QED BY <2>2, <3>1, Zenon DEF Step
  <2>3. ASSUME NEW f \in Files, NEW id \in 1 .. MaxId, NEW verdict \in Verdicts,
               Dispatch(f, "reply", id, verdict)
        PROVE  Step
    <3>1. id \in Nat /\ "reply" \in Codes
      BY HidAssumption DEF Codes
    <3> QED BY <2>3, <3>1, Zenon DEF Step
  <2> QED BY <1>2, <2>1, <2>2, <2>3 DEF Broker
<1>3. CASE Plug \/ HidStack \/ Clock
  BY <1>3 DEF Plug, HidStack, Clock, Step
<1>4. ASSUME NEW t \in Pumper, Pump(t) PROVE Step
  BY <1>4 DEF Pump, Step
<1>5. ASSUME NEW w \in Worker, Destroy(w) PROVE Step
  <2>1. w \in Thread
    BY DEF Worker, Thread
  <2> QED BY <1>5, <2>1 DEF Destroy, Step
<1>6. CASE IoctlAcquire \/ Ioctl
  <2>1. "ioctl" \in Pumper /\ "ioctl" \in Worker
    BY DEF Pumper, Worker
  <2> QED BY <1>4, <1>5, <1>6, <2>1 DEF Ioctl, Step
<1>7. CASE \E f \in Files : FileCleanup(f) \/ Destroy(f)
  <2>1. Files \subseteq Worker
    BY DEF Worker
  <2> QED BY <1>5, <1>7, <2>1 DEF Step
<1>8. CASE ReleaseAcquire \/ Release
  <2>1. "release" \in Worker
    BY DEF Worker
  <2> QED BY <1>5, <1>8, <2>1 DEF Release, Step
<1>9. CASE ReadyCallback \/ Timer
  <2>1. "ready" \in Pumper /\ "tick" \in Thread
    BY DEF Pumper, Thread
  <2> QED BY <1>4, <1>9, <2>1 DEF ReadyCallback, Timer, Step
<1>10. CASE \E h \in Handles : Enqueue(h)
  <2>1. Handles \subseteq Thread
    BY DEF Thread
  <2> QED BY <1>10, <2>1 DEF Enqueue, Step
<1> QED
  BY <1>1, <1>2, <1>3, <1>6, <1>7, <1>8, <1>9, <1>10 DEF Next

(* A thread goes from one place of its code to another.                    *)
LEMMA PcType == TypeOK /\ [Next]_vars => pc' \in [Thread -> Labels]
<1> SUFFICES ASSUME TypeOK, [Next]_vars PROVE pc' \in [Thread -> Labels]
  OBVIOUS
<1> USE DEF Thread, Worker, Pumper, Labels
<1>1. CASE UNCHANGED vars
  BY <1>1 DEF vars, TypeOK
<1>2. ASSUME NEW f \in Files, FileCreate(f) PROVE pc' \in [Thread -> Labels]
  BY <1>2, GotoType DEF FileCreate
<1>3. ASSUME NEW f \in Files, FileClose(f) PROVE pc' \in [Thread -> Labels]
  BY <1>3, GotoType DEF FileClose
<1>4. ASSUME NEW f \in Files, NEW code \in Codes, NEW id \in Nat, NEW verdict \in Verdicts, Dispatch(f, code, id, verdict) PROVE pc' \in [Thread -> Labels]
  BY <1>4, GotoType DEF Dispatch
<1>5. ASSUME Prepare PROVE pc' \in [Thread -> Labels]
  BY <1>5, GotoType DEF Prepare, TypeOK
<1>6. ASSUME ReleaseStopTimer PROVE pc' \in [Thread -> Labels]
  BY <1>6, GotoType DEF ReleaseStopTimer
<1>7. ASSUME NEW h \in Handles, NEW k \in Kinds, HidOperation(h, k) PROVE pc' \in [Thread -> Labels]
  BY <1>7, GotoType DEF HidOperation, TypeOK
<1>8. ASSUME NEW s \in Slots, DeadlinePasses(s) PROVE pc' \in [Thread -> Labels]
  BY <1>8, GotoType DEF DeadlinePasses, TypeOK
<1>9. ASSUME IoctlAcquire PROVE pc' \in [Thread -> Labels]
  BY <1>9, GotoType DEF IoctlAcquire, Lock
<1>10. ASSUME NEW f \in Files, FileCleanup(f) PROVE pc' \in [Thread -> Labels]
  BY <1>10, GotoType DEF FileCleanup, Lock
<1>11. ASSUME ReleaseAcquire PROVE pc' \in [Thread -> Labels]
  BY <1>11, GotoType DEF ReleaseAcquire, Lock
<1>12. ASSUME Start PROVE pc' \in [Thread -> Labels]
  BY <1>12, GotoType DEF Start
<1>13. ASSUME Claim PROVE pc' \in [Thread -> Labels]
  BY <1>13, GotoType DEF Claim
<1>14. ASSUME VhfCreate PROVE pc' \in [Thread -> Labels]
  BY <1>14, GotoType DEF VhfCreate
<1>15. ASSUME Publish PROVE pc' \in [Thread -> Labels]
  BY <1>15, GotoType DEF Publish
<1>16. ASSUME VhfStart PROVE pc' \in [Thread -> Labels]
  BY <1>16, GotoType DEF VhfStart
<1>17. ASSUME Input PROVE pc' \in [Thread -> Labels]
  BY <1>17, GotoType DEF Input
<1>18. ASSUME NEW t \in Pumper, PumpEnter(t) PROVE pc' \in [Thread -> Labels]
  BY <1>18, GotoType DEF PumpEnter, AfterPump
<1>19. ASSUME NEW t \in Pumper, PumpLeave(t) PROVE pc' \in [Thread -> Labels]
  BY <1>19, GotoType DEF PumpLeave, AfterPump
<1>20. ASSUME NEW t \in Pumper, PumpTake(t) PROVE pc' \in [Thread -> Labels]
  BY <1>20, GotoType DEF PumpTake
<1>21. ASSUME NEW t \in Pumper, PumpAbandon(t) PROVE pc' \in [Thread -> Labels]
  BY <1>21, GotoType DEF PumpAbandon, AfterPump
<1>22. ASSUME NEW t \in Pumper, SubmitAccepted(t) PROVE pc' \in [Thread -> Labels]
  BY <1>22, GotoType DEF SubmitAccepted
<1>23. ASSUME NEW t \in Pumper, SubmitFailed(t) PROVE pc' \in [Thread -> Labels]
  BY <1>23, GotoType DEF SubmitFailed
<1>24. ASSUME NEW t \in Pumper, SubmitReturns(t) PROVE pc' \in [Thread -> Labels]
  BY <1>24, GotoType DEF SubmitReturns
<1>25. ASSUME NoMoreEntries PROVE pc' \in [Thread -> Labels]
  BY <1>25, GotoType DEF NoMoreEntries
<1>26. ASSUME NEW s \in Slots, Deliver(s) PROVE pc' \in [Thread -> Labels]
  BY <1>26, GotoType DEF Deliver
<1>27. ASSUME NEW s \in Slots, Reply(s) PROVE pc' \in [Thread -> Labels]
  BY <1>27, GotoType DEF Reply
<1>28. ASSUME ReplyNotFound PROVE pc' \in [Thread -> Labels]
  BY <1>28, GotoType DEF ReplyNotFound
<1>29. ASSUME ReplyCompleted PROVE pc' \in [Thread -> Labels]
  BY <1>29, GotoType DEF ReplyCompleted
<1>30. ASSUME NEW w \in Worker, DestroyStop(w) PROVE pc' \in [Thread -> Labels]
  BY <1>30, GotoType DEF DestroyStop
<1>31. ASSUME NEW w \in Worker, DestroyExpire(w) PROVE pc' \in [Thread -> Labels]
  BY <1>31, GotoType DEF DestroyExpire
<1>32. ASSUME NEW w \in Worker, DestroyDelete(w) PROVE pc' \in [Thread -> Labels]
  BY <1>32, GotoType DEF DestroyDelete
<1>33. ASSUME NEW w \in Worker, VhfDeleted(w) PROVE pc' \in [Thread -> Labels]
  BY <1>33, GotoType DEF VhfDeleted
<1>34. ASSUME NEW w \in Worker, DestroyReset(w) PROVE pc' \in [Thread -> Labels]
  BY <1>34, GotoType DEF DestroyReset, AfterDestroy
<1>35. ASSUME NEW t \in Thread, Complete(t) PROVE pc' \in [Thread -> Labels]
  BY <1>35, GotoType DEF Complete, TypeOK
<1>36. ASSUME NEW w \in Worker, Finish(w) PROVE pc' \in [Thread -> Labels]
  BY <1>36, GotoType DEF Finish
<1>37. ASSUME ReleaseTimerStopped PROVE pc' \in [Thread -> Labels]
  BY <1>37, GotoType DEF ReleaseTimerStopped
<1>38. ASSUME ReleaseClose PROVE pc' \in [Thread -> Labels]
  BY <1>38, GotoType DEF ReleaseClose
<1>39. ASSUME NEW h \in Handles, Refuse(h) PROVE pc' \in [Thread -> Labels]
  BY <1>39, GotoType DEF Refuse
<1>40. ASSUME NEW h \in Handles, NEW s \in Slots, Accept(h, s) PROVE pc' \in [Thread -> Labels]
  BY <1>40, GotoType DEF Accept
<1>41. ASSUME Tick PROVE pc' \in [Thread -> Labels]
  BY <1>41, GotoType DEF Tick, TypeOK
<1>42. ASSUME VhfReady PROVE pc' \in [Thread -> Labels]
  BY <1>42, GotoType DEF VhfReady
<1>43. ASSUME Ready PROVE pc' \in [Thread -> Labels]
  BY <1>43, GotoType DEF Ready
<1>44. ASSUME VhfStartReturns PROVE pc' \in [Thread -> Labels]
  BY <1>44, GotoType DEF VhfStartReturns
<1> QED
  BY StepCases, <1>1, <1>2, <1>3, <1>4, <1>5, <1>6, <1>7, <1>8, <1>9, <1>10, <1>11,
         <1>12, <1>13, <1>14, <1>15, <1>16, <1>17, <1>18, <1>19,
         <1>20, <1>21, <1>22, <1>23, <1>24, <1>25, <1>26, <1>27,
         <1>28, <1>29, <1>30, <1>31, <1>32, <1>33, <1>34, <1>35,
         <1>36, <1>37, <1>38, <1>39, <1>40, <1>41, <1>42, <1>43, <1>44
  DEF Step

(* The flags keep their types.                                             *)
LEMMA FlagsType == TypeOK /\ [Next]_vars => FlagsOK'
<1> SUFFICES ASSUME TypeOK, [Next]_vars PROVE FlagsOK'
  OBVIOUS
<1> USE DEF TypeOK, FlagsOK, ctx, session, flow, locks, hid
<1>1. CASE UNCHANGED vars
  BY <1>1 DEF vars
<1>2. ASSUME NEW f \in Files, FileCreate(f) PROVE FlagsOK'
  BY <1>2, Zenon DEF FileCreate
<1>3. ASSUME NEW f \in Files, FileClose(f) PROVE FlagsOK'
  BY <1>3, Zenon DEF FileClose
<1>4. ASSUME NEW f \in Files, NEW code \in Codes, NEW id \in Nat, NEW verdict \in Verdicts, Dispatch(f, code, id, verdict) PROVE FlagsOK'
  BY <1>4, Zenon DEF Dispatch
<1>5. ASSUME Prepare PROVE FlagsOK'
  BY <1>5, Zenon DEF Prepare
<1>6. ASSUME ReleaseStopTimer PROVE FlagsOK'
  BY <1>6, Zenon DEF ReleaseStopTimer
<1>7. ASSUME NEW h \in Handles, NEW k \in Kinds, HidOperation(h, k) PROVE FlagsOK'
  BY <1>7, Zenon DEF HidOperation
<1>8. ASSUME NEW s \in Slots, DeadlinePasses(s) PROVE FlagsOK'
  BY <1>8, Zenon DEF DeadlinePasses
<1>9. ASSUME IoctlAcquire PROVE FlagsOK'
  BY <1>9, Zenon DEF IoctlAcquire, Lock
<1>10. ASSUME NEW f \in Files, FileCleanup(f) PROVE FlagsOK'
  BY <1>10, Zenon DEF FileCleanup, Lock
<1>11. ASSUME ReleaseAcquire PROVE FlagsOK'
  BY <1>11, Zenon DEF ReleaseAcquire, Lock
<1>12. ASSUME Start PROVE FlagsOK'
  BY <1>12, Zenon DEF Start
<1>13. ASSUME Claim PROVE FlagsOK'
  BY <1>13, Zenon DEF Claim
<1>14. ASSUME VhfCreate PROVE FlagsOK'
  BY <1>14, Zenon DEF VhfCreate
<1>15. ASSUME Publish PROVE FlagsOK'
  BY <1>15, Zenon DEF Publish
<1>16. ASSUME VhfStart PROVE FlagsOK'
  BY <1>16, Zenon DEF VhfStart
<1>17. ASSUME Input PROVE FlagsOK'
  BY <1>17, Zenon DEF Input
<1>18. ASSUME NEW t \in Pumper, PumpEnter(t) PROVE FlagsOK'
  BY <1>18, Zenon DEF PumpEnter
<1>19. ASSUME NEW t \in Pumper, PumpLeave(t) PROVE FlagsOK'
  BY <1>19, Zenon DEF PumpLeave
<1>20. ASSUME NEW t \in Pumper, PumpTake(t) PROVE FlagsOK'
  BY <1>20, Zenon DEF PumpTake
<1>21. ASSUME NEW t \in Pumper, PumpAbandon(t) PROVE FlagsOK'
  BY <1>21, Zenon DEF PumpAbandon
<1>22. ASSUME NEW t \in Pumper, SubmitAccepted(t) PROVE FlagsOK'
  BY <1>22, Zenon DEF SubmitAccepted
<1>23. ASSUME NEW t \in Pumper, SubmitFailed(t) PROVE FlagsOK'
  BY <1>23, Zenon DEF SubmitFailed
<1>24. ASSUME NEW t \in Pumper, SubmitReturns(t) PROVE FlagsOK'
  BY <1>24, Zenon DEF SubmitReturns
<1>25. ASSUME NoMoreEntries PROVE FlagsOK'
  BY <1>25, Zenon DEF NoMoreEntries
<1>26. ASSUME NEW s \in Slots, Deliver(s) PROVE FlagsOK'
  BY <1>26, Zenon DEF Deliver
<1>27. ASSUME NEW s \in Slots, Reply(s) PROVE FlagsOK'
  BY <1>27, Zenon DEF Reply
<1>28. ASSUME ReplyNotFound PROVE FlagsOK'
  BY <1>28, Zenon DEF ReplyNotFound
<1>29. ASSUME ReplyCompleted PROVE FlagsOK'
  BY <1>29, Zenon DEF ReplyCompleted
<1>30. ASSUME NEW w \in Worker, DestroyStop(w) PROVE FlagsOK'
  BY <1>30, Zenon DEF DestroyStop
<1>31. ASSUME NEW w \in Worker, DestroyExpire(w) PROVE FlagsOK'
  BY <1>31, Zenon DEF DestroyExpire
<1>32. ASSUME NEW w \in Worker, DestroyDelete(w) PROVE FlagsOK'
  BY <1>32, Zenon DEF DestroyDelete
<1>33. ASSUME NEW w \in Worker, VhfDeleted(w) PROVE FlagsOK'
  BY <1>33, Zenon DEF VhfDeleted
<1>34. ASSUME NEW w \in Worker, DestroyReset(w) PROVE FlagsOK'
  BY <1>34, Zenon DEF DestroyReset
<1>35. ASSUME NEW t \in Thread, Complete(t) PROVE FlagsOK'
  BY <1>35, Zenon DEF Complete
<1>36. ASSUME NEW w \in Worker, Finish(w) PROVE FlagsOK'
  BY <1>36, Zenon DEF Finish
<1>37. ASSUME ReleaseTimerStopped PROVE FlagsOK'
  BY <1>37, Zenon DEF ReleaseTimerStopped
<1>38. ASSUME ReleaseClose PROVE FlagsOK'
  BY <1>38, Zenon DEF ReleaseClose
<1>39. ASSUME NEW h \in Handles, Refuse(h) PROVE FlagsOK'
  BY <1>39, Zenon DEF Refuse
<1>40. ASSUME NEW h \in Handles, NEW s \in Slots, Accept(h, s) PROVE FlagsOK'
  BY <1>40, Zenon DEF Accept
<1>41. ASSUME Tick PROVE FlagsOK'
  BY <1>41, Zenon DEF Tick
<1>42. ASSUME VhfReady PROVE FlagsOK'
  BY <1>42, Zenon DEF VhfReady
<1>43. ASSUME Ready PROVE FlagsOK'
  BY <1>43, Zenon DEF Ready
<1>44. ASSUME VhfStartReturns PROVE FlagsOK'
  BY <1>44, Zenon DEF VhfStartReturns
<1> QED
  BY StepCases, <1>1, <1>2, <1>3, <1>4, <1>5, <1>6, <1>7, <1>8, <1>9, <1>10, <1>11,
         <1>12, <1>13, <1>14, <1>15, <1>16, <1>17, <1>18, <1>19,
         <1>20, <1>21, <1>22, <1>23, <1>24, <1>25, <1>26, <1>27,
         <1>28, <1>29, <1>30, <1>31, <1>32, <1>33, <1>34, <1>35,
         <1>36, <1>37, <1>38, <1>39, <1>40, <1>41, <1>42, <1>43, <1>44
  DEF Step

(* Marking an entry as due or as delivered keeps the table well typed.     *)
LEMMA MarkedEntry ==
  ASSUME requests \in [Slots -> Request], NEW s \in Slots
  PROVE  /\ [requests EXCEPT ![s].due = TRUE] \in [Slots -> Request]
         /\ [requests EXCEPT ![s].delivered = TRUE] \in [Slots -> Request]
<1>1. [requests[s] EXCEPT !.due = TRUE] \in Request
  BY DEF Request
<1>2. [requests[s] EXCEPT !.delivered = TRUE] \in Request
  BY DEF Request
<1> QED BY <1>1, <1>2

(* So do the context, what threads hold and the environment.               *)
LEMMA DataType == TypeOK /\ [Next]_vars => ContextOK' /\ ThreadsOK' /\ EnvironmentOK'
<1> SUFFICES ASSUME TypeOK, [Next]_vars PROVE ContextOK' /\ ThreadsOK' /\ EnvironmentOK'
  OBVIOUS
<1> USE HidAssumption DEF TypeOK, ContextOK, ThreadsOK, EnvironmentOK,
        Thread, Worker, Pumper, ctx, ring, session, flow, table, locks, hid, counts
<1>1. CASE UNCHANGED vars
  BY <1>1 DEF vars
<1>2. ASSUME NEW f \in Files, FileCreate(f) PROVE ContextOK' /\ ThreadsOK' /\ EnvironmentOK'
  BY <1>2 DEF FileCreate
<1>3. ASSUME NEW f \in Files, FileClose(f) PROVE ContextOK' /\ ThreadsOK' /\ EnvironmentOK'
  BY <1>3 DEF FileClose
<1>4. ASSUME NEW f \in Files, NEW code \in Codes, NEW id \in Nat, NEW verdict \in Verdicts, Dispatch(f, code, id, verdict) PROVE ContextOK' /\ ThreadsOK' /\ EnvironmentOK'
  BY <1>4 DEF Dispatch, Call
<1>5. ASSUME Prepare PROVE ContextOK' /\ ThreadsOK' /\ EnvironmentOK'
  BY <1>5 DEF Prepare
<1>6. ASSUME ReleaseStopTimer PROVE ContextOK' /\ ThreadsOK' /\ EnvironmentOK'
  BY <1>6 DEF ReleaseStopTimer
<1>7. ASSUME NEW h \in Handles, NEW k \in Kinds, HidOperation(h, k) PROVE ContextOK' /\ ThreadsOK' /\ EnvironmentOK'
  BY <1>7 DEF HidOperation, Validate, Status
<1>8. ASSUME NEW s \in Slots, DeadlinePasses(s) PROVE ContextOK' /\ ThreadsOK' /\ EnvironmentOK'
  BY <1>8, MarkedEntry DEF DeadlinePasses, Used
<1>9. ASSUME IoctlAcquire PROVE ContextOK' /\ ThreadsOK' /\ EnvironmentOK'
  BY <1>9 DEF IoctlAcquire, Lock
<1>10. ASSUME NEW f \in Files, FileCleanup(f) PROVE ContextOK' /\ ThreadsOK' /\ EnvironmentOK'
  BY <1>10 DEF FileCleanup, Lock
<1>11. ASSUME ReleaseAcquire PROVE ContextOK' /\ ThreadsOK' /\ EnvironmentOK'
  BY <1>11 DEF ReleaseAcquire, Lock
<1>12. ASSUME Start PROVE ContextOK' /\ ThreadsOK' /\ EnvironmentOK'
  BY <1>12 DEF Start
<1>13. ASSUME Claim PROVE ContextOK' /\ ThreadsOK' /\ EnvironmentOK'
  BY <1>13 DEF Claim, Call
<1>14. ASSUME VhfCreate PROVE ContextOK' /\ ThreadsOK' /\ EnvironmentOK'
  BY <1>14 DEF VhfCreate
<1>15. ASSUME Publish PROVE ContextOK' /\ ThreadsOK' /\ EnvironmentOK'
  BY <1>15 DEF Publish
<1>16. ASSUME VhfStart PROVE ContextOK' /\ ThreadsOK' /\ EnvironmentOK'
  BY <1>16 DEF VhfStart
<1>17. ASSUME Input PROVE ContextOK' /\ ThreadsOK' /\ EnvironmentOK'
  <2>1. CASE count = Cap
    BY <1>17, <2>1 DEF Input
  <2>2. CASE count # Cap
    <3>1. /\ accepted' = accepted + 1 /\ count' = count + 1
          /\ inputs' = [inputs EXCEPT ![(head + count) % Cap] = accepted + 1]
      BY <1>17, <2>2 DEF Input
    <3>2. UNCHANGED <<session, flow, table, head, locks, completing, report, hid, taken>>
      BY <1>17 DEF Input
    <3>3. count' \in 0 .. Cap /\ accepted' \in Nat /\ inputs' \in [0 .. Cap - 1 -> Nat]
      BY <2>2, <3>1
    <3> QED BY <3>2, <3>3
  <2> QED BY <2>1, <2>2
<1>18. ASSUME NEW t \in Pumper, PumpEnter(t) PROVE ContextOK' /\ ThreadsOK' /\ EnvironmentOK'
  BY <1>18 DEF PumpEnter, AfterPump
<1>19. ASSUME NEW t \in Pumper, PumpLeave(t) PROVE ContextOK' /\ ThreadsOK' /\ EnvironmentOK'
  BY <1>19 DEF PumpLeave, AfterPump
<1>20. ASSUME NEW t \in Pumper, PumpTake(t) PROVE ContextOK' /\ ThreadsOK' /\ EnvironmentOK'
  <2>1. ~NothingToPump /\ count \in 1 .. Cap
    BY <1>20 DEF PumpTake, NothingToPump
  <2>2. (head + 1) % Cap \in 0 .. Cap - 1 /\ count - 1 \in 0 .. Cap
    BY <2>1
  <2>3. inputs[head] \in Nat
    OBVIOUS
  <2> QED BY <1>20, <2>2, <2>3 DEF PumpTake
<1>21. ASSUME NEW t \in Pumper, PumpAbandon(t) PROVE ContextOK' /\ ThreadsOK' /\ EnvironmentOK'
  BY <1>21 DEF PumpAbandon, AfterPump
<1>22. ASSUME NEW t \in Pumper, SubmitAccepted(t) PROVE ContextOK' /\ ThreadsOK' /\ EnvironmentOK'
  BY <1>22 DEF SubmitAccepted
<1>23. ASSUME NEW t \in Pumper, SubmitFailed(t) PROVE ContextOK' /\ ThreadsOK' /\ EnvironmentOK'
  BY <1>23 DEF SubmitFailed
<1>24. ASSUME NEW t \in Pumper, SubmitReturns(t) PROVE ContextOK' /\ ThreadsOK' /\ EnvironmentOK'
  BY <1>24 DEF SubmitReturns
<1>25. ASSUME NoMoreEntries PROVE ContextOK' /\ ThreadsOK' /\ EnvironmentOK'
  BY <1>25 DEF NoMoreEntries
<1>26. ASSUME NEW s \in Slots, Deliver(s) PROVE ContextOK' /\ ThreadsOK' /\ EnvironmentOK'
  <2>1. /\ requests' = [requests EXCEPT ![s].delivered = TRUE]
        /\ lastPolled' = requests[s].id
        /\ UNCHANGED <<session, flow, next_id, ring, locks, completing, report, hid, counts>>
    BY <1>26 DEF Deliver
  <2>2. requests[s].id \in Nat
    BY DEF Request
  <2>3. requests' \in [Slots -> Request]
    BY <2>1, MarkedEntry
  <2> QED BY <2>1, <2>2, <2>3
<1>27. ASSUME NEW s \in Slots, Reply(s) PROVE ContextOK' /\ ThreadsOK' /\ EnvironmentOK'
  <2>1. requests[s] \in Request /\ requests[s].handle \in Handles
    BY <1>27 DEF Reply, Answers, Used, Request
  <2>2. Completion(requests[s]) \in Status
    BY DEF Completion, Status
  <2>3. Empty \in Request
    BY DEF Empty, Request
  <2>4. /\ requests' = [requests EXCEPT ![s] = Empty]
        /\ completing' = [completing EXCEPT
                            !["ioctl"] = {<<requests[s].handle, Completion(requests[s])>>}]
        /\ filled' \subseteq filled \cup {requests[s].handle}
        /\ UNCHANGED <<session, flow, next_id, ring, locks, report, vhfState, op,
                       want, credit, lastPolled, counts>>
    BY <1>27 DEF Reply
  <2> QED BY <2>1, <2>2, <2>3, <2>4
<1>28. ASSUME ReplyNotFound PROVE ContextOK' /\ ThreadsOK' /\ EnvironmentOK'
  BY <1>28 DEF ReplyNotFound
<1>29. ASSUME ReplyCompleted PROVE ContextOK' /\ ThreadsOK' /\ EnvironmentOK'
  BY <1>29 DEF ReplyCompleted
<1>30. ASSUME NEW w \in Worker, DestroyStop(w) PROVE ContextOK' /\ ThreadsOK' /\ EnvironmentOK'
  BY <1>30 DEF DestroyStop
<1>31. ASSUME NEW w \in Worker, DestroyExpire(w) PROVE ContextOK' /\ ThreadsOK' /\ EnvironmentOK'
  BY <1>31 DEF DestroyExpire, Expire, Used, Request, Empty, Status
<1>32. ASSUME NEW w \in Worker, DestroyDelete(w) PROVE ContextOK' /\ ThreadsOK' /\ EnvironmentOK'
  BY <1>32 DEF DestroyDelete
<1>33. ASSUME NEW w \in Worker, VhfDeleted(w) PROVE ContextOK' /\ ThreadsOK' /\ EnvironmentOK'
  BY <1>33 DEF VhfDeleted
<1>34. ASSUME NEW w \in Worker, DestroyReset(w) PROVE ContextOK' /\ ThreadsOK' /\ EnvironmentOK'
  BY <1>34 DEF DestroyReset, AfterDestroy
<1>35. ASSUME NEW t \in Thread, Complete(t) PROVE ContextOK' /\ ThreadsOK' /\ EnvironmentOK'
  BY <1>35 DEF Complete
<1>36. ASSUME NEW w \in Worker, Finish(w) PROVE ContextOK' /\ ThreadsOK' /\ EnvironmentOK'
  BY <1>36 DEF Finish, NoCall, Call
<1>37. ASSUME ReleaseTimerStopped PROVE ContextOK' /\ ThreadsOK' /\ EnvironmentOK'
  BY <1>37 DEF ReleaseTimerStopped
<1>38. ASSUME ReleaseClose PROVE ContextOK' /\ ThreadsOK' /\ EnvironmentOK'
  BY <1>38 DEF ReleaseClose
<1>39. ASSUME NEW h \in Handles, Refuse(h) PROVE ContextOK' /\ ThreadsOK' /\ EnvironmentOK'
  BY <1>39 DEF Refuse, Status
<1>40. ASSUME NEW h \in Handles, NEW s \in Slots, Accept(h, s) PROVE ContextOK' /\ ThreadsOK' /\ EnvironmentOK'
  BY <1>40 DEF Accept, Request, Marshalled
<1>41. ASSUME Tick PROVE ContextOK' /\ ThreadsOK' /\ EnvironmentOK'
  BY <1>41 DEF Tick, Expire, Used, Request, Empty, Status
<1>42. ASSUME VhfReady PROVE ContextOK' /\ ThreadsOK' /\ EnvironmentOK'
  BY <1>42 DEF VhfReady
<1>43. ASSUME Ready PROVE ContextOK' /\ ThreadsOK' /\ EnvironmentOK'
  BY <1>43 DEF Ready
<1>44. ASSUME VhfStartReturns PROVE ContextOK' /\ ThreadsOK' /\ EnvironmentOK'
  BY <1>44 DEF VhfStartReturns
<1> QED
  BY StepCases, <1>1, <1>2, <1>3, <1>4, <1>5, <1>6, <1>7, <1>8, <1>9, <1>10, <1>11,
         <1>12, <1>13, <1>14, <1>15, <1>16, <1>17, <1>18, <1>19,
         <1>20, <1>21, <1>22, <1>23, <1>24, <1>25, <1>26, <1>27,
         <1>28, <1>29, <1>30, <1>31, <1>32, <1>33, <1>34, <1>35,
         <1>36, <1>37, <1>38, <1>39, <1>40, <1>41, <1>42, <1>43, <1>44
  DEF Step

(* The freshly added device: nothing owned, nothing pending, nothing held. *)
LEMMA InitType == Init => TypeOK
<1> SUFFICES ASSUME Init PROVE TypeOK
  OBVIOUS
<1> USE DEF Init
<1>1. pc \in [Thread -> Labels]
  BY DEF Labels
<1>2. FlagsOK
  BY Zenon DEF FlagsOK
<1>3. ContextOK
  <2>1. Empty \in Request
    BY DEF Empty, Request
  <2>2. requests \in [Slots -> Request]
    BY <2>1
  <2>3. inputs \in [0 .. Cap - 1 -> Nat] /\ head \in 0 .. Cap - 1 /\ count \in 0 .. Cap
    BY HidAssumption
  <2> QED BY <2>2, <2>3 DEF ContextOK
<1>4. ThreadsOK
  <2>1. NoCall \in Call
    BY HidAssumption DEF NoCall, Call
  <2> QED BY <2>1 DEF ThreadsOK
<1>5. EnvironmentOK
  BY DEF EnvironmentOK
<1> QED
  BY <1>1, <1>2, <1>3, <1>4, <1>5 DEF TypeOK

(* Whatever the brokers, VHF, the HID stack, the clock and plug and play   *)
(* do, the driver's context stays well typed: the ring's indices and count *)
(* stay inside the ring, the table holds entries, the owner is a file.     *)
THEOREM TypeCorrect == Spec => []TypeOK
<1>1. Init => TypeOK
  BY InitType
<1>2. TypeOK /\ [Next]_vars => TypeOK'
  BY PcType, FlagsType, DataType DEF TypeOK
<1> QED
  BY <1>1, <1>2, PTL DEF Spec
-----------------------------------------------------------------------------
(* What is in the hands of a thread: the callback that brings an operation *)
(* holds only that operation, and a worker holds operations only while it  *)
(* completes them.                                                         *)
Hands ==
  /\ \A h \in Handles : \A c \in completing[h] : c[1] = h
  /\ \A w \in Worker : completing[w] # {} => pc[w] \in {"cancel", "answer"}

HoldersInv == TypeOK /\ Hands /\ ExactlyOneHolder

(* A step of a thread that holds no operation, and that moves no operation *)
(* from one place to another, disturbs no operation's holder.              *)
LEMMA QuietStep ==
  ASSUME HoldersInv, NEW t \in Thread \ Handles, NEW l, Goto(t, l),
         t \in Worker => completing[t] = {},
         op' = op, completing' = completing,
         \A s \in Slots : requests'[s].handle = requests[s].handle
  PROVE  (Hands /\ ExactlyOneHolder)'
<1>1. \A u \in Thread \ {t} : pc'[u] = pc[u]
  BY DEF Goto, HoldersInv, TypeOK
<1>2. \A h \in Handles : pc'[h] = pc[h]
  BY <1>1 DEF Thread
<1>3. \A h \in Handles : Registered(h)' = Registered(h) /\ Completing(h)' = Completing(h)
  BY DEF Registered, Completing
<1>4. Used' = Used
  BY DEF Used
<1>5. Hands'
  BY <1>1 DEF HoldersInv, Hands, Thread, Worker
<1>6. ASSUME NEW h \in Handles PROVE OneHolder(h)'
  BY <1>2, <1>3 DEF HoldersInv, ExactlyOneHolder, OneHolder
<1>7. OneEntryEach'
  BY <1>4 DEF HoldersInv, ExactlyOneHolder, OneEntryEach, Used
<1>8. OneHandEach'
  BY DEF HoldersInv, ExactlyOneHolder, OneHandEach
<1> QED
  BY <1>5, <1>6, <1>7, <1>8 DEF ExactlyOneHolder

(* The actions that move an operation from one holder to the next.         *)
Moving ==
  \/ \E h \in Handles, k \in Kinds : HidOperation(h, k)
  \/ \E h \in Handles : Refuse(h)
  \/ \E h \in Handles, s \in Slots : Accept(h, s)
  \/ \E s \in Slots : Reply(s)
  \/ \E w \in Worker : DestroyExpire(w)
  \/ Tick
  \/ \E t \in Thread : Complete(t)

(* All the other actions leave every operation where it is.                *)
LEMMA QuietActions ==
  ASSUME HoldersInv, Step
  PROVE  \/ (Hands /\ ExactlyOneHolder)'
         \/ Moving
<1> USE HidAssumption DEF HoldersInv, Hands, Thread, Worker, Pumper,
        ctx, ring, session, flow, table, locks, hid, counts
<1>1. ASSUME NEW f \in Files, FileCreate(f) PROVE (Hands /\ ExactlyOneHolder)'
  BY <1>1, QuietStep DEF FileCreate
<1>2. ASSUME NEW f \in Files, FileClose(f) PROVE (Hands /\ ExactlyOneHolder)'
  BY <1>2, QuietStep DEF FileClose
<1>3. ASSUME NEW f \in Files, NEW code \in Codes, NEW id \in Nat,
            NEW verdict \in Verdicts,
            Dispatch(f, code, id, verdict) PROVE (Hands /\ ExactlyOneHolder)'
  BY <1>3, QuietStep DEF Dispatch
<1>4. ASSUME ReleaseStopTimer PROVE (Hands /\ ExactlyOneHolder)'
  BY <1>4, QuietStep DEF ReleaseStopTimer
<1>5. ASSUME IoctlAcquire PROVE (Hands /\ ExactlyOneHolder)'
  BY <1>5, QuietStep DEF IoctlAcquire, Lock
<1>6. ASSUME NEW f \in Files, FileCleanup(f) PROVE (Hands /\ ExactlyOneHolder)'
  BY <1>6, QuietStep DEF FileCleanup, Lock
<1>7. ASSUME ReleaseAcquire PROVE (Hands /\ ExactlyOneHolder)'
  BY <1>7, QuietStep DEF ReleaseAcquire, Lock
<1>8. ASSUME Start PROVE (Hands /\ ExactlyOneHolder)'
  BY <1>8, QuietStep DEF Start
<1>9. ASSUME Claim PROVE (Hands /\ ExactlyOneHolder)'
  BY <1>9, QuietStep DEF Claim
<1>10. ASSUME VhfCreate PROVE (Hands /\ ExactlyOneHolder)'
  BY <1>10, QuietStep DEF VhfCreate
<1>11. ASSUME Publish PROVE (Hands /\ ExactlyOneHolder)'
  BY <1>11, QuietStep DEF Publish
<1>12. ASSUME VhfStart PROVE (Hands /\ ExactlyOneHolder)'
  BY <1>12, QuietStep DEF VhfStart
<1>13. ASSUME Input PROVE (Hands /\ ExactlyOneHolder)'
  BY <1>13, QuietStep DEF Input
<1>14. ASSUME NEW t \in Pumper, PumpEnter(t) PROVE (Hands /\ ExactlyOneHolder)'
  BY <1>14, QuietStep DEF PumpEnter
<1>15. ASSUME NEW t \in Pumper, PumpLeave(t) PROVE (Hands /\ ExactlyOneHolder)'
  BY <1>15, QuietStep DEF PumpLeave
<1>16. ASSUME NEW t \in Pumper, PumpTake(t) PROVE (Hands /\ ExactlyOneHolder)'
  BY <1>16, QuietStep DEF PumpTake
<1>17. ASSUME NEW t \in Pumper, PumpAbandon(t) PROVE (Hands /\ ExactlyOneHolder)'
  BY <1>17, QuietStep DEF PumpAbandon
<1>18. ASSUME NEW t \in Pumper, SubmitAccepted(t) PROVE (Hands /\ ExactlyOneHolder)'
  BY <1>18, QuietStep DEF SubmitAccepted
<1>19. ASSUME NEW t \in Pumper, SubmitFailed(t) PROVE (Hands /\ ExactlyOneHolder)'
  BY <1>19, QuietStep DEF SubmitFailed
<1>20. ASSUME NEW t \in Pumper, SubmitReturns(t) PROVE (Hands /\ ExactlyOneHolder)'
  BY <1>20, QuietStep DEF SubmitReturns
<1>21. ASSUME NoMoreEntries PROVE (Hands /\ ExactlyOneHolder)'
  BY <1>21, QuietStep DEF NoMoreEntries
<1>22. ASSUME ReplyNotFound PROVE (Hands /\ ExactlyOneHolder)'
  BY <1>22, QuietStep DEF ReplyNotFound
<1>23. ASSUME ReplyCompleted PROVE (Hands /\ ExactlyOneHolder)'
  BY <1>23, QuietStep DEF ReplyCompleted
<1>24. ASSUME NEW w \in Worker, DestroyStop(w) PROVE (Hands /\ ExactlyOneHolder)'
  BY <1>24, QuietStep DEF DestroyStop
<1>25. ASSUME NEW w \in Worker, DestroyDelete(w) PROVE (Hands /\ ExactlyOneHolder)'
  BY <1>25, QuietStep DEF DestroyDelete
<1>26. ASSUME NEW w \in Worker, VhfDeleted(w) PROVE (Hands /\ ExactlyOneHolder)'
  BY <1>26, QuietStep DEF VhfDeleted
<1>27. ASSUME NEW w \in Worker, DestroyReset(w) PROVE (Hands /\ ExactlyOneHolder)'
  BY <1>27, QuietStep DEF DestroyReset
<1>28. ASSUME NEW w \in Worker, Finish(w) PROVE (Hands /\ ExactlyOneHolder)'
  BY <1>28, QuietStep DEF Finish
<1>29. ASSUME ReleaseTimerStopped PROVE (Hands /\ ExactlyOneHolder)'
  BY <1>29, QuietStep DEF ReleaseTimerStopped
<1>30. ASSUME ReleaseClose PROVE (Hands /\ ExactlyOneHolder)'
  BY <1>30, QuietStep DEF ReleaseClose
<1>31. ASSUME VhfReady PROVE (Hands /\ ExactlyOneHolder)'
  BY <1>31, QuietStep DEF VhfReady
<1>32. ASSUME Ready PROVE (Hands /\ ExactlyOneHolder)'
  BY <1>32, QuietStep DEF Ready
<1>33. CASE UNCHANGED vars
  BY <1>33 DEF vars, ExactlyOneHolder, OneHolder, OneEntryEach,
         OneHandEach, Registered, Completing, Used
<1>34. CASE Prepare
  BY <1>34 DEF Prepare, ExactlyOneHolder, OneHolder, OneEntryEach,
         OneHandEach, Registered, Completing, Used
<1>35. ASSUME NEW s \in Slots, DeadlinePasses(s) PROVE (Hands /\ ExactlyOneHolder)'
  BY <1>35 DEF DeadlinePasses, TypeOK, ContextOK, ExactlyOneHolder, OneHolder, OneEntryEach,
         OneHandEach, Registered, Completing, Used
<1>36. ASSUME NEW s \in Slots, Deliver(s) PROVE (Hands /\ ExactlyOneHolder)'
  <2>1. requests' = [requests EXCEPT ![s].delivered = TRUE]
    BY <1>36 DEF Deliver
  <2>2. \A r \in Slots : requests'[r].handle = requests[r].handle
    BY <2>1 DEF TypeOK, ContextOK
  <2> QED BY <1>36, <2>2, QuietStep DEF Deliver
<1>37. ASSUME VhfStartReturns PROVE (Hands /\ ExactlyOneHolder)'
  BY <1>37, QuietStep DEF VhfStartReturns
<1> QED
  BY <1>1, <1>2, <1>3, <1>4, <1>5, <1>6, <1>7, <1>8, <1>9, <1>10, <1>11,
     <1>12, <1>13, <1>14, <1>15, <1>16, <1>17, <1>18, <1>19, <1>20, <1>21,
     <1>22, <1>23, <1>24, <1>25, <1>26, <1>27, <1>28, <1>29, <1>30, <1>31,
     <1>32, <1>33, <1>34, <1>35, <1>36, <1>37 DEF Step, Moving

(* A thread with empty hands that takes operations which no other thread   *)
(* is completing becomes the one that completes them.                      *)
LEMMA HandOver ==
  ASSUME HoldersInv, NEW t \in Thread, completing[t] = {}, NEW X,
         completing' = [completing EXCEPT ![t] = X],
         \A c, d \in X : c[1] = d[1] => c = d,
         \A c \in X : c[1] \in Handles /\ ~Completing(c[1])
  PROVE  /\ \A g \in Handles :
              Completing(g)' <=> Completing(g) \/ \E c \in X : c[1] = g
         /\ OneHandEach'
<1>1. /\ completing'[t] = X
      /\ \A u \in Thread \ {t} : completing'[u] = completing[u]
  BY DEF HoldersInv, TypeOK, ThreadsOK
<1>2. ASSUME NEW g \in Handles
      PROVE  Completing(g)' <=> Completing(g) \/ \E c \in X : c[1] = g
  BY <1>1 DEF Completing
<1>3. OneHandEach'
  <2> SUFFICES ASSUME NEW u \in Thread, NEW v \in Thread,
                      NEW c \in completing'[u], NEW d \in completing'[v],
                      c[1] = d[1]
               PROVE  u = v /\ c = d
    BY DEF OneHandEach
  <2>1. CASE u = t /\ v = t
    BY <1>1, <2>1
  <2>2. CASE u # t /\ v # t
    BY <1>1, <2>2 DEF HoldersInv, ExactlyOneHolder, OneHandEach
  <2>3. CASE u = t /\ v # t
    BY <1>1, <2>3 DEF Completing
  <2>4. CASE u # t /\ v = t
    BY <1>1, <2>4 DEF Completing
  <2> QED BY <2>1, <2>2, <2>3, <2>4
<1> QED
  BY <1>2, <1>3

(* Entries that expire are handed to the thread that expires them.         *)
LEMMA ExpireStep ==
  ASSUME HoldersInv, NEW t \in Thread \ Handles, completing[t] = {},
         NEW S \in SUBSET Used, NEW status, Expire(t, S, status),
         op' = op, \A h \in Handles : pc'[h] = pc[h],
         \A w \in Worker : pc'[w] = pc[w] \/ (w = t /\ pc'[w] = "cancel"),
         t \in Worker => pc'[t] = "cancel"
  PROVE  (Hands /\ ExactlyOneHolder)'
<1> DEFINE X == {<<requests[s].handle, status>> : s \in S}
<1>1. /\ requests' = [s \in Slots |-> IF s \in S THEN Empty ELSE requests[s]]
      /\ completing' = [completing EXCEPT ![t] = X]
  BY DEF Expire
<1>2. \A s \in Slots : requests[s].handle \in Handles \cup {NULL}
  BY DEF HoldersInv, TypeOK, ContextOK, Request
<1>3. \A s \in Used : Registered(requests[s].handle) /\ requests[s].handle \in Handles
  BY <1>2 DEF Used, Registered
<1>4. \A c \in X : c[1] \in Handles /\ ~Completing(c[1])
  BY <1>3 DEF HoldersInv, ExactlyOneHolder, OneHolder
<1>5. \A c, d \in X : c[1] = d[1] => c = d
  OBVIOUS
<1>6. /\ \A g \in Handles : Completing(g)' <=> Completing(g) \/ \E c \in X : c[1] = g
      /\ OneHandEach'
  <2> HIDE DEF X
  <2> QED BY <1>1, <1>4, <1>5, HandOver
<1>7. Used' = Used \ S
  BY <1>1 DEF Used, Empty
<1>8. \A s \in Used' : s \in Used /\ requests'[s] = requests[s]
  BY <1>1, <1>7 DEF Used
<1>9. OneEntryEach'
  BY <1>8 DEF OneEntryEach, HoldersInv, ExactlyOneHolder
<1>10. ASSUME NEW g \in Handles PROVE OneHolder(g)'
  <2>1. (\E c \in X : c[1] = g) <=> \E s \in S : requests[s].handle = g
    <3>1. \A s \in S : <<requests[s].handle, status>> \in X
      OBVIOUS
    <3>2. \A c \in X : \E s \in S : c = <<requests[s].handle, status>>
      OBVIOUS
    <3>3. \A s \in S : <<requests[s].handle, status>>[1] = requests[s].handle
      OBVIOUS
    <3>4. ASSUME NEW c \in X, c[1] = g PROVE \E s \in S : requests[s].handle = g
      BY <3>2, <3>4
    <3>5. ASSUME NEW s \in S, requests[s].handle = g PROVE \E c \in X : c[1] = g
      BY <3>1, <3>3, <3>5
    <3> QED BY <3>4, <3>5
  <2>2. Registered(g)' <=> Registered(g) /\ ~ \E s \in S : requests[s].handle = g
    <3>1. Registered(g)' <=> \E s \in Used' : requests'[s].handle = g
      BY HidAssumption, <1>7 DEF Registered, Used
    <3>2. Registered(g) <=> \E s \in Used : requests[s].handle = g
      BY HidAssumption DEF Registered, Used
    <3> QED BY <1>7, <1>8, <3>1, <3>2 DEF HoldersInv, ExactlyOneHolder, OneEntryEach
  <2>3. (\E s \in S : requests[s].handle = g) => Registered(g)
    BY DEF Registered, Used
  <2> HIDE DEF X
  <2> QED BY <1>6, <2>1, <2>2, <2>3 DEF HoldersInv, ExactlyOneHolder, OneHolder
<1>11. Hands'
  BY <1>1 DEF Hands, HoldersInv, TypeOK, ThreadsOK, Thread, Worker
<1> QED
  BY <1>6, <1>9, <1>10, <1>11 DEF ExactlyOneHolder

(* A new operation is held by the callback that brings it, or, when the    *)
(* report is refused at once, by that callback on its way to completion.   *)
LEMMA HidOperationHolders ==
  ASSUME HoldersInv, NEW h \in Handles, NEW k \in Kinds, HidOperation(h, k)
  PROVE  (Hands /\ ExactlyOneHolder)'
<1>1. op[h] = "none" /\ op' = [op EXCEPT ![h] = k] /\ requests' = requests
  BY DEF HidOperation, ctx
<1>2. pc[h] = "idle" /\ ~Registered(h) /\ ~Completing(h)
  BY <1>1 DEF HoldersInv, ExactlyOneHolder, OneHolder
<1>3. completing[h] = {} /\ h \in Thread
  BY <1>2 DEF HoldersInv, Hands, Completing, Thread
<1>4. k # "none" /\ op'[h] = k /\ \A g \in Handles \ {h} : op'[g] = op[g]
  BY <1>1, HidAssumption DEF HoldersInv, TypeOK, EnvironmentOK
<1>5. Used' = Used /\ OneEntryEach' /\ \A g \in Handles : Registered(g)' = Registered(g)
  BY <1>1 DEF HoldersInv, ExactlyOneHolder, OneEntryEach, Used, Registered
<1>6. CASE Validate(k) = "valid"
  <2>1. completing' = completing /\ Goto(h, "enqueue")
    BY <1>6 DEF HidOperation
  <2>2. pc'[h] = "enqueue" /\ \A t \in Thread \ {h} : pc'[t] = pc[t]
    BY <2>1, <1>3 DEF Goto, HoldersInv, TypeOK
  <2>3. OneHandEach' /\ \A g \in Handles : Completing(g)' = Completing(g)
    BY <2>1 DEF HoldersInv, ExactlyOneHolder, OneHandEach, Completing
  <2>4. ASSUME NEW g \in Handles PROVE OneHolder(g)'
    <3>1. CASE g = h
      BY <3>1, <1>2, <1>4, <1>5, <2>2, <2>3 DEF OneHolder
    <3>2. CASE g # h
      BY <3>2, <1>4, <1>5, <2>2, <2>3 DEF OneHolder, HoldersInv, ExactlyOneHolder, Thread
    <3> QED BY <3>1, <3>2
  <2>5. Hands'
    BY <2>1, <2>2, HidAssumption DEF HoldersInv, Hands, Thread, Worker
  <2> QED BY <1>5, <2>3, <2>4, <2>5 DEF ExactlyOneHolder
<1>7. CASE Validate(k) # "valid"
  <2> DEFINE X == {<<h, Validate(k)>>}
  <2>1. completing' = [completing EXCEPT ![h] = X] /\ pc' = pc
    BY <1>7 DEF HidOperation
  <2>2. /\ \A c \in X : c[1] = h
        /\ \E c \in X : c[1] = h
        /\ \A c, d \in X : c = d
    OBVIOUS
  <2> HIDE DEF X
  <2>3. /\ \A g \in Handles : Completing(g)' <=> Completing(g) \/ \E c \in X : c[1] = g
        /\ OneHandEach'
    <3>1. \A c \in X : c[1] \in Handles /\ ~Completing(c[1])
      BY <1>2, <2>2
    <3>2. \A c, d \in X : c[1] = d[1] => c = d
      BY <2>2
    <3> QED BY <1>3, <2>1, <3>1, <3>2, HandOver
  <2>4. ASSUME NEW g \in Handles PROVE OneHolder(g)'
    <3>1. CASE g = h
      BY <3>1, <1>2, <1>4, <1>5, <2>1, <2>2, <2>3 DEF OneHolder
    <3>2. CASE g # h
      <4>1. Completing(g)' <=> Completing(g)
        BY <3>2, <2>2, <2>3
      <4> QED BY <3>2, <4>1, <1>4, <1>5, <2>1 DEF OneHolder, HoldersInv, ExactlyOneHolder
    <3> QED BY <3>1, <3>2
  <2>5. Hands'
    <3>1. completing'[h] = X /\ \A t \in Thread \ {h} : completing'[t] = completing[t]
      BY <2>1, <1>3 DEF HoldersInv, TypeOK, ThreadsOK
    <3>2. Worker \subseteq Thread \ {h}
      BY HidAssumption DEF Worker, Thread
    <3>3. Handles \subseteq Thread
      BY DEF Thread
    <3> QED BY <2>1, <2>2, <3>1, <3>2, <3>3 DEF HoldersInv, Hands
  <2> QED BY <1>5, <2>3, <2>4, <2>5 DEF ExactlyOneHolder
<1> QED
  BY <1>6, <1>7

(* A refused operation stays with its callback, which completes it.        *)
LEMMA RefuseHolders ==
  ASSUME HoldersInv, NEW h \in Handles, Refuse(h)
  PROVE  (Hands /\ ExactlyOneHolder)'
<1> DEFINE status == IF stopping \/ owner = NULL THEN "DEVICE_NOT_READY"
                                                ELSE "DEVICE_BUSY"
           X == {<<h, status>>}
<1>1. /\ completing' = [completing EXCEPT ![h] = X]
      /\ \A c \in X : c[1] = h
      /\ \E c \in X : c[1] = h
      /\ \A c, d \in X : c = d
  <2>1. completing' = [completing EXCEPT ![h] = X]
    BY DEF Refuse
  <2> HIDE DEF status
  <2> QED BY <2>1
<1> HIDE DEF X
<1>2. pc[h] = "enqueue" /\ Goto(h, "idle") /\ requests' = requests /\ op' = op
  BY DEF Refuse, ctx, hid
<1>3. op[h] # "none" /\ ~Registered(h) /\ ~Completing(h)
  BY <1>2 DEF HoldersInv, ExactlyOneHolder, OneHolder
<1>4. completing[h] = {} /\ h \in Thread
  BY <1>3 DEF HoldersInv, Hands, Completing, Thread
<1>5. pc'[h] = "idle" /\ \A t \in Thread \ {h} : pc'[t] = pc[t]
  BY <1>2, <1>4 DEF Goto, HoldersInv, TypeOK
<1>6. OneEntryEach' /\ \A g \in Handles : Registered(g)' = Registered(g)
  BY <1>2 DEF HoldersInv, ExactlyOneHolder, OneEntryEach, Used, Registered
<1>7. /\ \A g \in Handles : Completing(g)' <=> Completing(g) \/ \E c \in X : c[1] = g
      /\ OneHandEach'
  BY <1>1, <1>3, <1>4, HandOver
<1>8. ASSUME NEW g \in Handles PROVE OneHolder(g)'
  BY <1>1, <1>2, <1>3, <1>5, <1>6, <1>7
  DEF OneHolder, HoldersInv, ExactlyOneHolder, Thread
<1>9. Hands'
  BY <1>1, <1>4, <1>5, HidAssumption
  DEF HoldersInv, Hands, TypeOK, ThreadsOK, Thread, Worker
<1> QED
  BY <1>6, <1>7, <1>8, <1>9 DEF ExactlyOneHolder

(* An accepted operation passes from its callback to one free entry.       *)
LEMMA AcceptHolders ==
  ASSUME HoldersInv, NEW h \in Handles, NEW s \in Slots, Accept(h, s)
  PROVE  (Hands /\ ExactlyOneHolder)'
<1>1. /\ pc[h] = "enqueue" /\ Goto(h, "idle") /\ op' = op /\ completing' = completing
      /\ s \notin Used
  BY DEF Accept, hid
<1>2. op[h] # "none" /\ ~Registered(h) /\ ~Completing(h)
  BY <1>1 DEF HoldersInv, ExactlyOneHolder, OneHolder
<1>3. requests'[s].handle = h /\ \A r \in Slots \ {s} : requests'[r] = requests[r]
  BY DEF Accept, HoldersInv, TypeOK, ContextOK
<1>4. requests[s].handle = NULL /\ h # NULL
  BY <1>1, HidAssumption DEF Used
<1>5. pc'[h] = "idle" /\ \A t \in Thread \ {h} : pc'[t] = pc[t]
  BY <1>1 DEF Goto, HoldersInv, TypeOK, Thread
<1>6. Registered(h)' /\ \A g \in Handles \ {h} : Registered(g)' <=> Registered(g)
  BY <1>3, <1>4, HidAssumption DEF Registered
<1>7. OneEntryEach'
  <2>1. Used' = Used \cup {s}
    BY <1>3, <1>4 DEF Used
  <2>2. \A r \in Used : requests'[r] = requests[r] /\ requests[r].handle # h
    BY <1>1, <1>2, <1>3 DEF Used, Registered
  <2> QED BY <1>3, <2>1, <2>2 DEF OneEntryEach, HoldersInv, ExactlyOneHolder
<1>8. OneHandEach' /\ \A g \in Handles : Completing(g)' = Completing(g)
  BY <1>1 DEF HoldersInv, ExactlyOneHolder, OneHandEach, Completing
<1>9. ASSUME NEW g \in Handles PROVE OneHolder(g)'
  <2>1. CASE g = h
    BY <2>1, <1>1, <1>2, <1>5, <1>6, <1>8 DEF OneHolder
  <2>2. CASE g # h
    BY <2>2, <1>1, <1>5, <1>6, <1>8 DEF OneHolder, HoldersInv, ExactlyOneHolder, Thread
  <2> QED BY <2>1, <2>2
<1>10. Hands'
  BY <1>1, <1>5, HidAssumption DEF HoldersInv, Hands, Thread, Worker
<1> QED
  BY <1>7, <1>8, <1>9, <1>10 DEF ExactlyOneHolder

(* A reply takes the operation out of its entry and completes it.          *)
LEMMA ReplyHolders ==
  ASSUME HoldersInv, NEW s \in Slots, Reply(s)
  PROVE  (Hands /\ ExactlyOneHolder)'
<1>h. PICK h : h = requests[s].handle
  OBVIOUS
<1> DEFINE X == {<<h, Completion(requests[s])>>}
<1>1. /\ pc["ioctl"] = "reply" /\ Goto("ioctl", "answer") /\ op' = op
      /\ s \in Used
      /\ requests' = [requests EXCEPT ![s] = Empty]
      /\ completing' = [completing EXCEPT !["ioctl"] = X]
  BY <1>h DEF Reply, Answers
<1>2. /\ \A c \in X : c[1] = h
      /\ \E c \in X : c[1] = h
      /\ \A c, d \in X : c = d
  OBVIOUS
<1> HIDE DEF X
<1>3. h \in Handles /\ Registered(h)
  BY <1>h, <1>1 DEF HoldersInv, TypeOK, ContextOK, Request, Used, Registered
<1>4. op[h] # "none" /\ pc[h] = "idle" /\ ~Completing(h)
  BY <1>3 DEF HoldersInv, ExactlyOneHolder, OneHolder
<1>5. completing["ioctl"] = {} /\ "ioctl" \in Thread
  BY <1>1 DEF HoldersInv, Hands, Worker, Thread
<1>6. requests'[s].handle = NULL /\ \A r \in Slots \ {s} : requests'[r] = requests[r]
  BY <1>1 DEF HoldersInv, TypeOK, ContextOK, Empty
<1>7. pc'["ioctl"] = "answer" /\ \A t \in Thread \ {"ioctl"} : pc'[t] = pc[t]
  BY <1>1, <1>5 DEF Goto, HoldersInv, TypeOK
<1>8. OneEntryEach'
  <2>1. Used' = Used \ {s}
    BY <1>6 DEF Used
  <2>2. \A r \in Used' : r \in Used /\ requests'[r] = requests[r]
    BY <1>6, <2>1 DEF Used
  <2> QED BY <2>2 DEF HoldersInv, ExactlyOneHolder, OneEntryEach
<1>9. ~Registered(h)' /\ \A g \in Handles \ {h} : Registered(g)' <=> Registered(g)
  <2>1. h # NULL /\ \A g \in Handles : g # NULL
    BY <1>3, HidAssumption
  <2>2. \A r \in Slots \ {s} : requests[r].handle # h
    <3>1. \A r \in Slots : requests[r].handle = h => r \in Used
      BY <2>1 DEF Used
    <3> QED BY <3>1, <1>h, <1>1 DEF HoldersInv, ExactlyOneHolder, OneEntryEach
  <2>3. ~Registered(h)'
    BY <1>6, <2>1, <2>2 DEF Registered
  <2>4. ASSUME NEW g \in Handles \ {h} PROVE Registered(g)' <=> Registered(g)
    BY <1>h, <1>6, <2>1 DEF Registered
  <2> QED BY <2>3, <2>4
<1>10. /\ \A g \in Handles : Completing(g)' <=> Completing(g) \/ \E c \in X : c[1] = g
       /\ OneHandEach'
  BY <1>1, <1>2, <1>3, <1>4, <1>5, HandOver
<1>11. ASSUME NEW g \in Handles PROVE OneHolder(g)'
  <2>1. pc'[g] = pc[g]
    BY <1>7, HidAssumption DEF Thread
  <2>2. CASE g = h
    <3>1. Completing(g)'
      BY <2>2, <1>2, <1>3, <1>10
    <3>2. ~Registered(g)' /\ op'[g] # "none" /\ pc'[g] = "idle"
      BY <2>1, <2>2, <1>1, <1>4, <1>9
    <3> QED BY <3>1, <3>2 DEF OneHolder
  <2>3. CASE g # h
    <3>1. Completing(g)' <=> Completing(g)
      BY <2>3, <1>2, <1>10
    <3> QED BY <2>1, <2>3, <3>1, <1>1, <1>9 DEF OneHolder, HoldersInv, ExactlyOneHolder
  <2> QED BY <2>2, <2>3
<1>12. Hands'
  <2>1. \A t \in Thread \ {"ioctl"} : completing'[t] = completing[t]
    BY <1>1, <1>5 DEF HoldersInv, TypeOK, ThreadsOK
  <2>2. Handles \subseteq Thread \ {"ioctl"} /\ Worker \subseteq Thread
    BY HidAssumption DEF Worker, Thread
  <2> QED BY <2>1, <2>2, <1>7 DEF HoldersInv, Hands
<1> QED
  BY <1>8, <1>10, <1>11, <1>12 DEF ExactlyOneHolder

(* A completed operation leaves the hands that completed it.               *)
LEMMA CompleteHolders ==
  ASSUME HoldersInv, NEW t \in Thread, Complete(t)
  PROVE  (Hands /\ ExactlyOneHolder)'
<1>1. PICK c \in completing[t] :
        /\ completing' = [completing EXCEPT ![t] = @ \ {c}]
        /\ op' = [op EXCEPT ![c[1]] = "none"]
        /\ UNCHANGED <<requests, pc>>
  BY DEF Complete, ctx
<1>2. c[1] \in Handles /\ Completing(c[1])
  BY DEF HoldersInv, TypeOK, ThreadsOK, Completing
<1>3. /\ completing'[t] = completing[t] \ {c}
      /\ \A u \in Thread \ {t} : completing'[u] = completing[u]
  BY <1>1 DEF HoldersInv, TypeOK, ThreadsOK
<1>4. /\ op'[c[1]] = "none"
      /\ \A g \in Handles \ {c[1]} : op'[g] = op[g]
  BY <1>1, <1>2 DEF HoldersInv, TypeOK, EnvironmentOK
<1>5. \A u \in Thread : completing'[u] \subseteq completing[u]
  BY <1>3
<1>6. ~Completing(c[1])'
  BY <1>3, <1>5 DEF Completing, HoldersInv, ExactlyOneHolder, OneHandEach
<1>7. \A g \in Handles \ {c[1]} : Completing(g)' <=> Completing(g)
  BY <1>3 DEF Completing
<1>8. OneEntryEach' /\ \A g \in Handles : Registered(g)' = Registered(g)
  BY <1>1 DEF HoldersInv, ExactlyOneHolder, OneEntryEach, Used, Registered
<1>9. OneHandEach'
  BY <1>5 DEF HoldersInv, ExactlyOneHolder, OneHandEach
<1>10. ASSUME NEW g \in Handles PROVE OneHolder(g)'
  <2>1. CASE g = c[1]
    BY <2>1, <1>1, <1>2, <1>4, <1>6, <1>8 DEF OneHolder, HoldersInv, ExactlyOneHolder
  <2>2. CASE g # c[1]
    BY <2>2, <1>1, <1>4, <1>7, <1>8 DEF OneHolder, HoldersInv, ExactlyOneHolder
  <2> QED BY <2>1, <2>2
<1>11. Hands'
  BY <1>1, <1>5 DEF HoldersInv, Hands, Worker, Thread
<1> QED
  BY <1>8, <1>9, <1>10, <1>11 DEF ExactlyOneHolder

(* The actions that move an operation move it to exactly one holder.       *)
LEMMA MovingActions ==
  ASSUME HoldersInv, Moving
  PROVE  (Hands /\ ExactlyOneHolder)'
<1>1. ASSUME NEW w \in Worker, DestroyExpire(w)
      PROVE  (Hands /\ ExactlyOneHolder)'
  <2>1. w \in Thread \ Handles
    BY HidAssumption DEF Worker, Thread
  <2>2. pc[w] = "expire" /\ Goto(w, "cancel") /\ Expire(w, Used, "CANCELLED") /\ op' = op
    BY <1>1 DEF DestroyExpire, hid
  <2>3. completing[w] = {}
    BY <2>2 DEF HoldersInv, Hands
  <2>4. pc'[w] = "cancel" /\ \A u \in Thread \ {w} : pc'[u] = pc[u]
    BY <2>1, <2>2 DEF Goto, HoldersInv, TypeOK
  <2>5. /\ \A h \in Handles : pc'[h] = pc[h]
        /\ \A u \in Worker : pc'[u] = pc[u] \/ (u = w /\ pc'[u] = "cancel")
    BY <2>1, <2>4 DEF Worker, Thread
  <2> QED BY <2>1, <2>2, <2>3, <2>4, <2>5, ExpireStep
<1>2. ASSUME Tick PROVE (Hands /\ ExactlyOneHolder)'
  <2>1. "tick" \in Thread \ Handles /\ "tick" \notin Worker
    BY HidAssumption DEF Worker, Thread
  <2> DEFINE overdue == {s \in Used : requests[s].due}
  <2>2. /\ completing["tick"] = {} /\ Expire("tick", overdue, "IO_TIMEOUT")
        /\ op' = op /\ pc' = pc
    BY <1>2 DEF Tick, hid, locks
  <2>3. overdue \in SUBSET Used
    OBVIOUS
  <2> HIDE DEF overdue
  <2> QED BY <2>1, <2>2, <2>3, ExpireStep
<1> QED
  BY <1>1, <1>2, HidOperationHolders, RefuseHolders, AcceptHolders,
     ReplyHolders, CompleteHolders DEF Moving

(* Every operation has one holder, and hands are empty when they take.     *)
LEMMA HoldersAlways == Spec => []HoldersInv
<1>1. Init => Hands /\ ExactlyOneHolder
  BY HidAssumption
  DEF Init, Hands, ExactlyOneHolder, OneHolder, OneEntryEach, OneHandEach,
      Registered, Completing, Used, Empty, Thread, Worker
<1>2. HoldersInv /\ [Next]_vars => (Hands /\ ExactlyOneHolder)'
  BY StepCases, QuietActions, MovingActions
<1>3. TypeOK /\ Hands /\ ExactlyOneHolder /\ [Next]_vars => (Hands /\ ExactlyOneHolder)'
  BY <1>2 DEF HoldersInv
<1> QED
  BY <1>1, <1>3, TypeCorrect, PTL DEF Spec, HoldersInv

(* At every instant each operation that VHF has outstanding has exactly    *)
(* one holder: it is completed once, by one thread, and never after VHF    *)
(* has given its handle to another operation.  The property alone is not   *)
(* inductive: Hands says that a thread which takes operations has none in  *)
(* its hands.                                                              *)
THEOREM HoldersCorrect == Spec => []ExactlyOneHolder
  BY HoldersAlways, PTL DEF HoldersInv

-----------------------------------------------------------------------------
(* The lifetime lock.  A worker is at one of the labels of Held exactly    *)
(* while it owns the lock.                                                 *)
Acting  == {"input", "pump", "take", "submit", "submitted", "failed",
            "poll", "reply", "answer"}
Cleared == {"cancel", "delete", "reset"}
Held    == Acting \cup Cleared
           \cup {"finish", "close", "start", "claim", "vhfcreate", "publish",
                 "vhfstart", "starting", "destroy", "expire"}

LockInv ==
  /\ \A w \in Worker : pc[w] \in Held <=> lifetime = w
  /\ \A w \in Worker : pc[w] \in Cleared \cup {"expire"} => stopping

LifetimeInv == TypeOK /\ LockInv /\ NothingPendingAtDelete /\ OwnedCallStaysOwned

(* A step that neither takes nor gives back the lock, does not change the  *)
(* owner or the call, accepts no operation and does not end stopping.      *)
LEMMA KeepsLock ==
  ASSUME LifetimeInv, NEW t \in Thread, NEW l, Goto(t, l),
         UNCHANGED <<lifetime, owner>>, call' = call \/ pc["ioctl"] \notin Acting,
         stopping => stopping', Used' \subseteq Used,
         t \in Worker => (l \in Held <=> pc[t] \in Held),
         l \in Cleared \cup {"expire"} =>
           pc[t] \in Cleared \cup {"expire"} \/ stopping',
         l \in Cleared => pc[t] \in Cleared \/ Used' = {},
         t = "ioctl" /\ l \in Acting => pc[t] \in Acting
  PROVE  (LockInv /\ NothingPendingAtDelete /\ OwnedCallStaysOwned)'
<1>1. pc'[t] = l /\ \A u \in Thread \ {t} : pc'[u] = pc[u]
  BY DEF Goto, LifetimeInv, TypeOK
<1>2. Worker \subseteq Thread /\ "ioctl" \in Thread
  BY DEF Worker, Thread
<1>3. ASSUME NEW w \in Worker PROVE (pc[w] \in Held <=> lifetime = w)'
  BY <1>1, <1>2 DEF LifetimeInv, LockInv
<1>4. ASSUME NEW w \in Worker, pc'[w] \in Cleared \cup {"expire"} PROVE stopping'
  BY <1>1, <1>2, <1>4 DEF LifetimeInv, LockInv
<1>5. ASSUME NEW w \in Worker, pc'[w] \in Cleared PROVE Used' = {}
  BY <1>1, <1>2, <1>5 DEF LifetimeInv, NothingPendingAtDelete, Cleared
<1>6. pc'["ioctl"] \in Acting => pc["ioctl"] \in Acting
  BY <1>1, <1>2
<1>7. OwnedCallStaysOwned'
  BY <1>6 DEF LifetimeInv, OwnedCallStaysOwned, Acting
<1> QED
  BY <1>3, <1>4, <1>5, <1>7 DEF LockInv, NothingPendingAtDelete, Cleared

(* A worker that takes the lock finds it free, and ioctl goes on to act    *)
(* only for the owner.                                                     *)
LEMMA TakesLock ==
  ASSUME LifetimeInv, NEW w \in Worker, NEW l \in Held, Lock(w, l),
         l \notin Cleared \cup {"expire"},
         w = "ioctl" /\ l \in Acting => owner = call.file
  PROVE  (LockInv /\ NothingPendingAtDelete /\ OwnedCallStaysOwned)'
<1>1. /\ lifetime = NULL /\ lifetime' = w /\ Goto(w, l) /\ w \in Thread
      /\ UNCHANGED <<owner, call, requests>> /\ (stopping' <=> stopping)
  BY DEF Lock, ctx, Worker, Thread
<1>2. pc'[w] = l /\ \A u \in Thread \ {w} : pc'[u] = pc[u]
  BY <1>1 DEF Goto, LifetimeInv, TypeOK
<1>3. Worker \subseteq Thread /\ NULL \notin Worker /\ "ioctl" \in Worker
  BY HidAssumption DEF Worker, Thread
<1>4. \A u \in Worker : pc[u] \notin Held
  BY <1>1, <1>3 DEF LifetimeInv, LockInv
<1>5. \A u \in Worker : pc'[u] \notin Cleared \cup {"expire"}
  BY <1>2, <1>3, <1>4 DEF Held
<1>6. \A u \in Worker : pc'[u] \in Held <=> lifetime' = u
  BY <1>1, <1>2, <1>3, <1>4
<1>7. pc'["ioctl"] \in Acting => owner = call.file
  BY <1>2, <1>3, <1>4 DEF Held
<1> QED
  BY <1>1, <1>5, <1>6, <1>7
  DEF LockInv, NothingPendingAtDelete, OwnedCallStaysOwned, Cleared, Acting

(* The holder of the lock gives it back, or goes on with the owner, the    *)
(* call or stopping changed: nobody else is inside.                        *)
LEMMA HolderActs ==
  ASSUME LifetimeInv, NEW w \in Worker, NEW l, Goto(w, l), pc[w] \in Held,
         lifetime' \in {lifetime, NULL}, l \in Held <=> lifetime' = lifetime,
         l \notin Cleared \cup Acting \cup {"expire"}
  PROVE  (LockInv /\ NothingPendingAtDelete /\ OwnedCallStaysOwned)'
<1>1. w \in Thread /\ Worker \subseteq Thread /\ NULL \notin Worker /\ "ioctl" \in Worker
  BY HidAssumption DEF Worker, Thread
<1>2. pc'[w] = l /\ \A u \in Thread \ {w} : pc'[u] = pc[u]
  BY <1>1 DEF Goto, LifetimeInv, TypeOK
<1>3. lifetime = w /\ \A u \in Worker \ {w} : pc[u] \notin Held
  BY DEF LifetimeInv, LockInv
<1>4. \A u \in Worker : pc'[u] \notin Cleared \cup Acting \cup {"expire"}
  BY <1>1, <1>2, <1>3 DEF Held
<1>5. \A u \in Worker : pc'[u] \in Held <=> lifetime' = u
  BY <1>1, <1>2, <1>3
<1> QED
  BY <1>1, <1>4, <1>5
  DEF LockInv, NothingPendingAtDelete, OwnedCallStaysOwned, Cleared, Acting

(* What a step leaves alone, the lock's invariant does not miss.           *)
LEMMA LockUntouched ==
  ASSUME LifetimeInv, UNCHANGED <<pc, lifetime, owner, call>>,
         stopping' <=> stopping, Used' \subseteq Used
  PROVE  (LockInv /\ NothingPendingAtDelete /\ OwnedCallStaysOwned)'
  BY DEF LifetimeInv, LockInv, NothingPendingAtDelete, OwnedCallStaysOwned


(* Every step keeps the lock's invariant.                                  *)
LEMMA LockSteps ==
  ASSUME LifetimeInv, Step
  PROVE  (LockInv /\ NothingPendingAtDelete /\ OwnedCallStaysOwned)'
<1> DEFINE Goal == LockInv /\ NothingPendingAtDelete /\ OwnedCallStaysOwned
<1> USE HidAssumption DEF Held, Acting, Cleared, Thread, Worker, Pumper, Used,
        ctx, ring, session, flow, table, locks, hid, counts
<1>1. ASSUME NEW f \in Files, FileCreate(f) PROVE Goal'
  BY <1>1, KeepsLock DEF FileCreate
<1>2. ASSUME NEW f \in Files, FileClose(f) PROVE Goal'
  BY <1>2, KeepsLock DEF FileClose
<1>3. ASSUME ReleaseStopTimer PROVE Goal'
  BY <1>3, KeepsLock DEF ReleaseStopTimer
<1>4. ASSUME VhfCreate PROVE Goal'
  BY <1>4, KeepsLock DEF VhfCreate
<1>5. ASSUME Publish PROVE Goal'
  BY <1>5, KeepsLock DEF Publish
<1>6. ASSUME VhfStart PROVE Goal'
  BY <1>6, KeepsLock DEF VhfStart
<1>7. ASSUME Start PROVE Goal'
  BY <1>7, KeepsLock DEF Start
<1>8. ASSUME Input PROVE Goal'
  BY <1>8, KeepsLock DEF Input
<1>9. ASSUME NEW t \in Pumper, PumpEnter(t) PROVE Goal'
  BY <1>9, KeepsLock DEF PumpEnter, AfterPump
<1>10. ASSUME NEW t \in Pumper, PumpLeave(t) PROVE Goal'
  BY <1>10, KeepsLock DEF PumpLeave, AfterPump
<1>11. ASSUME NEW t \in Pumper, PumpTake(t) PROVE Goal'
  BY <1>11, KeepsLock DEF PumpTake
<1>12. ASSUME NEW t \in Pumper, PumpAbandon(t) PROVE Goal'
  BY <1>12, KeepsLock DEF PumpAbandon, AfterPump
<1>13. ASSUME NEW t \in Pumper, SubmitAccepted(t) PROVE Goal'
  BY <1>13, KeepsLock DEF SubmitAccepted
<1>14. ASSUME NEW t \in Pumper, SubmitFailed(t) PROVE Goal'
  BY <1>14, KeepsLock DEF SubmitFailed
<1>15. ASSUME NEW t \in Pumper, SubmitReturns(t) PROVE Goal'
  BY <1>15, KeepsLock DEF SubmitReturns
<1>16. ASSUME NoMoreEntries PROVE Goal'
  BY <1>16, KeepsLock DEF NoMoreEntries
<1>17. ASSUME ReplyNotFound PROVE Goal'
  BY <1>17, KeepsLock DEF ReplyNotFound
<1>18. ASSUME ReplyCompleted PROVE Goal'
  BY <1>18, KeepsLock DEF ReplyCompleted
<1>19. ASSUME NEW w \in Worker, DestroyStop(w) PROVE Goal'
  BY <1>19, KeepsLock DEF DestroyStop
<1>20. ASSUME NEW w \in Worker, DestroyDelete(w) PROVE Goal'
  BY <1>20, KeepsLock DEF DestroyDelete
<1>21. ASSUME NEW w \in Worker, VhfDeleted(w) PROVE Goal'
  BY <1>21, KeepsLock DEF VhfDeleted
<1>22. ASSUME ReleaseTimerStopped PROVE Goal'
  BY <1>22, KeepsLock DEF ReleaseTimerStopped
<1>23. ASSUME ReleaseClose PROVE Goal'
  BY <1>23, KeepsLock DEF ReleaseClose
<1>24. ASSUME VhfReady PROVE Goal'
  BY <1>24, KeepsLock DEF VhfReady
<1>25. ASSUME Ready PROVE Goal'
  BY <1>25, KeepsLock DEF Ready
<1>26. ASSUME NEW h \in Handles, Refuse(h) PROVE Goal'
  BY <1>26, KeepsLock DEF Refuse
<1>27. ASSUME Claim PROVE Goal'
  BY <1>27, HolderActs DEF Claim
<1>28. ASSUME NEW w \in Worker, DestroyReset(w) PROVE Goal'
  BY <1>28, HolderActs DEF DestroyReset, AfterDestroy
<1>29. ASSUME NEW w \in Worker, Finish(w) PROVE Goal'
  <2>1. lifetime = w /\ lifetime' = NULL /\ pc[w] \in Held
    BY <1>29 DEF Finish, LifetimeInv, LockInv
  <2> QED BY <1>29, <2>1, HolderActs DEF Finish
<1>30. ASSUME IoctlAcquire PROVE Goal'
  BY <1>30, TakesLock DEF IoctlAcquire
<1>31. ASSUME NEW f \in Files, FileCleanup(f) PROVE Goal'
  BY <1>31, TakesLock DEF FileCleanup
<1>32. ASSUME ReleaseAcquire PROVE Goal'
  BY <1>32, TakesLock DEF ReleaseAcquire
<1>33. CASE UNCHANGED vars
  BY <1>33, LockUntouched DEF vars
<1>34. ASSUME Prepare PROVE Goal'
  BY <1>34, LockUntouched DEF Prepare
<1>35. ASSUME NEW f \in Files, NEW code \in Codes, NEW id \in Nat,
              NEW verdict \in Verdicts, Dispatch(f, code, id, verdict)
       PROVE  Goal'
  BY <1>35, KeepsLock DEF Dispatch
<1>36. ASSUME NEW h \in Handles, NEW k \in Kinds, HidOperation(h, k) PROVE Goal'
  <2>1. UNCHANGED <<ctx, locks>>
    BY <1>36 DEF HidOperation
  <2>2. Goto(h, "enqueue") \/ pc' = pc
    BY <1>36 DEF HidOperation
  <2> QED BY <2>1, <2>2, KeepsLock, LockUntouched
<1>37. ASSUME NEW s \in Slots, DeadlinePasses(s) PROVE Goal'
  <2>1. /\ requests' = [requests EXCEPT ![s].due = TRUE]
        /\ UNCHANGED <<session, locks, pc>>
    BY <1>37 DEF DeadlinePasses
  <2>2. \A r \in Slots : requests'[r].handle = requests[r].handle
    BY <2>1 DEF LifetimeInv, TypeOK, ContextOK
  <2> QED BY <2>1, <2>2, LockUntouched
<1>38. ASSUME NEW s \in Slots, Deliver(s) PROVE Goal'
  <2>1. /\ requests' = [requests EXCEPT ![s].delivered = TRUE]
        /\ pc["ioctl"] = "poll" /\ Goto("ioctl", "finish")
        /\ UNCHANGED <<session, locks>>
    BY <1>38 DEF Deliver
  <2>2. \A r \in Slots : requests'[r].handle = requests[r].handle
    BY <2>1 DEF LifetimeInv, TypeOK, ContextOK
  <2> QED BY <2>1, <2>2, KeepsLock
<1>39. ASSUME NEW s \in Slots, Reply(s) PROVE Goal'
  <2>1. /\ requests' = [requests EXCEPT ![s] = Empty]
        /\ pc["ioctl"] = "reply" /\ Goto("ioctl", "answer")
        /\ UNCHANGED <<session, locks>>
    BY <1>39 DEF Reply
  <2>2. Used' \subseteq Used
    BY <2>1 DEF Empty, LifetimeInv, TypeOK, ContextOK
  <2> QED BY <2>1, <2>2, KeepsLock
<1>40. ASSUME NEW w \in Worker, DestroyExpire(w) PROVE Goal'
  <2>1. /\ requests' = [s \in Slots |-> IF s \in Used THEN Empty ELSE requests[s]]
        /\ pc[w] = "expire" /\ Goto(w, "cancel")
        /\ UNCHANGED <<session, locks>>
    BY <1>40 DEF DestroyExpire, Expire
  <2>2. Used' = {}
    BY <2>1 DEF Empty
  <2> QED BY <2>1, <2>2, KeepsLock
<1>41. ASSUME Tick PROVE Goal'
  <2> DEFINE overdue == {s \in Used : requests[s].due}
  <2>1. /\ requests' = [s \in Slots |-> IF s \in overdue THEN Empty ELSE requests[s]]
        /\ UNCHANGED <<session, locks, pc>>
    BY <1>41 DEF Tick, Expire
  <2> HIDE DEF overdue
  <2>2. Used' \subseteq Used
    BY <2>1 DEF Empty
  <2> QED BY <2>1, <2>2, LockUntouched
<1>42. ASSUME NEW t \in Thread, Complete(t) PROVE Goal'
  BY <1>42, LockUntouched DEF Complete
<1>43. ASSUME NEW h \in Handles, NEW s \in Slots, Accept(h, s) PROVE Goal'
  <2>1. ~stopping /\ Goto(h, "idle") /\ UNCHANGED <<session, locks>>
    BY <1>43 DEF Accept
  <2>2. h \in Thread \ Worker
    OBVIOUS
  <2>3. \A u \in Worker : pc'[u] = pc[u] /\ pc[u] \notin Cleared \cup {"expire"}
    BY <2>1, <2>2 DEF Goto, LifetimeInv, LockInv, TypeOK
  <2> QED BY <2>1, <2>3
          DEF LifetimeInv, LockInv, NothingPendingAtDelete, OwnedCallStaysOwned
<1>44. ASSUME VhfStartReturns PROVE Goal'
  BY <1>44, KeepsLock DEF VhfStartReturns
<1> QED
  BY <1>1, <1>2, <1>3, <1>4, <1>5, <1>6, <1>7, <1>8, <1>9, <1>10, <1>11,
     <1>12, <1>13, <1>14, <1>15, <1>16, <1>17, <1>18, <1>19, <1>20, <1>21,
     <1>22, <1>23, <1>24, <1>25, <1>26, <1>27, <1>28, <1>29, <1>30, <1>31,
     <1>32, <1>33, <1>34, <1>35, <1>36, <1>37, <1>38, <1>39, <1>40, <1>41,
     <1>42, <1>43, <1>44 DEF Step

(* Outside destroy nobody clears the table, and the device is not left     *)
(* before its operations are: no operation enters the table between its    *)
(* cancellation and the deletion of the VHF device, and the ownership that *)
(* ioctl has read holds as long as it acts on it.  Both rest on the lock:  *)
(* a worker is inside its sections only while it holds lifetime, and       *)
(* stopping is set for as long as a destroy is in them.                    *)
LEMMA LifetimeAlways == Spec => []LifetimeInv
<1>1. Init => LockInv /\ NothingPendingAtDelete /\ OwnedCallStaysOwned
  BY HidAssumption
  DEF Init, LockInv, NothingPendingAtDelete, OwnedCallStaysOwned, Held,
      Acting, Cleared, Worker, Thread
<1>2. LifetimeInv /\ [Next]_vars
        => (LockInv /\ NothingPendingAtDelete /\ OwnedCallStaysOwned)'
  BY StepCases, LockSteps
<1>3. TypeOK /\ LockInv /\ NothingPendingAtDelete /\ OwnedCallStaysOwned
        /\ [Next]_vars
        => (LockInv /\ NothingPendingAtDelete /\ OwnedCallStaysOwned)'
  BY <1>2 DEF LifetimeInv
<1> QED
  BY <1>1, <1>3, TypeCorrect, PTL DEF Spec, LifetimeInv

(* VhfDelete never waits for an operation that is still in the table.      *)
THEOREM CancelledBeforeDelete == Spec => []NothingPendingAtDelete
  BY LifetimeAlways, PTL DEF LifetimeInv

(* ioctl acts only for the broker that owns the device while it acts.      *)
THEOREM OwnerActs == Spec => []OwnedCallStaysOwned
  BY LifetimeAlways, PTL DEF LifetimeInv

=============================================================================
