-------------------------- MODULE SuspendGuardProofs --------------------------
(***************************************************************************)
(* Proofs about SuspendGuard, for all periods, time-outs and leases.       *)
(***************************************************************************)
EXTENDS SuspendGuard, TLAPS

(* An attempt is past its time only once it has waited for logind, has no  *)
(* websocket before it is connected, and a guard that is gone makes none.  *)
InTime ==
  /\ stage \in {"http", "ws"} => ~socket
  /\ age = AttemptTime + 1 => stage \notin {"http", "ws", "reading"}
  /\ ~running => ~busy

GuardInv == TypeOK /\ InTime /\ NoSocketLeft

(* Next, action by action: the proof of a step has a case for each.        *)
LEMMA StepCases ==
  ASSUME Next
  PROVE  \/ Tick \/ PropertiesChanged \/ IdleSync \/ Timeout
         \/ Targets \/ ConnectFails \/ Connected \/ ConnectedLate
         \/ SendScript \/ ReadFails \/ SocketError \/ Message
         \/ RunScript \/ (\E s \in {"block", "release"} : RunLate(s))
         \/ (\E o \in Objects : Expire(o))
         \/ Second
         \/ SteamStops \/ SteamStarts \/ InhibitorChanges
         \/ GuardStops \/ GuardStarts
BY DEF Next, Guard, Steam
-----------------------------------------------------------------------------
(* finish leaves the guard idle, well typed and without a websocket.       *)
LEMMA FinishInv ==
  ASSUME GuardInv, NEW good \in BOOLEAN,
         NEW leftover \in SUBSET {"ws", "block", "release"},
         Finish(good, leftover)
  PROVE  GuardInv'
<1>1. websockets' = 0 /\ ~socket'
  BY DEF Finish, GuardInv, TypeOK, NoSocketLeft
<1>2. failed' \in 0 .. 2 /\ calm' \in 0 .. Settle /\ idles' \in Nat
  BY GuardAssumption DEF Finish, GuardInv, TypeOK, Settle
<1>3. age' = 0 /\ stage' = "none" /\ age' \in 0 .. AttemptTime + 1
  BY GuardAssumption DEF Finish
<1>4. late' \subseteq {"ws", "block", "release"}
  BY DEF Finish, GuardInv, TypeOK
<1>0. resync' \in BOOLEAN /\ socket' \in BOOLEAN
  BY Zenon DEF Finish
<1>5. TypeOK'
  BY <1>0, <1>1, <1>2, <1>3, <1>4
     DEF Finish, GuardInv, TypeOK, Stages, logind, window
<1>6. InTime' /\ NoSocketLeft'
  BY <1>1, <1>3, GuardAssumption DEF Finish, InTime, NoSocketLeft, busy
<1> QED BY <1>5, <1>6 DEF GuardInv

(* sync begins an attempt or notes that another is wanted.                 *)
LEMMA SyncInv ==
  ASSUME GuardInv, Sync, running, ~Reading,
         idles' \in Nat, tickIn' \in 0 .. TickPeriod,
         inhibited' \in BOOLEAN, signal' \in BOOLEAN
  PROVE  GuardInv'
<1>0. resync' \in BOOLEAN
  BY Zenon DEF Sync, GuardInv, TypeOK
<1>1. TypeOK'
  BY <1>0, GuardAssumption
     DEF Sync, GuardInv, TypeOK, Stages, busy, window, history, Settle
<1>2. InTime' /\ NoSocketLeft'
  BY GuardAssumption DEF Sync, GuardInv, TypeOK, InTime, NoSocketLeft, busy
<1> QED BY <1>1, <1>2 DEF GuardInv

(* A step of an attempt that goes on.                                      *)
LEMMA ProceedInv ==
  ASSUME GuardInv, running, busy, stage # "http" \/ age # AttemptTime + 1,
         NEW s \in {"ws", "block", "release", "silent"},
         s = "ws" => stage = "http", Proceed(s)
  PROVE  GuardInv'
<1>1. TypeOK'
  BY DEF Proceed, GuardInv, TypeOK, Stages, logind, window, history
<1>2. InTime' /\ NoSocketLeft'
  BY DEF Proceed, GuardInv, InTime, NoSocketLeft, busy
<1> QED BY <1>1, <1>2 DEF GuardInv

(* The script leaves the window's variables well typed.                    *)
LEMMA EvaluateTypes ==
  ASSUME TypeOK, NEW s, Evaluate(s)
  PROVE  /\ owned' \in Objects \cup {NULL} /\ held' \subseteq Objects
         /\ leases' \subseteq Objects \X (0 .. Lease)
<1>1. Lease \in 0 .. Lease
  BY GuardAssumption
<1>2. CASE UNCHANGED window
  BY <1>2 DEF window, TypeOK
<1>3. CASE Block
  BY <1>1, <1>3 DEF Block, Acquire, TimersOf, TypeOK
<1>4. CASE Unblock
  BY <1>2, <1>4 DEF Unblock, TimersOf, TypeOK
<1> QED BY <1>2, <1>3, <1>4 DEF Evaluate

(* A second passes: nothing that is due is passed over.                    *)
LEMMA SecondInv ==
  ASSUME GuardInv, Second
  PROVE  GuardInv'
<1>1. age' \in 0 .. AttemptTime + 1
  <2>1. CASE ~busy
    BY <2>1, GuardAssumption DEF Second
  <2>2. CASE busy /\ Reading
    BY <2>2, GuardAssumption
       DEF Second, GuardInv, TypeOK, InTime, Reading, busy
  <2>3. CASE busy /\ ~Reading
    BY <2>3, GuardAssumption
       DEF Second, GuardInv, TypeOK, InTime, Loop
  <2> QED BY <2>1, <2>2, <2>3
<1>2. stage' \in Stages
  BY DEF Second, GuardInv, TypeOK, Stages
<1>3. tickIn' \in 0 .. TickPeriod /\ calm' \in 0 .. Settle
  BY GuardAssumption DEF Second, GuardInv, TypeOK, Settle
<1>4. leases' \subseteq Objects \X (0 .. Lease)
  <2>1. \A l \in leases : <<l[1], l[2] - 1>> \in Objects \X (0 .. Lease)
    BY GuardAssumption DEF Second, GuardInv, TypeOK
  <2> QED BY <2>1 DEF Second
<1>5. TypeOK'
  BY <1>1, <1>2, <1>3, <1>4 DEF Second, GuardInv, TypeOK, logind
<1>6. InTime'
  BY GuardAssumption
     DEF Second, GuardInv, TypeOK, InTime, Loop, Reading, busy
<1>7. NoSocketLeft'
  BY DEF Second, GuardInv, NoSocketLeft, busy
<1> QED BY <1>5, <1>6, <1>7 DEF GuardInv
-----------------------------------------------------------------------------
(* The guard stays well typed, in time and without a websocket too many.   *)
LEMMA StepInv ==
  ASSUME GuardInv, [Next]_vars
  PROVE  GuardInv'
<1>1. CASE Tick
  BY <1>1, SyncInv, GuardAssumption
     DEF Tick, Loop, GuardInv, TypeOK, logind
<1>2. CASE PropertiesChanged
  BY <1>2, SyncInv DEF PropertiesChanged, Loop, GuardInv, TypeOK
<1>3. CASE IdleSync
  BY <1>3, SyncInv DEF IdleSync, Loop, GuardInv, TypeOK, logind
<1>4. CASE Timeout
  BY <1>4, FinishInv DEF Timeout, Leftover
<1>5. CASE Targets
  <2>1. CASE Finish(FALSE, {})
    BY <2>1, FinishInv
  <2>2. CASE Proceed("ws")
    BY <1>5, <2>2, ProceedInv DEF Targets, Loop, GuardInv, InTime, busy
  <2> QED BY <1>5, <2>1, <2>2 DEF Targets
<1>6. CASE ConnectFails
  BY <1>6, FinishInv DEF ConnectFails
<1>7. CASE Connected
  <2>0. socket' \in BOOLEAN
    BY <1>7, Zenon DEF Connected
  <2>1. TypeOK'
    BY <1>7, <2>0 DEF Connected, GuardInv, TypeOK, Stages, logind, window, history
  <2>2. InTime' /\ NoSocketLeft'
    BY <1>7 DEF Connected, Loop, GuardInv, TypeOK, InTime, NoSocketLeft, busy
  <2> QED BY <2>1, <2>2 DEF GuardInv
<1>8. CASE ConnectedLate
  <2>1. TypeOK'
    BY <1>8 DEF ConnectedLate, GuardInv, TypeOK, logind, window, history
  <2>2. InTime' /\ NoSocketLeft'
    BY <1>8 DEF ConnectedLate, GuardInv, InTime, NoSocketLeft, busy
  <2> QED BY <2>1, <2>2 DEF GuardInv
<1>9. CASE SendScript
  <2>1. running /\ busy /\ stage # "http"
    BY <1>9 DEF SendScript, Reading, busy
  <2>2. PICK s \in {"block", "release", "silent"} : Proceed(s)
    BY <1>9 DEF SendScript
  <2> QED BY <2>1, <2>2, ProceedInv
<1>10. CASE ReadFails
  BY <1>10, FinishInv DEF ReadFails
<1>11. CASE SocketError
  BY <1>11, FinishInv DEF SocketError, Leftover
<1>12. CASE Message
  BY <1>12, FinishInv DEF Message
<1>13. CASE RunScript
  <2>1. TypeOK'
    BY <1>13, EvaluateTypes
       DEF RunScript, GuardInv, TypeOK, Stages, logind, history
  <2>2. InTime' /\ NoSocketLeft'
    BY <1>13 DEF RunScript, GuardInv, InTime, NoSocketLeft, busy
  <2> QED BY <2>1, <2>2 DEF GuardInv
<1>14. CASE \E s \in {"block", "release"} : RunLate(s)
  <2> PICK s \in {"block", "release"} : RunLate(s)
    BY <1>14
  <2>1. TypeOK'
    BY EvaluateTypes, GuardAssumption
       DEF RunLate, GuardInv, TypeOK, logind, Settle
  <2>2. InTime' /\ NoSocketLeft'
    BY DEF RunLate, GuardInv, InTime, NoSocketLeft, busy
  <2> QED BY <2>1, <2>2 DEF GuardInv
<1>15. CASE \E o \in Objects : Expire(o)
  <2>1. TypeOK'
    BY <1>15 DEF Expire, GuardInv, TypeOK, process, logind, history
  <2>2. InTime' /\ NoSocketLeft'
    BY <1>15 DEF Expire, GuardInv, InTime, NoSocketLeft, busy, process
  <2> QED BY <2>1, <2>2 DEF GuardInv
<1>16. CASE Second
  BY <1>16, SecondInv
<1>17. CASE SteamStops
  <2>1. TypeOK'
    BY <1>17, GuardAssumption
       DEF SteamStops, GuardInv, TypeOK, Stages, logind, Settle
  <2>2. InTime' /\ NoSocketLeft'
    BY <1>17 DEF SteamStops, GuardInv, InTime, NoSocketLeft, busy
  <2> QED BY <2>1, <2>2 DEF GuardInv
<1>18. CASE SteamStarts \/ InhibitorChanges
  <2>1. UNCHANGED process /\ UNCHANGED window
    BY <1>18 DEF SteamStarts, InhibitorChanges
  <2>0. inhibited' \in BOOLEAN /\ signal' \in BOOLEAN
    BY <1>18, Zenon
       DEF SteamStarts, InhibitorChanges, GuardInv, TypeOK, logind
  <2>2. TypeOK'
    BY <1>18, <2>0, <2>1, GuardAssumption
       DEF SteamStarts, InhibitorChanges, GuardInv, TypeOK, process, logind,
           window, Settle
  <2>3. InTime' /\ NoSocketLeft'
    BY <2>1 DEF GuardInv, InTime, NoSocketLeft, busy, process
  <2> QED BY <2>2, <2>3 DEF GuardInv
<1>19. CASE GuardStops
  <2>0. /\ running' \in BOOLEAN /\ resync' \in BOOLEAN /\ socket' \in BOOLEAN
        /\ signal' \in BOOLEAN
    BY <1>19, Zenon DEF GuardStops
  <2>1. TypeOK'
    BY <1>19, <2>0, GuardAssumption
       DEF GuardStops, GuardInv, TypeOK, Stages, Leftover, window, Settle
  <2>2. InTime' /\ NoSocketLeft'
    BY <1>19, GuardAssumption DEF GuardStops, InTime, NoSocketLeft, busy
  <2> QED BY <2>1, <2>2 DEF GuardInv
<1>20. CASE GuardStarts
  <2>1. TypeOK'
    BY <1>20, GuardAssumption
       DEF GuardStarts, GuardInv, TypeOK, logind, window, Settle
  <2>2. InTime' /\ NoSocketLeft'
    BY <1>20 DEF GuardStarts, GuardInv, InTime, NoSocketLeft, busy
  <2> QED BY <2>1, <2>2 DEF GuardInv
<1>21. CASE UNCHANGED vars
  <2>1. TypeOK'
    BY <1>21
       DEF vars, GuardInv, TypeOK, process, logind, window, history
  <2>2. InTime' /\ NoSocketLeft'
    BY <1>21 DEF vars, GuardInv, InTime, NoSocketLeft, busy, process
  <2> QED BY <2>1, <2>2 DEF GuardInv
<1> QED
  BY StepCases, <1>1, <1>2, <1>3, <1>4, <1>5, <1>6, <1>7, <1>8, <1>9, <1>10,
     <1>11, <1>12, <1>13, <1>14, <1>15, <1>16, <1>17, <1>18, <1>19, <1>20,
     <1>21

(* The guard begins with nothing under way and no websocket.               *)
LEMMA InitInv ==
  ASSUME Init
  PROVE  GuardInv
<1>1. /\ running \in BOOLEAN /\ resync \in BOOLEAN /\ socket \in BOOLEAN
      /\ inhibited \in BOOLEAN /\ signal \in BOOLEAN
  BY Zenon DEF Init
<1>2. TypeOK
  BY <1>1, GuardAssumption DEF Init, TypeOK, Stages, Settle
<1>3. InTime /\ NoSocketLeft
  BY GuardAssumption DEF Init, InTime, NoSocketLeft, busy
<1> QED BY <1>2, <1>3 DEF GuardInv

(* GuardInv holds in every behaviour, by the lemmas above.                 *)
LEMMA GuardInvariant == Spec => []GuardInv
BY InitInv, StepInv, PTL DEF Spec

(* The guard, Steam's window and the history stay well typed; in           *)
(* particular an attempt is never more than a second past its time.        *)
THEOREM TypeCorrect == Spec => []TypeOK
BY GuardInvariant, PTL DEF GuardInv

(* The guard never leaves a websocket behind.                              *)
THEOREM SocketsClosed == Spec => []NoSocketLeft
BY GuardInvariant, PTL DEF GuardInv
-----------------------------------------------------------------------------
(* The script and its timer keep one blocker with one timer.               *)
LEMMA EvaluateBlocker ==
  ASSUME TypeOK, OneBlocker, NEW s, Evaluate(s)
  PROVE  OneBlocker'
<1>1. Lease \in 0 .. Lease
  BY GuardAssumption
<1>2. CASE UNCHANGED window
  BY <1>2 DEF window, OneBlocker
<1>3. CASE Block /\ owned = NULL
  BY <1>1, <1>3, GuardAssumption DEF Block, Acquire, OneBlocker
<1>4. CASE Block /\ owned # NULL
  <2>1. leases \ TimersOf(owned) = {}
    BY <1>4 DEF OneBlocker, TimersOf
  <2>2. leases' = {<<owned, Lease>>} /\ owned' = owned /\ held' = held
    BY <1>4, <2>1 DEF Block
  <2> QED BY <1>1, <1>4, <2>2 DEF OneBlocker
<1>5. CASE Unblock
  <2>1. CASE owned = NULL
    BY <1>2, <1>5, <2>1 DEF Unblock
  <2>2. CASE owned # NULL
    <3>1. leases \ TimersOf(owned) = {}
      BY <2>2 DEF OneBlocker, TimersOf
    <3> QED BY <1>5, <2>2, <3>1 DEF Unblock, OneBlocker
  <2> QED BY <2>1, <2>2
<1> QED BY <1>2, <1>3, <1>4, <1>5 DEF Evaluate

(* An expiry removes the timer, and the blocker if it is the recorded one. *)
LEMMA ExpireBlocker ==
  ASSUME OneBlocker, NEW o \in Objects, Expire(o)
  PROVE  OneBlocker'
<1>1. owned # NULL
  BY DEF Expire, OneBlocker
<1>2. leases = {<<o, 0>>} /\ owned = o
  BY <1>1 DEF Expire, OneBlocker
<1> QED BY <1>1, <1>2 DEF Expire, OneBlocker

LEMMA SecondBlocker ==
  ASSUME OneBlocker, Second
  PROVE  OneBlocker'
<1>1. owned' = owned /\ held' = held
  BY DEF Second
<1>2. CASE owned = NULL
  BY <1>1, <1>2 DEF Second, OneBlocker
<1>3. CASE owned # NULL
  <2>1. PICK n \in 0 .. Lease : leases = {<<owned, n>>}
    BY <1>3 DEF OneBlocker
  <2>2. n > 0 /\ n - 1 \in 0 .. Lease
    BY <2>1, GuardAssumption DEF Second
  <2>3. leases' = {<<owned, n - 1>>}
    BY <2>1 DEF Second
  <2> QED BY <1>1, <1>3, <2>2, <2>3 DEF OneBlocker
<1> QED BY <1>2, <1>3

LEMMA BlockerStep ==
  ASSUME TypeOK, OneBlocker, [Next]_vars
  PROVE  OneBlocker'
<1>1. CASE RunScript \/ \E s \in {"block", "release"} : RunLate(s)
  BY <1>1, EvaluateBlocker DEF RunScript, RunLate
<1>2. CASE \E o \in Objects : Expire(o)
  BY <1>2, ExpireBlocker
<1>3. CASE Second
  BY <1>3, SecondBlocker
<1>4. CASE SteamStops
  BY <1>4 DEF SteamStops, OneBlocker
<1>5. CASE UNCHANGED window
  BY <1>5 DEF window, OneBlocker
<1>6. CASE Tick \/ PropertiesChanged \/ IdleSync
  BY <1>5, <1>6 DEF Tick, PropertiesChanged, IdleSync, Sync
<1>7. CASE Timeout \/ Targets \/ ConnectFails \/ ReadFails \/ SocketError \/ Message
  BY <1>5, <1>7 DEF Timeout, Targets, ConnectFails, ReadFails, SocketError,
                    Message, Finish, Proceed
<1>8. CASE Connected \/ ConnectedLate \/ SendScript
  BY <1>5, <1>8 DEF Connected, ConnectedLate, SendScript, Proceed
<1>9. CASE SteamStarts \/ InhibitorChanges \/ GuardStops \/ GuardStarts
  BY <1>5, <1>9 DEF SteamStarts, InhibitorChanges, GuardStops, GuardStarts
<1>10. CASE UNCHANGED vars
  BY <1>5, <1>10 DEF vars
<1> QED
  BY StepCases, <1>1, <1>2, <1>3, <1>4, <1>6, <1>7, <1>8, <1>9, <1>10

(* Steam never carries a second blocker of the guard's, nor one without a  *)
(* timer: whatever scripts run in whatever order, renewals, expiries and   *)
(* releases included.                                                      *)
THEOREM BlockersCorrect == Spec => []OneBlocker
<1>1. Init => OneBlocker
  BY DEF Init, OneBlocker
<1> QED BY <1>1, TypeCorrect, BlockerStep, PTL DEF Spec
-----------------------------------------------------------------------------
(* Time.  Delays with which the mirror is in time: an attempt is over      *)
(* before the next tick, and a lease outlasts two ticks and an attempt.    *)
(* The code's 5, 4 and 15 seconds are such delays; a lease of 14 would not *)
(* do.                                                                     *)
Delays == AttemptTime < TickPeriod /\ Lease > 2 * TickPeriod + AttemptTime

Answered == stage = "answered"
Unsynced == (owned # NULL) # inhibited

(* The script under way, or the one that has run, is out of date.          *)
Outdated ==
  \/ stage = "block" /\ ~inhibited
  \/ stage = "release" /\ inhibited
  \/ Answered /\ steam = "ready" /\ Unsynced

(* Only a running guard has few failures behind it.                        *)
FewFailures == failed < 2 => running

(* No tick has come since an attempt began that is not to be repeated.     *)
NoTickMissed == busy /\ ~resync => age + tickIn <= TickPeriod

(* The seconds n that a timer in Steam has left cover the time until the   *)
(* next script at the latest: an idle guard's next attempt begins with the *)
(* tick, or at once when a call of sync is queued; and each failure in a   *)
(* row has cost one period.                                                *)
Margin == Lease - (IF failed = 0 THEN TickPeriod ELSE 2 * TickPeriod)

Lasts(n) ==
  /\ Answered => n >= Lease - age
  /\ Answered /\ ~resync => n >= Lease - TickPeriod + tickIn
  /\ failed <= 1 /\ ~busy => n >= Margin /\ (idles = 0 => n >= Margin + tickIn)
  /\ failed <= 1 /\ busy /\ ~Answered => n >= Margin - age
  /\ failed = 0 /\ busy /\ ~Answered /\ ~resync =>
       n >= Lease - 2 * TickPeriod + tickIn

LeasesLast == \A l \in leases : Lasts(l[2])

(* What has failed or is out of step has been so for less than a tick, or  *)
(* than a tick and the age of the attempt that will mend it; a script that *)
(* is out of date has been so for less than its attempt is old.            *)
MendedSoon ==
  running /\ (failed >= 1 \/ (steam = "ready" /\ Unsynced)) =>
    IF busy THEN calm <= TickPeriod + age
    ELSE calm <= TickPeriod /\ (idles = 0 => calm + tickIn <= TickPeriod)

OutdatedYoung == Outdated => calm <= age

TimeInv ==
  FewFailures /\ NoTickMissed /\ LeasesLast /\ MendedSoon /\ OutdatedYoung

Mirror == Delays /\ GuardInv /\ OneBlocker /\ TimeInv

(* The numbers that the proofs below calculate with.                       *)
LEMMA Numbers ==
  ASSUME GuardInv
  PROVE  /\ TickPeriod \in Nat \ {0} /\ AttemptTime \in Nat \ {0}
         /\ Lease \in Nat \ {0}
         /\ age \in Nat /\ age <= AttemptTime + 1 /\ idles \in Nat
         /\ tickIn \in Nat /\ tickIn <= TickPeriod
         /\ failed \in 0 .. 2 /\ calm \in Nat
         /\ \A l \in leases : l[2] \in Nat
  BY GuardAssumption DEF GuardInv, TypeOK, Settle

(* finish: a success has renewed the lease, a failure costs a period.      *)
LEMMA FinishTime ==
  ASSUME Mirror, NEW good \in BOOLEAN, NEW leftover, Finish(good, leftover),
         good => Answered
  PROVE  TimeInv'
<1>1. /\ busy /\ stage' = "none" /\ ~busy' /\ running' = running /\ running
      /\ idles' = IF resync THEN idles + 1 ELSE idles
      /\ tickIn' = tickIn /\ leases' = leases /\ owned' = owned
      /\ inhibited' = inhibited /\ steam' = steam
      /\ failed' = IF good THEN 0 ELSE IF failed = 0 THEN 1 ELSE 2
      /\ calm' = IF good THEN calm ELSE 0
  BY DEF Finish, Mirror, GuardInv, InTime, busy, logind, window
<1>2. idles' = 0 => ~resync
  BY <1>1, Numbers DEF Mirror
<1>3. FewFailures' /\ NoTickMissed'
  BY <1>1 DEF FewFailures, NoTickMissed
<1>4. LeasesLast'
  <2> SUFFICES ASSUME NEW l \in leases PROVE Lasts(l[2])'
    BY <1>1 DEF LeasesLast
  <2>1. Lasts(l[2]) /\ l[2] \in Nat
    BY Numbers DEF Mirror, TimeInv, LeasesLast
  <2>2. CASE good
    <3>1. Answered /\ failed' = 0
      BY <1>1, <2>2
    <3> QED BY <1>1, <1>2, <2>1, <3>1, Numbers
            DEF Mirror, Delays, Lasts, Margin, Answered
  <2>3. CASE ~good /\ failed = 0
    <3>1. failed' = 1
      BY <1>1, <2>3
    <3> QED BY <1>1, <1>2, <2>1, <2>3, <3>1, Numbers
            DEF Mirror, Delays, Lasts, Margin, Answered
  <2>4. CASE ~good /\ failed # 0
    <3>1. failed' = 2
      BY <1>1, <2>4
    <3> QED BY <1>1, <3>1 DEF Lasts, Answered
  <2> QED BY <2>2, <2>3, <2>4
<1>5. MendedSoon'
  <2>1. CASE good
    <3>1. (steam = "ready" /\ Unsynced) => calm <= age
      BY <2>1 DEF Mirror, TimeInv, OutdatedYoung, Outdated
    <3> QED BY <1>1, <1>2, <2>1, <3>1, Numbers
            DEF Mirror, Delays, TimeInv, NoTickMissed, MendedSoon, Unsynced
  <2>2. CASE ~good
    BY <1>1, <2>2, Numbers DEF Mirror, MendedSoon
  <2> QED BY <2>1, <2>2
<1>6. OutdatedYoung'
  BY <1>1 DEF OutdatedYoung, Outdated, Answered
<1> QED
  BY <1>3, <1>4, <1>5, <1>6 DEF TimeInv

(* sync: an attempt begins in time, or is to be repeated.                  *)
LEMMA SyncTime ==
  ASSUME Mirror, Sync, running, inhibited' = inhibited, idles' \in 0 .. idles,
         \/ tickIn' = tickIn
         \/ tickIn' = TickPeriod
  PROVE  TimeInv'
<1>1. /\ running' = running /\ leases' = leases /\ owned' = owned
      /\ steam' = steam /\ failed' = failed /\ calm' = calm
  BY DEF Sync, window, history
<1>2. CASE busy
  <2>1. stage' = stage /\ age' = age /\ resync' /\ busy' = busy
    BY <1>2 DEF Sync, busy
  <2>2. LeasesLast'
    BY <1>1, <1>2, <2>1
    DEF Mirror, TimeInv, LeasesLast, Lasts, Margin, Answered
  <2>3. FewFailures' /\ NoTickMissed' /\ MendedSoon' /\ OutdatedYoung'
    BY <1>1, <1>2, <2>1
    DEF Mirror, TimeInv, FewFailures, NoTickMissed, MendedSoon, OutdatedYoung,
        Outdated, Answered, Unsynced
  <2> QED BY <2>2, <2>3 DEF TimeInv
<1>3. CASE ~busy
  <2>1. stage' = "http" /\ age' = 0 /\ busy' /\ ~Answered' /\ tickIn' <= TickPeriod
        /\ tickIn' \in Nat
    BY <1>3, Numbers DEF Mirror, Sync, busy, Answered
  <2>2. LeasesLast'
    <3> SUFFICES ASSUME NEW l \in leases PROVE Lasts(l[2])'
      BY <1>1 DEF LeasesLast
    <3>1. Lasts(l[2]) /\ l[2] \in Nat
      BY Numbers DEF Mirror, TimeInv, LeasesLast
    <3> QED BY <1>1, <1>3, <2>1, <3>1, Numbers DEF Mirror, Delays, Lasts, Margin
  <2>3. FewFailures' /\ NoTickMissed' /\ OutdatedYoung'
    BY <1>1, <2>1, Numbers
    DEF Mirror, TimeInv, FewFailures, NoTickMissed, OutdatedYoung, Outdated
  <2>4. MendedSoon'
    BY <1>1, <1>3, <2>1, Numbers DEF Mirror, TimeInv, MendedSoon, Unsynced
  <2> QED BY <2>2, <2>3, <2>4 DEF TimeInv
<1> QED
  BY <1>2, <1>3

(* An attempt goes on; the script that it sends is up to date.             *)
LEMMA ProceedTime ==
  ASSUME Mirror, busy, ~Answered, stage' \notin {"none", "answered"},
         UNCHANGED <<running, age, resync, idles, tickIn, logind, steam, window,
                     history>>,
         stage' \in {"block", "release"} => stage' = IF inhibited THEN "block" ELSE "release"
  PROVE  TimeInv'
<1>1. busy' /\ ~Answered'
  BY DEF busy, Answered
<1>2. LeasesLast'
  BY <1>1 DEF Mirror, TimeInv, LeasesLast, Lasts, Margin, window, history
<1>3. FewFailures' /\ NoTickMissed' /\ MendedSoon'
  BY <1>1
  DEF Mirror, TimeInv, FewFailures, NoTickMissed, MendedSoon, Unsynced, window,
      history, logind
<1>4. OutdatedYoung'
  BY <1>1 DEF OutdatedYoung, Outdated, logind
<1> QED
  BY <1>2, <1>3, <1>4 DEF TimeInv

(* A script that runs puts Steam in the state that it was sent for.        *)
LEMMA ScriptDone ==
  ASSUME GuardInv, OneBlocker, NEW s \in {"block", "release"}, steam # "loading",
         Evaluate(s)
  PROVE  /\ (owned' # NULL) = (s = "block")
         /\ \A l \in leases' : l[2] = Lease
<1>1. CASE s = "block"
  <2>1. Block
    BY <1>1 DEF Evaluate
  <2>2. CASE owned = NULL
    BY <1>1, <2>1, <2>2, GuardAssumption DEF Block, Acquire, OneBlocker
  <2>3. CASE owned # NULL
    <3>1. leases \ TimersOf(owned) = {}
      BY <2>3 DEF OneBlocker, TimersOf
    <3> QED BY <1>1, <2>1, <2>3, <3>1 DEF Block
  <2> QED BY <2>2, <2>3
<1>2. CASE s = "release"
  <2>1. Unblock
    BY <1>2 DEF Evaluate
  <2>2. CASE owned = NULL
    BY <1>2, <2>1, <2>2 DEF Unblock, OneBlocker, window
  <2>3. CASE owned # NULL
    <3>1. leases \ TimersOf(owned) = {}
      BY <2>3 DEF OneBlocker, TimersOf
    <3> QED BY <1>2, <2>1, <2>3, <3>1 DEF Unblock
  <2> QED BY <2>2, <2>3
<1> QED
  BY <1>1, <1>2

(* A full lease lasts.                                                     *)
LEMMA FullLease == GuardInv => Lasts(Lease)
  BY Numbers DEF Lasts, Margin

LEMMA RunScriptTime ==
  ASSUME Mirror, GuardInv', RunScript
  PROVE  TimeInv'
<1>1. /\ stage \in {"block", "release"} /\ Evaluate(stage)
      /\ stage' = IF steam = "loading" THEN "rejected" ELSE "answered"
      /\ UNCHANGED <<running, age, resync, idles, tickIn, logind, steam, history>>
  BY DEF RunScript
<1>2. busy /\ ~Answered /\ busy'
  BY <1>1 DEF busy, Answered
<1>3. CASE steam = "loading"
  BY <1>1, <1>2, <1>3, ProceedTime DEF Evaluate
<1>4. CASE steam # "loading"
  <2>1. Answered'
    BY <1>1, <1>4 DEF Answered
  <2>2. (owned' # NULL) = (stage = "block") /\ \A l \in leases' : l[2] = Lease
    BY <1>1, <1>4, ScriptDone DEF Mirror
  <2>3. LeasesLast'
    <3>1. GuardInv' => Lasts(Lease)'
      BY FullLease, PTL
    <3>2. \A l \in leases' : l[2] = Lease
      BY <2>2
    <3>3. ASSUME NEW l \in leases' PROVE Lasts(l[2])'
      <4>1. l[2] = Lease
        BY <3>2
      <4> QED BY <3>1, <4>1 DEF Lasts, Margin, Answered, busy
    <3> QED BY <3>3 DEF LeasesLast
  <2>4. Unsynced' => Outdated
    <3>1. inhibited \in BOOLEAN /\ inhibited' = inhibited
      BY <1>1 DEF Mirror, GuardInv, TypeOK, logind
    <3>2. CASE stage = "block"
      BY <2>2, <3>1, <3>2 DEF Unsynced, Outdated
    <3>3. CASE stage = "release"
      BY <2>2, <3>1, <3>3 DEF Unsynced, Outdated
    <3> QED BY <1>1, <3>2, <3>3
  <2>5. Outdated => calm <= age
    BY DEF Mirror, TimeInv, OutdatedYoung
  <2>6. OutdatedYoung'
    BY <1>1, <2>1, <2>4, <2>5 DEF OutdatedYoung, Outdated, Answered, history
  <2>7. MendedSoon'
    BY <1>1, <1>2, <2>4, <2>5, Numbers
    DEF Mirror, TimeInv, MendedSoon, history
  <2>8. FewFailures' /\ NoTickMissed'
    BY <1>1, <1>2 DEF Mirror, TimeInv, FewFailures, NoTickMissed, history
  <2> QED BY <2>3, <2>6, <2>7, <2>8 DEF TimeInv
<1> QED
  BY <1>3, <1>4

(* What disturbs the mirror, and renews, leaves or ends the leases.        *)
LEMMA DisturbedTime ==
  ASSUME Mirror, calm' = 0, age' \in Nat, tickIn' = tickIn,
         UNCHANGED <<running, failed, resync, idles, age>>,
         busy' = busy, Answered' => Answered,
         \A l \in leases' : (l \in leases /\ Answered' = Answered) \/ l[2] = Lease
  PROVE  TimeInv'
<1>1. FewFailures' /\ NoTickMissed'
  BY DEF Mirror, TimeInv, FewFailures, NoTickMissed
<1>2. MendedSoon' /\ OutdatedYoung'
  BY Numbers DEF Mirror, MendedSoon, OutdatedYoung
<1>3. LeasesLast'
  <2> SUFFICES ASSUME NEW l \in leases' PROVE Lasts(l[2])'
    BY DEF LeasesLast
  <2>1. CASE l \in leases /\ Answered' = Answered
    <3>1. Lasts(l[2])
      BY <2>1 DEF Mirror, TimeInv, LeasesLast
    <3> QED BY <2>1, <3>1 DEF Lasts, Margin
  <2>2. CASE l[2] = Lease
    BY <2>2, Numbers DEF Mirror, Lasts, Margin
  <2> QED BY <2>1, <2>2
<1> QED
  BY <1>1, <1>2, <1>3 DEF TimeInv

LEMMA RunLateTime ==
  ASSUME Mirror, NEW s \in {"block", "release"}, RunLate(s)
  PROVE  TimeInv'
<1>1. /\ Evaluate(s) /\ calm' = 0 /\ stage' = stage
      /\ UNCHANGED <<running, failed, resync, idles, age, tickIn>>
  BY DEF RunLate
<1>2. \A l \in leases' : l \in leases \/ l[2] = Lease
  <2>1. CASE steam = "loading"
    BY <1>1, <2>1 DEF Evaluate, window
  <2>2. CASE steam # "loading"
    BY <1>1, <2>2, ScriptDone DEF Mirror
  <2> QED BY <2>1, <2>2
<1>3. busy' = busy /\ Answered' = Answered
  BY <1>1 DEF busy, Answered
<1> QED
  BY <1>1, <1>2, <1>3, Numbers, DisturbedTime DEF Mirror

(* The heart of the matter: a lease that has run out has outlasted the     *)
(* last success by so much that two attempts have failed, or are late.     *)
LEMMA ExpiryLate ==
  ASSUME Mirror, NEW o \in Objects, Expire(o)
  PROVE  /\ failed + (IF Overdue THEN 1 ELSE 0) >= 2
         /\ failed >= 1 /\ ~Answered
<1>1. Lasts(0)
  BY DEF Expire, Mirror, TimeInv, LeasesLast
<1>2. ~Answered
  BY <1>1, Numbers DEF Mirror, Delays, Lasts
<1>3. failed # 0
  BY <1>1, <1>2, Numbers DEF Mirror, Delays, Lasts, Margin
<1>4. failed = 1 => Overdue
  BY <1>1, <1>2, Numbers DEF Mirror, Delays, Lasts, Margin, Overdue
<1> QED
  BY <1>2, <1>3, <1>4, Numbers DEF Mirror

LEMMA ExpireTime ==
  ASSUME Mirror, NEW o \in Objects, Expire(o)
  PROVE  TimeInv'
<1>1. /\ leases' \subseteq leases
      /\ UNCHANGED <<running, stage, age, resync, idles, tickIn, logind, steam,
                     failed, calm>>
  BY DEF Expire, process, history
<1>2. busy' = busy /\ Answered' = Answered
  BY <1>1 DEF busy, Answered
<1>3. failed >= 1 /\ ~Answered
  BY ExpiryLate
<1>4. LeasesLast'
  BY <1>1, <1>2 DEF Mirror, TimeInv, LeasesLast, Lasts, Margin
<1>5. FewFailures' /\ NoTickMissed' /\ MendedSoon'
  BY <1>1, <1>2, <1>3
  DEF Mirror, TimeInv, FewFailures, NoTickMissed, MendedSoon
<1>6. OutdatedYoung'
  BY <1>1, <1>2, <1>3
  DEF Mirror, TimeInv, OutdatedYoung, Outdated, logind
<1> QED
  BY <1>4, <1>5, <1>6 DEF TimeInv

(* A second passes.                                                        *)
LEMMA SecondTime ==
  ASSUME Mirror, Second
  PROVE  TimeInv'
<1>1. /\ UNCHANGED <<running, resync, idles, inhibited, steam, owned, failed>>
      /\ stage' = IF stage = "reading" THEN "stalled" ELSE stage
      /\ age' = IF busy THEN age + 1 ELSE 0
      /\ tickIn' = IF running /\ tickIn > 0 THEN tickIn - 1 ELSE tickIn
      /\ calm' \in Nat /\ calm' <= calm + 1
  BY Numbers DEF Second, logind, Mirror
<1>2. busy' = busy /\ Answered' = Answered /\ (busy => running)
  BY <1>1 DEF busy, Answered, Mirror, GuardInv, InTime
<1>3. running => \/ stage = "reading" /\ age <= AttemptTime
                 \/ stage # "reading" /\ tickIn > 0 /\ idles = 0
  BY Numbers DEF Second, Loop, Reading, Mirror, GuardInv, InTime
<1>4. FewFailures'
  BY <1>1 DEF Mirror, TimeInv, FewFailures
<1>5. NoTickMissed'
  BY <1>1, <1>2, <1>3, Numbers DEF Mirror, Delays, TimeInv, NoTickMissed, busy
<1>6. LeasesLast'
  <2> SUFFICES ASSUME NEW l \in leases PROVE Lasts(l[2] - 1)'
    BY DEF Second, LeasesLast
  <2>1. Lasts(l[2]) /\ l[2] \in Nat
    BY Numbers DEF Mirror, TimeInv, LeasesLast
  <2>2. CASE running /\ stage = "reading"
    BY <1>1, <1>2, <1>3, <2>1, <2>2, Numbers
    DEF Mirror, Delays, Lasts, Margin, Answered, busy
  <2>3. CASE running /\ stage # "reading"
    BY <1>1, <1>2, <1>3, <2>1, <2>3, Numbers
    DEF Mirror, Lasts, Margin, Answered, busy
  <2>4. CASE ~running
    <3>1. failed = 2 /\ ~busy /\ ~Answered
      BY <1>2, <2>4, Numbers
      DEF Mirror, TimeInv, FewFailures, GuardInv, InTime, busy, Answered
    <3> QED BY <1>1, <1>2, <3>1 DEF Lasts
  <2> QED BY <2>2, <2>3, <2>4
<1>7. MendedSoon'
  <2>1. Unsynced' = Unsynced
    BY <1>1 DEF Unsynced
  <2>2. running /\ ~busy => tickIn > 0 /\ idles = 0
    BY <1>3 DEF busy
  <2> QED BY <1>1, <1>2, <2>1, <2>2, Numbers DEF Mirror, TimeInv, MendedSoon
<1>8. OutdatedYoung'
  <2>1. Outdated' => Outdated /\ busy
    BY <1>1, <1>2 DEF Outdated, Unsynced, busy, Answered
  <2> QED BY <1>1, <2>1, Numbers DEF Mirror, TimeInv, OutdatedYoung
<1> QED
  BY <1>4, <1>5, <1>6, <1>7, <1>8 DEF TimeInv

LEMMA TimeStep ==
  ASSUME Mirror, GuardInv', [Next]_vars
  PROVE  TimeInv'
<1>0. GuardInv
  BY DEF Mirror
<1>1. CASE Tick \/ PropertiesChanged \/ IdleSync
  BY <1>0, <1>1, SyncTime, Numbers
  DEF Tick, PropertiesChanged, IdleSync, Loop, logind
<1>2. CASE Timeout \/ ConnectFails \/ ReadFails \/ SocketError
  BY <1>2, FinishTime DEF Timeout, ConnectFails, ReadFails, SocketError
<1>3. CASE Message
  <2>1. CASE stage = "answered"
    BY <1>3, <2>1, FinishTime DEF Message, Answered
  <2>2. CASE stage # "answered"
    BY <1>3, <2>2, FinishTime DEF Message
  <2> QED BY <2>1, <2>2
<1>4. CASE Targets
  <2>1. CASE Finish(FALSE, {})
    BY <2>1, FinishTime
  <2>2. CASE Proceed("ws")
    BY <1>4, <2>2, ProceedTime DEF Targets, Proceed, Answered, busy
  <2> QED BY <1>4, <2>1, <2>2 DEF Targets
<1>5. CASE Connected
  BY <1>5, ProceedTime DEF Connected, Answered, busy
<1>6. CASE SendScript
  <2>1. busy /\ ~Answered
    BY <1>6 DEF SendScript, Reading, busy, Answered
  <2>2. CASE Proceed("silent")
    BY <2>1, <2>2, ProceedTime DEF Proceed
  <2>3. CASE Proceed(IF inhibited THEN "block" ELSE "release")
    <3>1. stage' = IF inhibited THEN "block" ELSE "release"
      BY <2>3 DEF Proceed
    <3>2. stage' \notin {"none", "answered"}
      BY <3>1
    <3> QED BY <2>1, <2>3, <3>1, <3>2, ProceedTime DEF Proceed
  <2> QED BY <1>6, <2>2, <2>3 DEF SendScript
<1>7. CASE ConnectedLate \/ UNCHANGED vars
  <2>1. UNCHANGED <<running, stage, age, resync, idles, tickIn, logind, steam,
                    window, history>>
    BY <1>7 DEF ConnectedLate, vars, process
  <2>2. busy' = busy /\ Answered' = Answered
    BY <2>1 DEF busy, Answered
  <2>3. LeasesLast' = LeasesLast
    BY <2>1, <2>2 DEF LeasesLast, Lasts, Margin, window, history
  <2> QED BY <2>1, <2>2, <2>3
          DEF Mirror, TimeInv, FewFailures, NoTickMissed, MendedSoon,
              OutdatedYoung, Outdated, Unsynced, window, history, logind
<1>8. CASE RunScript
  BY <1>8, RunScriptTime
<1>9. CASE \E s \in {"block", "release"} : RunLate(s)
  BY <1>9, RunLateTime
<1>10. CASE \E o \in Objects : Expire(o)
  BY <1>10, ExpireTime
<1>11. CASE Second
  BY <1>11, SecondTime
<1>12. CASE SteamStops
  <2>1. /\ calm' = 0 /\ leases' = {} /\ tickIn' = tickIn
        /\ UNCHANGED <<running, failed, resync, idles, age>>
        /\ stage' = IF stage \in {"block", "release", "answered", "rejected"}
                    THEN "silent" ELSE stage
    BY <1>12 DEF SteamStops
  <2>2. busy' = busy /\ ~Answered'
    BY <2>1 DEF busy, Answered
  <2> QED BY <1>0, <2>1, <2>2, Numbers, DisturbedTime
<1>13. CASE SteamStarts \/ InhibitorChanges
  <2>1. /\ calm' = 0 /\ leases' = leases /\ tickIn' = tickIn /\ stage' = stage
        /\ UNCHANGED <<running, failed, resync, idles, age>>
    BY <1>13 DEF SteamStarts, InhibitorChanges, process, window
  <2>2. busy' = busy /\ Answered' = Answered
    BY <2>1 DEF busy, Answered
  <2> QED BY <1>0, <2>1, <2>2, Numbers, DisturbedTime
<1>14. CASE GuardStops
  BY <1>14
  DEF GuardStops, TimeInv, FewFailures, NoTickMissed, LeasesLast, Lasts,
      MendedSoon, OutdatedYoung, Outdated, Answered, busy
<1>15. CASE GuardStarts
  <2>1. /\ running' /\ calm' = 0 /\ leases' = leases /\ failed' = failed
        /\ stage' = stage /\ age' = age /\ idles' = 1
    BY <1>15 DEF GuardStarts, window
  <2>2. failed = 2 /\ ~busy /\ ~busy' /\ ~Answered'
    BY <1>0, <1>15, <2>1, Numbers
    DEF Mirror, TimeInv, FewFailures, GuardInv, InTime, GuardStarts, busy, Answered
  <2> QED BY <1>0, <2>1, <2>2, Numbers
          DEF TimeInv, FewFailures, NoTickMissed, LeasesLast, Lasts, MendedSoon,
              OutdatedYoung
<1> QED
  BY StepCases, <1>1, <1>2, <1>3, <1>4, <1>5, <1>6, <1>7, <1>8, <1>9, <1>10,
     <1>11, <1>12, <1>13, <1>14, <1>15

(* With such delays the mirror is in time in every behaviour.              *)
LEMMA MirrorInvariant ==
  ASSUME Delays
  PROVE  Spec => []Mirror
<1>1. Init => TimeInv
  BY GuardAssumption
  DEF Init, TimeInv, FewFailures, NoTickMissed, LeasesLast, MendedSoon,
      OutdatedYoung, Outdated, Answered, busy
<1>2. GuardInv /\ OneBlocker /\ GuardInv' /\ TimeInv /\ [Next]_vars => TimeInv'
  BY TimeStep DEF Mirror
<1>3. Spec => [](GuardInv /\ OneBlocker /\ TimeInv)
  BY <1>1, <1>2, GuardInvariant, BlockersCorrect, PTL DEF Spec
<1>4. GuardInv /\ OneBlocker /\ TimeInv => Mirror
  BY DEF Mirror
<1> QED
  BY <1>3, <1>4, PTL

(* Left alone for a tick and an attempt's time, Steam is blocked exactly   *)
(* if sleep is: a change of the inhibitors that came during an attempt is  *)
(* made good by the next one, a lease is renewed before it runs out, and   *)
(* no script that is out of date runs so late.                             *)
THEOREM MirrorCorrect ==
  ASSUME Delays
  PROVE  Spec => []MirrorSettles
<1>1. Mirror => MirrorSettles
  <2> SUFFICES ASSUME Mirror, running, steam = "ready", calm = Settle, ~Overdue,
                      Unsynced
               PROVE  FALSE
    BY DEF MirrorSettles, Unsynced
  <2>1. IF busy THEN calm <= TickPeriod + age ELSE calm <= TickPeriod
    BY DEF Mirror, TimeInv, MendedSoon
  <2> QED BY <2>1, Numbers DEF Mirror, Overdue, Settle
<1> QED
  BY <1>1, MirrorInvariant, PTL

(* The lease outlasts a failed attempt, whatever the failures, restarts    *)
(* and late scripts before it.                                             *)
THEOREM LeaseOutlasts ==
  ASSUME Delays
  PROVE  Spec => LeaseOutlastsFailure
<1>1. Mirror =>
        [\A o \in Objects : Expire(o) =>
           failed + (IF Overdue THEN 1 ELSE 0) >= 2]_vars
  BY ExpiryLate
<1> QED
  BY <1>1, MirrorInvariant, PTL DEF LeaseOutlastsFailure
=============================================================================
