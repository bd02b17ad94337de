----------------------------- MODULE SuspendGuard -----------------------------
(***************************************************************************)
(* steam-inhibitor-guard.py: mirrors logind's sleep inhibitors into a      *)
(* suspend blocker that a script creates inside Steam and that expires     *)
(* when it is not renewed.  The guard is one main loop: a step is one of   *)
(* its callbacks, a script or timer of Steam, a change in logind or Steam, *)
(* or the passing of a second.                                             *)
(*                                                                         *)
(* A callback carries the generation of its attempt and compares it with   *)
(* the guard's, so it is either one of the attempt under way or a late     *)
(* one.  Late timeouts, target lists and messages return at once and are   *)
(* left out.                                                               *)
(***************************************************************************)
EXTENDS Integers

CONSTANTS
  Objects,      \* the objects that the script keeps under its window key
  TickPeriod,   \* seconds between two ticks (5)
  AttemptTime,  \* seconds after which an attempt is given up (4)
  Lease,        \* seconds after which Steam drops the blocker (15)
  GuardMayStop, \* may the guard's process end
  SteamMayStop, \* may Steam end
  NULL

ASSUME GuardAssumption ==
  /\ TickPeriod \in Nat \ {0} /\ AttemptTime \in Nat \ {0}
  /\ Lease \in Nat \ {0} /\ NULL \notin Objects
  /\ GuardMayStop \in BOOLEAN /\ SteamMayStop \in BOOLEAN

VARIABLES
  running,     \* the guard's process is there
  stage,       \* what the attempt under way waits for; "none": not busy
  age,         \* seconds since that attempt began
  resync, socket,
  idles,       \* calls of sync queued with idle_add
  tickIn,      \* seconds until the next tick
  websockets,  \* websockets that the guard holds open
  late,        \* what attempts that are over have left on its way: "ws", a
               \* websocket being connected, "block" and "release", scripts
  inhibited,   \* logind: somebody blocks sleep
  signal,      \* its PropertiesChanged signal is on the way
  steam,       \* Steam is "down", "loading" (without the store) or "ready"
  owned,       \* window[key]
  held,        \* objects whose blocker is not released
  leases,      \* pending timers in Steam: <<object, seconds left>>
  failed,      \* history: attempts in a row that failed, up to 2
  calm         \* history: seconds since logind, Steam, the guard, a failure
               \* or a late script last disturbed the mirror

process == <<running, stage, age, resync, socket, idles, websockets, late>>
logind  == <<inhibited, signal>>
window  == <<owned, held, leases>>
history == <<failed, calm>>
vars    == <<process, tickIn, logind, steam, window, history>>

Stages == {"none", "http", "ws", "reading", "stalled", "block", "release",
           "answered", "rejected", "silent"}
Settle == TickPeriod + AttemptTime + 1

busy == stage # "none"

(* The main loop waits in the synchronous call of blocked(): no other      *)
(* callback runs until it returns, which takes at most a second.           *)
Reading == stage \in {"reading", "stalled"}
Loop    == running /\ ~Reading
-----------------------------------------------------------------------------
(* Mutant of Sync: a change during an attempt is forgotten.                *)
SyncOnce ==
  /\ IF busy THEN UNCHANGED <<stage, age>> ELSE stage' = "http" /\ age' = 0
  /\ UNCHANGED <<running, resync, socket, websockets, late, steam, window,
                 history>>

Sync ==
  /\ IF busy THEN resync' = TRUE /\ UNCHANGED <<stage, age>>
             ELSE stage' = "http" /\ age' = 0 /\ UNCHANGED resync
  /\ UNCHANGED <<running, socket, websockets, late, steam, window, history>>

Tick ==
  /\ Loop /\ tickIn = 0
  /\ tickIn' = TickPeriod
  /\ Sync
  /\ UNCHANGED <<idles, logind>>

PropertiesChanged ==
  /\ Loop /\ signal
  /\ signal' = FALSE
  /\ Sync
  /\ UNCHANGED <<idles, tickIn, inhibited>>

IdleSync ==
  /\ Loop /\ idles > 0
  /\ idles' = idles - 1
  /\ Sync
  /\ UNCHANGED <<tickIn, logind>>

(* Mutant of Finish: the websocket is closed whether there is one or not.  *)
FinishCloses(good, leftover) ==
  /\ busy
  /\ stage' = "none" /\ age' = 0
  /\ socket' = FALSE
  /\ websockets' = websockets - 1
  /\ late' = late \cup leftover
  /\ resync' = FALSE /\ idles' = IF resync THEN idles + 1 ELSE idles
  /\ failed' = IF good THEN 0 ELSE IF failed = 0 THEN 1 ELSE 2
  /\ calm' = IF good THEN calm ELSE 0
  /\ UNCHANGED <<running, tickIn, logind, steam, window>>

(* finish, of the attempt under way, which leaves something on its way.    *)
Finish(good, leftover) ==
  /\ busy
  /\ stage' = "none" /\ age' = 0
  /\ socket' = FALSE
  /\ websockets' = IF socket THEN websockets - 1 ELSE websockets
  /\ late' = late \cup leftover
  /\ resync' = FALSE /\ idles' = IF resync THEN idles + 1 ELSE idles
  /\ failed' = IF good THEN 0 ELSE IF failed = 0 THEN 1 ELSE 2
  /\ calm' = IF good THEN calm ELSE 0
  /\ UNCHANGED <<running, tickIn, logind, steam, window>>

Leftover == {stage} \cap {"ws", "block", "release"}

(* Mutant of Timeout: an attempt that has its websocket is not given up.   *)
TimeoutConnecting ==
  /\ Loop /\ busy /\ age >= AttemptTime
  /\ ~socket
  /\ Finish(FALSE, Leftover)

Timeout ==
  /\ Loop /\ busy /\ age >= AttemptTime
  /\ Finish(FALSE, Leftover)

(* The next stage of the attempt.                                          *)
Proceed(s) ==
  /\ stage' = s
  /\ UNCHANGED <<running, age, resync, socket, idles, tickIn, websockets,
                 late, logind, steam, window, history>>

(* The list of targets has arrived, or could not be had.                   *)
Targets ==
  /\ Loop /\ stage = "http"
  /\ Finish(FALSE, {}) \/ (steam # "down" /\ Proceed("ws"))

ConnectFails == Loop /\ stage = "ws" /\ Finish(FALSE, {})

Connected ==
  /\ Loop /\ stage = "ws" /\ steam # "down"
  /\ stage' = "reading" /\ socket' = TRUE /\ websockets' = websockets + 1
  /\ UNCHANGED <<running, age, resync, idles, tickIn, late, logind, steam,
                 window, history>>

(* Mutant of ConnectedLate: a websocket that comes too late is kept.       *)
ConnectedKept ==
  /\ Loop /\ "ws" \in late
  /\ late' = late \ {"ws"}
  /\ socket' = TRUE /\ websockets' = websockets + 1
  /\ UNCHANGED <<running, stage, age, resync, idles, tickIn, logind, steam,
                 window, history>>

(* A websocket that comes too late is closed, if it comes at all.          *)
ConnectedLate ==
  /\ Loop /\ "ws" \in late
  /\ late' = late \ {"ws"}
  /\ UNCHANGED <<running, stage, age, resync, socket, idles, tickIn,
                 websockets, logind, steam, window, history>>

(* blocked() has returned: the script is sent, or the websocket has closed *)
(* in the meantime and nothing comes back.                                 *)
SendScript ==
  /\ running /\ Reading
  /\ \/ Proceed("silent")
     \/ steam # "down" /\ Proceed(IF inhibited THEN "block" ELSE "release")

ReadFails == running /\ Reading /\ Finish(FALSE, {})

(* The error signal of the websocket, at any moment after it is connected, *)
(* an answer on its way included; one that merely closes has none.         *)
SocketError ==
  /\ Loop /\ socket
  /\ Finish(FALSE, Leftover)

Message ==
  /\ Loop /\ stage \in {"answered", "rejected"}
  /\ Finish(stage = "answered", {})
-----------------------------------------------------------------------------
(* The script, lines 83-99.                                                *)
TimersOf(o) == {l \in leases : l[1] = o}

Acquire(o) ==
  /\ o \notin held /\ TimersOf(o) = {}
  /\ owned' = o /\ held' = held \cup {o}

(* Mutants of Block: the timer is set when the blocker is taken and never  *)
(* again; a blocker is taken although there is one; there is no timer.     *)
BlockOnce ==
  IF owned = NULL
  THEN \E o \in Objects : Acquire(o) /\ leases' = leases \cup {<<o, Lease>>}
  ELSE UNCHANGED window

BlockAgain ==
  \E o \in Objects : Acquire(o) /\ leases' = leases \cup {<<o, Lease>>}

BlockForever ==
  IF owned = NULL
  THEN \E o \in Objects : Acquire(o) /\ UNCHANGED leases
  ELSE UNCHANGED window

Block ==
  IF owned = NULL
  THEN \E o \in Objects : Acquire(o) /\ leases' = leases \cup {<<o, Lease>>}
  ELSE /\ leases' = (leases \ TimersOf(owned)) \cup {<<owned, Lease>>}
       /\ UNCHANGED <<owned, held>>

Unblock ==
  IF owned = NULL
  THEN UNCHANGED window
  ELSE /\ leases' = leases \ TimersOf(owned)
       /\ held' = held \ {owned}
       /\ owned' = NULL

Evaluate(s) ==
  IF steam = "loading" THEN UNCHANGED window
  ELSE IF s = "block" THEN Block ELSE Unblock

RunScript ==
  /\ stage \in {"block", "release"} /\ steam # "down"
  /\ Evaluate(stage)
  /\ stage' = IF steam = "loading" THEN "rejected" ELSE "answered"
  /\ UNCHANGED <<running, age, resync, socket, idles, tickIn, websockets,
                 late, logind, steam, history>>

(* A script runs although its attempt is over, in any order with others.   *)
RunLate(s) ==
  /\ s \in late /\ steam # "down"
  /\ Evaluate(s)
  /\ late' = late \ {s}
  /\ calm' = 0
  /\ UNCHANGED <<running, stage, age, resync, socket, idles, tickIn,
                 websockets, logind, steam, failed>>

(* The timer that the script has set goes off.                             *)
Expire(o) ==
  /\ <<o, 0>> \in leases
  /\ leases' = leases \ {<<o, 0>>}
  /\ IF owned = o THEN owned' = NULL /\ held' = held \ {o}
                  ELSE UNCHANGED <<owned, held>>
  /\ UNCHANGED <<process, tickIn, logind, steam, history>>

(* With Steam's page go the blockers, the timers and the scripts.          *)
SteamStops ==
  /\ SteamMayStop /\ steam # "down"
  /\ steam' = "down"
  /\ owned' = NULL /\ held' = {} /\ leases' = {}
  /\ stage' = IF stage \in {"block", "release", "answered", "rejected"}
              THEN "silent" ELSE stage
  /\ late' = late \ {"block", "release"}
  /\ calm' = 0
  /\ UNCHANGED <<running, age, resync, socket, idles, tickIn, websockets,
                 logind, failed>>

SteamStarts ==
  /\ steam # "ready"
  /\ steam' = IF steam = "down" THEN "loading" ELSE "ready"
  /\ calm' = 0
  /\ UNCHANGED <<process, tickIn, logind, window, failed>>
-----------------------------------------------------------------------------
(* Somebody takes the first sleep inhibitor or gives back the last.        *)
(* Bound: not while a signal or an idle call of an earlier change waits.   *)
InhibitorChanges ==
  /\ ~signal /\ idles = 0
  /\ inhibited' = ~inhibited /\ signal' = running
  /\ calm' = 0
  /\ UNCHANGED <<process, tickIn, steam, window, failed>>

(* The process ends; scripts it has sent are out of its hands.             *)
GuardStops ==
  /\ GuardMayStop /\ running
  /\ running' = FALSE /\ stage' = "none" /\ age' = 0 /\ resync' = FALSE
  /\ socket' = FALSE /\ websockets' = 0 /\ idles' = 0 /\ signal' = FALSE
  /\ tickIn' = TickPeriod
  /\ late' = (late \cup Leftover) \ {"ws"}
  /\ failed' = 2 /\ calm' = 0
  /\ UNCHANGED <<inhibited, steam, window>>

GuardStarts ==
  /\ ~running
  /\ running' = TRUE /\ idles' = 1
  /\ calm' = 0
  /\ UNCHANGED <<stage, age, resync, socket, websockets, late, tickIn, logind,
                 steam, window, failed>>

(* A second passes.  Timers, idle calls and signals are not late, unless   *)
(* the main loop waits for logind, which takes it less than a second.      *)
Second ==
  /\ stage # "stalled"
  /\ Loop => tickIn > 0 /\ idles = 0 /\ ~signal /\ age < AttemptTime
  /\ \A l \in leases : l[2] > 0
  /\ tickIn' = IF running /\ tickIn > 0 THEN tickIn - 1 ELSE tickIn
  /\ age' = IF busy THEN age + 1 ELSE 0
  /\ stage' = IF stage = "reading" THEN "stalled" ELSE stage
  /\ leases' = {<<l[1], l[2] - 1>> : l \in leases}
  /\ calm' = IF calm < Settle THEN calm + 1 ELSE calm
  /\ UNCHANGED <<running, resync, socket, idles, websockets, late, logind,
                 steam, owned, held, failed>>
-----------------------------------------------------------------------------
Init ==
  /\ running = FALSE /\ stage = "none" /\ age = 0 /\ resync = FALSE
  /\ socket = FALSE /\ websockets = 0 /\ late = {}
  /\ idles = 0 /\ tickIn = TickPeriod
  /\ inhibited = FALSE /\ signal = FALSE
  /\ steam = "down" /\ owned = NULL /\ held = {} /\ leases = {}
  /\ failed = 2 /\ calm = 0

Guard ==
  \/ Tick \/ PropertiesChanged \/ IdleSync \/ Timeout
  \/ Targets \/ ConnectFails \/ Connected \/ ConnectedLate
  \/ SendScript \/ ReadFails \/ SocketError \/ Message

Steam ==
  \/ RunScript
  \/ \E s \in {"block", "release"} : RunLate(s)
  \/ \E o \in Objects : Expire(o)

Next ==
  \/ Guard \/ Steam \/ Second
  \/ SteamStops \/ SteamStarts \/ InhibitorChanges \/ GuardStops \/ GuardStarts

Spec == Init /\ [][Next]_vars

(* Time passes whatever else happens, the main loop runs its callbacks and *)
(* comes to every timer that is due, and Steam runs its scripts and timers. *)
FairSpec ==
  /\ Spec
  /\ SF_vars(Second) /\ WF_vars(Steam)
  /\ WF_vars(Guard) /\ WF_vars(Tick) /\ WF_vars(Timeout)
-----------------------------------------------------------------------------
(* Type invariant of the guard and its surroundings.                       *)
TypeOK ==
  /\ running \in BOOLEAN /\ resync \in BOOLEAN /\ socket \in BOOLEAN
  /\ stage \in Stages /\ age \in 0 .. AttemptTime + 1
  /\ idles \in Nat /\ tickIn \in 0 .. TickPeriod /\ websockets \in Nat
  /\ late \subseteq {"ws", "block", "release"}
  /\ inhibited \in BOOLEAN /\ signal \in BOOLEAN
  /\ steam \in {"down", "loading", "ready"}
  /\ owned \in Objects \cup {NULL} /\ held \subseteq Objects
  /\ leases \subseteq Objects \X (0 .. Lease)
  /\ failed \in 0 .. 2 /\ calm \in 0 .. Settle

(* Steam carries exactly the blocker that the window key records, and that *)
(* one has exactly one timer running: none is leaked, which would keep the *)
(* machine awake until Steam restarts, and none is without an end.         *)
(* (the script; DISPLAY-RECOVERY.md: it releases only its own blocker, and *)
(* a fifteen-second lease expires if the guard stops responding)           *)
OneBlocker ==
  IF owned = NULL
  THEN held = {} /\ leases = {}
  ELSE held = {owned} /\ \E n \in 0 .. Lease : leases = {<<owned, n>>}

(* The guard holds a websocket open only for the attempt under way: one    *)
(* that connects after its attempt was given up is not left behind, nor    *)
(* does it take the place of the next attempt's.  (connected, finish)      *)
NoSocketLeft == (socket => busy) /\ websockets = IF socket THEN 1 ELSE 0

Overdue == busy /\ age > AttemptTime

(* Once logind, Steam and the guard have been left alone for more than a   *)
(* tick and an attempt's time, and no attempt has failed or is past its    *)
(* time, Steam is blocked exactly if sleep is: no change is forgotten that *)
(* came during an attempt.  (sync's resync, tick, the script)              *)
MirrorSettles ==
  running /\ steam = "ready" /\ calm = Settle /\ ~Overdue =>
    (owned # NULL) = inhibited

(* The lease outlasts a failed attempt: it runs out only after two in a    *)
(* row have failed or are past their time, or when the guard was stopped.  *)
(* (tick, timeout, the script's 15000)                                     *)
LeaseOutlastsFailure ==
  [][\A o \in Objects : Expire(o) =>
       failed + (IF Overdue THEN 1 ELSE 0) >= 2]_vars

(* The guard never hangs in an attempt, which would end all mirroring as   *)
(* every sync would return at once.  (sync, timeout, finish)               *)
AttemptsEnd == busy ~> ~busy

(* When the guard is gone for good, so is its blocker.  (the lease)        *)
BlockerEnds == <>[]~running => <>[](owned = NULL)
=============================================================================
