------------------------------ MODULE HidDriver ------------------------------
(***************************************************************************)
(* The virtual Steam Controller driver, windows-native/driver.cpp: one     *)
(* device, one owning file (the broker), a table of HID operations waiting *)
(* for the broker's answer, a ring of input reports on their way to VHF    *)
(* (the Windows Virtual HID Framework).  A step is a section under the SRW *)
(* lock, a call out of the driver, or the wait for such a call to return.  *)
(***************************************************************************)
EXTENDS Integers, FiniteSets

CONSTANTS
  Files,          \* file objects that brokers open on the control device
  Handles,        \* VHF operation handles; VHF uses one again once completed
  NumSlots,       \* entries of context.requests (32 in the code)
  Cap,            \* entries of context.inputs (256 in the code)
  MaxId,          \* bound: how many operations are ever accepted
  MaxReport,      \* bound: how many input reports are ever accepted
  Kinds,          \* what the HID stack asks for: "get" a feature, "send" a
                  \* permitted feature or an output report, an "unsafe" feature
                  \* write, or a report that fails validation
  Verdicts,       \* what replies may be: "ok", "mismatch" (size or report id of
                  \* the data differ from the request's), "error" (status # 0)
  SubmitMayFail,  \* may VhfReadReportSubmit fail on a started device
  StartMayFail,   \* may WdfIoTargetOpen, VhfCreate or VhfStart fail
  Overlapped,     \* may a broker close its file with a request in flight
  NULL

Slots  == 1 .. NumSlots
Worker == {"ioctl", "release"} \cup Files  \* the takers of context.lifetime
Pumper == {"ioctl", "ready"}               \* the callers of pump
Thread == {"ioctl", "release", "tick", "ready"} \cup Files \cup Handles

ASSUME HidAssumption ==
  /\ NumSlots \in Nat /\ Cap \in Nat \ {0}
  /\ MaxId \in Nat /\ MaxReport \in Nat
  /\ Kinds \subseteq {"malformed", "unsupported", "get", "send", "unsafe"}
  /\ "error" \in Verdicts /\ Verdicts \subseteq {"ok", "mismatch", "error"}
  /\ SubmitMayFail \in BOOLEAN /\ StartMayFail \in BOOLEAN
  /\ Overlapped \in BOOLEAN
  /\ NULL \notin Files \cup Handles /\ NULL \notin {"ioctl", "release"}
  /\ Files \cap Handles = {}
  /\ (Files \cup Handles) \cap {"ioctl", "release", "tick", "ready"} = {}

VARIABLES
  \* context, lines 23-35
  vhf, owner, opened, stopping, ready, pumping, next_id, requests,
  inputs, head, count,
  lifetime,    \* the worker that holds the wait lock, or NULL
  timer,       \* the device is prepared: the timer runs, the queue is powered
  pc,          \* where each thread is
  call,        \* the request that the sequential queue has handed to ioctl
  doomed,      \* destroy's local h: there is a VHF device to delete
  completing,  \* completing[t]: operations out of the table, not yet completed
  report,      \* report[t]: the input report pump has popped
  \* VHF and the HID stack above it
  vhfState, op, filled, want,
  \* history
  lastPolled,  \* the id that poll returned last
  accepted,    \* input reports accepted so far; report n is the n-th of them
  taken,       \* the last report popped by pump or discarded with its session
  credit       \* VHF has asked for a report that it has not been given

ctx     == <<vhf, owner, opened, stopping, ready, pumping, next_id, requests,
             inputs, head, count>>
ring    == <<inputs, head, count>>
session == <<vhf, owner, opened, stopping>>
flow    == <<ready, pumping>>
table   == <<next_id, requests, lastPolled>>
locks   == <<lifetime, timer, call, doomed>>
hid     == <<vhfState, op, filled, want, credit>>
counts  == <<accepted, taken>>
vars    == <<ctx, locks, pc, completing, report, hid, lastPolled, counts>>
-----------------------------------------------------------------------------
Status   == {"SUCCESS", "UNSUCCESSFUL", "NOT_SUPPORTED", "INVALID_PARAMETER",
             "DEVICE_NOT_READY", "DEVICE_BUSY", "IO_TIMEOUT", "CANCELLED"}
Labels   == {"idle", "closed", "open", "acquire", "finish", "close", "drain",
             "start", "claim", "vhfcreate", "publish", "vhfstart", "starting",
             "input", "poll", "reply", "answer",
             "destroy", "expire", "cancel", "delete", "reset",
             "ready", "pump", "take", "submit", "submitted", "failed",
             "enqueue"}
Codes    == {"start", "stop", "input", "poll", "reply"}

(* pending: an entry whose handle is NULL is free.  "due" abstracts the    *)
(* comparison of the deadline with the tick count.                         *)
Request == [handle : Handles \cup {NULL}, id : Nat,
            op : Kinds \cup {"none", "blocked"},
            delivered : BOOLEAN, due : BOOLEAN]
Empty   == [handle |-> NULL, id |-> 0, op |-> "none",
            delivered |-> FALSE, due |-> FALSE]
Used    == {s \in Slots : requests[s].handle # NULL}

Call   == [file : Files \cup {NULL}, code : Codes \cup {"none"},
           id : Nat, verdict : Verdicts]
NoCall == [file |-> NULL, code |-> "none", id |-> 0, verdict |-> "error"]

Goto(t, label) == pc' = [pc EXCEPT ![t] = label]
-----------------------------------------------------------------------------
(* expire: the handles leave the table under the lock and are completed    *)
(* after it, by the thread that took them out.                             *)
Expire(t, S, status) ==
  /\ requests' = [s \in Slots |-> IF s \in S THEN Empty ELSE requests[s]]
  /\ completing' = [completing EXCEPT
                      ![t] = {<<requests[s].handle, status>> : s \in S}]

(* VhfAsyncOperationComplete: the operation is over, its handle is free.   *)
Complete(t) ==
  /\ \E c \in completing[t] :
       /\ completing' = [completing EXCEPT ![t] = @ \ {c}]
       /\ op' = [op EXCEPT ![c[1]] = "none"]
       /\ filled' = filled \ {c[1]}
  /\ UNCHANGED <<ctx, locks, pc, report, vhfState, want, credit, lastPolled,
                 counts>>

(* The two seconds of an entry run out; entries age in the order of their  *)
(* ids, both being assigned in the same section of enqueue.                *)
DeadlinePasses(s) ==
  /\ s \in Used /\ ~requests[s].due
  /\ \A r \in Used : requests[r].id < requests[s].id => requests[r].due
  /\ requests' = [requests EXCEPT ![s].due = TRUE]
  /\ UNCHANGED <<session, flow, next_id, ring, locks, pc, completing, report,
                 hid, lastPolled, counts>>

(* Mutant of Tick: what a broker has polled no longer times out.           *)
TickSkipsDelivered ==
  LET overdue == {s \in Used : requests[s].due /\ ~requests[s].delivered} IN
  /\ timer
  /\ completing["tick"] = {}
  /\ overdue # {}
  /\ Expire("tick", overdue, "IO_TIMEOUT")
  /\ UNCHANGED <<session, flow, next_id, ring, locks, pc, report, hid,
                 lastPolled, counts>>

Tick ==
  LET overdue == {s \in Used : requests[s].due} IN
  /\ timer
  /\ completing["tick"] = {}
  /\ overdue # {}
  /\ Expire("tick", overdue, "IO_TIMEOUT")
  /\ UNCHANGED <<session, flow, next_id, ring, locks, pc, report, hid,
                 lastPolled, counts>>
-----------------------------------------------------------------------------
(* pump, called by ioctl after an input and by the ready callback.         *)
AfterPump(t) == IF t = "ioctl" THEN "finish" ELSE "idle"

(* Mutant of PumpEnter: pumping is set but never looked at.                *)
PumpReenters(t) ==
  /\ pc[t] = "pump"
  /\ pumping' = TRUE
  /\ Goto(t, "take")
  /\ UNCHANGED <<session, ready, table, ring, locks, completing, report, hid,
                 counts>>

PumpEnter(t) ==
  /\ pc[t] = "pump"
  /\ pumping' = TRUE
  /\ Goto(t, IF pumping THEN AfterPump(t) ELSE "take")
  /\ UNCHANGED <<session, ready, table, ring, locks, completing, report, hid,
                 counts>>

NothingToPump == stopping \/ ~vhf \/ ~ready \/ count = 0

(* Mutant of PumpLeave: the early return forgets pumping = false.          *)
PumpStaysMarked(t) ==
  /\ pc[t] = "take" /\ NothingToPump
  /\ Goto(t, AfterPump(t))
  /\ UNCHANGED <<session, flow, table, ring, locks, completing, report, hid,
                 counts>>

PumpLeave(t) ==
  /\ pc[t] = "take" /\ NothingToPump
  /\ pumping' = FALSE
  /\ Goto(t, AfterPump(t))
  /\ UNCHANGED <<session, ready, table, ring, locks, completing, report, hid,
                 counts>>

(* Mutant of PumpTake: ready is not withdrawn with the report.             *)
PumpStaysReady(t) ==
  /\ pc[t] = "take" /\ ~NothingToPump
  /\ report' = [report EXCEPT ![t] = inputs[head]]
  /\ head' = (head + 1) % Cap
  /\ count' = count - 1
  /\ taken' = taken + 1
  /\ Goto(t, "submit")
  /\ UNCHANGED <<session, flow, table, inputs, locks, completing, hid,
                 accepted>>

PumpTake(t) ==
  /\ pc[t] = "take" /\ ~NothingToPump
  /\ report' = [report EXCEPT ![t] = inputs[head]]
  /\ head' = (head + 1) % Cap
  /\ count' = count - 1
  /\ ready' = FALSE
  /\ taken' = taken + 1
  /\ Goto(t, "submit")
  /\ UNCHANGED <<session, pumping, table, inputs, locks, completing, hid,
                 accepted>>

(* VhfReadReportSubmit takes the report; VHF may ask for the next one      *)
(* before the call has returned.                                           *)
SubmitAccepted(t) ==
  /\ pc[t] = "submit" /\ vhfState = "started"
  /\ want' = TRUE /\ credit' = FALSE
  /\ Goto(t, "submitted")
  /\ UNCHANGED <<ctx, locks, completing, report, vhfState, op, filled,
                 lastPolled, counts>>

(* A failed submission loses the report and spends the request it answers. *)
(* Whether VHF then asks again is not documented: both happen here.        *)
SubmitFailed(t) ==
  /\ pc[t] = "submit" /\ (SubmitMayFail \/ vhfState # "started")
  /\ want' \in {want, TRUE} /\ credit' = FALSE
  /\ Goto(t, "failed")
  /\ UNCHANGED <<ctx, locks, completing, report, vhfState, op, filled,
                 lastPolled, counts>>

SubmitReturns(t) ==
  /\ pc[t] = "submitted"
  /\ report' = [report EXCEPT ![t] = 0]
  /\ Goto(t, "take")
  /\ UNCHANGED <<ctx, locks, completing, hid, lastPolled, counts>>

PumpAbandon(t) ==
  /\ pc[t] = "failed"
  /\ pumping' = FALSE
  /\ report' = [report EXCEPT ![t] = 0]
  /\ Goto(t, AfterPump(t))
  /\ UNCHANGED <<session, ready, table, ring, locks, completing, hid, counts>>

(* VHF calls EvtVhfReadyForNextReadReport once for each report it wants.   *)
VhfReady ==
  /\ vhfState = "started" /\ want /\ pc["ready"] = "idle"
  /\ want' = FALSE /\ credit' = TRUE
  /\ Goto("ready", "ready")
  /\ UNCHANGED <<ctx, locks, completing, report, vhfState, op, filled,
                 lastPolled, counts>>

Ready ==
  /\ pc["ready"] = "ready"
  /\ ready' = TRUE
  /\ Goto("ready", "pump")
  /\ UNCHANGED <<session, pumping, table, ring, locks, completing, report, hid,
                 counts>>
-----------------------------------------------------------------------------
(* The HID stack issues an operation and VHF calls get_feature,            *)
(* set_feature or write_report; enqueue first looks at the report alone.   *)
Validate(k) == CASE k = "malformed"   -> "INVALID_PARAMETER"
                 [] k = "unsupported" -> "NOT_SUPPORTED"
                 [] OTHER             -> "valid"

HidOperation(h, k) ==
  /\ vhfState = "started" /\ op[h] = "none"
  /\ next_id + Cardinality({g \in Handles : pc[g] = "enqueue"}) < MaxId
  /\ op' = [op EXCEPT ![h] = k]
  /\ IF Validate(k) = "valid"
     THEN Goto(h, "enqueue") /\ UNCHANGED completing
     ELSE /\ completing' = [completing EXCEPT ![h] = {<<h, Validate(k)>>}]
          /\ UNCHANGED pc
  /\ UNCHANGED <<ctx, locks, report, vhfState, filled, want, credit,
                 lastPolled, counts>>

(* Line 117: an unsafe feature write is queued as a blocked_feature.       *)
Marshalled(k) == IF k = "unsafe" THEN "blocked" ELSE k

Accept(h, s) ==
  /\ pc[h] = "enqueue"
  /\ ~stopping /\ owner # NULL
  /\ s \notin Used /\ \A r \in Slots : r < s => r \in Used
  /\ next_id' = next_id + 1
  /\ requests' = [requests EXCEPT
                    ![s] = [handle |-> h, id |-> next_id + 1,
                            op |-> Marshalled(op[h]),
                            delivered |-> FALSE, due |-> FALSE]]
  /\ Goto(h, "idle")
  /\ UNCHANGED <<session, flow, ring, locks, completing, report, hid,
                 lastPolled, counts>>

Refuse(h) ==
  LET notReady == stopping \/ owner = NULL IN
  /\ pc[h] = "enqueue"
  /\ notReady \/ Used = Slots
  /\ completing' = [completing EXCEPT
                      ![h] = {<<h, IF notReady THEN "DEVICE_NOT_READY"
                                               ELSE "DEVICE_BUSY">>}]
  /\ Goto(h, "idle")
  /\ UNCHANGED <<ctx, locks, report, hid, lastPolled, counts>>
-----------------------------------------------------------------------------
(* destroy, called with lifetime held by ioctl, file_cleanup and release.  *)
(* Mutant of DestroyStop: callbacks are not turned away.                   *)
DestroyKeepsAccepting(w) ==
  /\ pc[w] = "destroy"
  /\ doomed' = vhf
  /\ vhf' = FALSE
  /\ Goto(w, "expire")
  /\ UNCHANGED <<owner, opened, stopping, flow, table, ring, lifetime, timer,
                 call, completing, report, hid, counts>>

DestroyStop(w) ==
  /\ pc[w] = "destroy"
  /\ stopping' = TRUE
  /\ doomed' = vhf
  /\ vhf' = FALSE
  /\ Goto(w, "expire")
  /\ UNCHANGED <<owner, opened, flow, table, ring, lifetime, timer, call,
                 completing, report, hid, counts>>

(* Mutants of DestroyExpire: a scan that takes the free entries too, and a *)
(* destroy that leaves the pending operations to the timer.                *)
DestroyExpiresFree(w) ==
  /\ pc[w] = "expire"
  /\ Expire(w, Slots, "CANCELLED")
  /\ Goto(w, "cancel")
  /\ UNCHANGED <<session, flow, next_id, ring, locks, report, hid, lastPolled,
                 counts>>

DestroyWithoutCancel(w) ==
  /\ pc[w] = "expire"
  /\ Goto(w, "cancel")
  /\ UNCHANGED <<ctx, locks, completing, report, hid, lastPolled, counts>>

DestroyExpire(w) ==
  /\ pc[w] = "expire"
  /\ Expire(w, Used, "CANCELLED")
  /\ Goto(w, "cancel")
  /\ UNCHANGED <<session, flow, next_id, ring, locks, report, hid, lastPolled,
                 counts>>

(* VhfDelete(h, TRUE): no new callback begins.                             *)
DestroyDelete(w) ==
  /\ pc[w] = "cancel" /\ completing[w] = {}
  /\ IF doomed THEN vhfState' = "deleting" /\ Goto(w, "delete")
               ELSE Goto(w, "reset") /\ UNCHANGED vhfState
  /\ UNCHANGED <<ctx, locks, completing, report, op, filled, want, credit,
                 lastPolled, counts>>

(* VhfDelete returns when every operation is completed and every callback  *)
(* has returned.                                                           *)
VhfDeleted(w) ==
  /\ pc[w] = "delete"
  /\ \A h \in Handles : op[h] = "none" /\ pc[h] = "idle"
  /\ pc["ready"] = "idle"
  /\ vhfState' = "none" /\ want' = FALSE /\ credit' = FALSE
  /\ Goto(w, "reset")
  /\ UNCHANGED <<ctx, locks, completing, report, op, filled, lastPolled,
                 counts>>

AfterDestroy(w) == IF w = "release" THEN "close" ELSE "finish"

(* Mutants of DestroyReset: ids start again with each session, and the     *)
(* ring keeps its reports.                                                 *)
DestroyRestartsIds(w) ==
  /\ pc[w] = "reset"
  /\ owner' = NULL
  /\ next_id' = 0
  /\ count' = 0 /\ head' = 0
  /\ ready' = FALSE /\ pumping' = FALSE
  /\ doomed' = FALSE
  /\ taken' = accepted
  /\ Goto(w, AfterDestroy(w))
  /\ UNCHANGED <<vhf, opened, stopping, requests, lastPolled, inputs, lifetime,
                 timer, call, completing, report, hid, accepted>>

DestroyKeepsReports(w) ==
  /\ pc[w] = "reset"
  /\ owner' = NULL
  /\ ready' = FALSE /\ pumping' = FALSE
  /\ doomed' = FALSE
  /\ taken' = accepted
  /\ Goto(w, AfterDestroy(w))
  /\ UNCHANGED <<vhf, opened, stopping, table, ring, lifetime, timer, call,
                 completing, report, hid, accepted>>

DestroyReset(w) ==
  /\ pc[w] = "reset"
  /\ owner' = NULL
  /\ count' = 0 /\ head' = 0
  /\ ready' = FALSE /\ pumping' = FALSE
  /\ doomed' = FALSE
  /\ taken' = accepted
  /\ Goto(w, AfterDestroy(w))
  /\ UNCHANGED <<vhf, opened, stopping, table, inputs, lifetime, timer, call,
                 completing, report, hid, accepted>>
-----------------------------------------------------------------------------
(* ioctl: the queue is sequential and power managed, so one request at a   *)
(* time and none while the device is released.                             *)
Dispatch(f, code, id, verdict) ==
  /\ timer /\ pc["release"] = "idle"
  /\ pc["ioctl"] = "idle" /\ pc[f] = "open"
  /\ code = "input" => accepted < MaxReport
  /\ call' = [file |-> f, code |-> code, id |-> id, verdict |-> verdict]
  /\ Goto("ioctl", "acquire")
  /\ UNCHANGED <<ctx, lifetime, timer, doomed, completing, report, hid,
                 lastPolled, counts>>

Lock(w, label) ==
  /\ pc[w] = "acquire" /\ lifetime = NULL
  /\ lifetime' = w
  /\ Goto(w, label)
  /\ UNCHANGED <<ctx, timer, call, doomed, completing, report, hid, lastPolled,
                 counts>>

(* Mutant of IoctlAcquire: ownership is read without the lifetime lock.    *)
IoctlWithoutLock ==
  /\ pc["ioctl"] = "acquire"
  /\ \/ call.code = "start" /\ Goto("ioctl", "start")
     \/ call.code # "start" /\ owner # call.file /\ Goto("ioctl", "finish")
     \/ owner = call.file /\ call.code = "stop" /\ Goto("ioctl", "destroy")
     \/ /\ owner = call.file /\ call.code \in {"input", "poll", "reply"}
        /\ Goto("ioctl", call.code)
  /\ UNCHANGED <<ctx, locks, completing, report, hid, lastPolled, counts>>

(* Anyone may ask for a start; the rest is for the owner.                  *)
IoctlAcquire ==
  \/ call.code = "start" /\ Lock("ioctl", "start")
  \/ call.code # "start" /\ owner # call.file /\ Lock("ioctl", "finish")
  \/ owner = call.file /\ call.code = "stop" /\ Lock("ioctl", "destroy")
  \/ /\ owner = call.file /\ call.code \in {"input", "poll", "reply"}
     /\ Lock("ioctl", call.code)

Finish(w) ==
  /\ pc[w] = "finish"
  /\ lifetime' = NULL
  /\ call' = IF w = "ioctl" THEN NoCall ELSE call
  /\ Goto(w, IF w \in Files THEN "closed" ELSE "idle")
  /\ UNCHANGED <<ctx, timer, doomed, completing, report, hid, lastPolled,
                 counts>>

(* create: busy when owned, else the I/O target is opened once.            *)
Start ==
  /\ pc["ioctl"] = "start"
  /\ \/ /\ owner # NULL \/ (~opened /\ StartMayFail)
        /\ Goto("ioctl", "finish")
        /\ UNCHANGED opened
     \/ /\ owner = NULL
        /\ opened' = TRUE
        /\ Goto("ioctl", "claim")
  /\ UNCHANGED <<vhf, owner, stopping, flow, table, ring, locks, completing,
                 report, hid, counts>>

Claim ==
  /\ pc["ioctl"] = "claim"
  /\ owner' = call.file /\ stopping' = FALSE
  /\ Goto("ioctl", "vhfcreate")
  /\ UNCHANGED <<vhf, opened, flow, table, ring, locks, completing, report,
                 hid, counts>>

VhfCreate ==
  /\ pc["ioctl"] = "vhfcreate"
  /\ \/ vhfState' = "created" /\ Goto("ioctl", "publish")
     \/ StartMayFail /\ Goto("ioctl", "destroy") /\ UNCHANGED vhfState
  /\ UNCHANGED <<ctx, locks, completing, report, op, filled, want, credit,
                 lastPolled, counts>>

Publish ==
  /\ pc["ioctl"] = "publish"
  /\ vhf' = TRUE
  /\ Goto("ioctl", "vhfstart")
  /\ UNCHANGED <<owner, opened, stopping, flow, table, ring, locks, completing,
                 report, hid, counts>>

(* VhfStart: once the device is there VHF may call, also before VhfStart   *)
(* has returned, and it may still report a failure then.                   *)
VhfStart ==
  /\ pc["ioctl"] = "vhfstart"
  /\ \/ vhfState' = "started" /\ want' = TRUE /\ Goto("ioctl", "starting")
     \/ StartMayFail /\ Goto("ioctl", "destroy") /\ UNCHANGED <<vhfState, want>>
  /\ UNCHANGED <<ctx, locks, completing, report, op, filled, credit,
                 lastPolled, counts>>

VhfStartReturns ==
  /\ pc["ioctl"] = "starting"
  /\ \/ Goto("ioctl", "finish")
     \/ StartMayFail /\ Goto("ioctl", "destroy")
  /\ UNCHANGED <<ctx, locks, completing, report, hid, lastPolled, counts>>

Input ==
  /\ pc["ioctl"] = "input"
  /\ IF count = Cap
     THEN Goto("ioctl", "finish") /\ UNCHANGED <<inputs, count, accepted>>
     ELSE /\ accepted' = accepted + 1
          /\ inputs' = [inputs EXCEPT ![(head + count) % Cap] = accepted + 1]
          /\ count' = count + 1
          /\ Goto("ioctl", "pump")
  /\ UNCHANGED <<session, flow, table, head, locks, completing, report, hid,
                 taken>>

Undelivered == {s \in Used : ~requests[s].delivered}

Deliver(s) ==
  /\ pc["ioctl"] = "poll"
  /\ s \in Undelivered
  /\ \A r \in Undelivered : requests[s].id <= requests[r].id
  /\ requests' = [requests EXCEPT ![s].delivered = TRUE]
  /\ lastPolled' = requests[s].id
  /\ Goto("ioctl", "finish")
  /\ UNCHANGED <<session, flow, next_id, ring, locks, completing, report, hid,
                 counts>>

NoMoreEntries ==
  /\ pc["ioctl"] = "poll" /\ Undelivered = {}
  /\ Goto("ioctl", "finish")
  /\ UNCHANGED <<ctx, locks, completing, report, hid, lastPolled, counts>>

(* The status a reply completes its operation with, and whether the data   *)
(* of the reply is copied to the report buffer.                            *)
Fills(r) == r.op = "get" /\ call.verdict = "ok"
(* Mutant of Completion: the broker's word is taken for any operation.     *)
CompletionTrusting(r) == IF call.verdict = "error" THEN "UNSUCCESSFUL" ELSE "SUCCESS"

Completion(r) ==
  CASE r.op = "blocked"                            -> "NOT_SUPPORTED"
    [] r.op # "blocked" /\ call.verdict = "error"  -> "UNSUCCESSFUL"
    [] r.op = "get" /\ call.verdict = "mismatch"   -> "INVALID_PARAMETER"
    [] OTHER                                       -> "SUCCESS"

(* Mutant of Answers: an operation that was never polled can be answered.  *)
AnswersUnseen(s) == s \in Used /\ requests[s].id = call.id

Answers(s) == s \in Used /\ requests[s].delivered /\ requests[s].id = call.id

(* Mutant of Reply: the entry is not cleared.                              *)
ReplyKeepsEntry(s) ==
  LET r == requests[s] IN
  /\ pc["ioctl"] = "reply"
  /\ Answers(s)
  /\ filled' = IF Fills(r) THEN filled \cup {r.handle} ELSE filled
  /\ completing' = [completing EXCEPT !["ioctl"] = {<<r.handle, Completion(r)>>}]
  /\ Goto("ioctl", "answer")
  /\ UNCHANGED <<ctx, locks, report, vhfState, op, want, credit, lastPolled,
                 counts>>

Reply(s) ==
  LET r == requests[s] IN
  /\ pc["ioctl"] = "reply"
  /\ Answers(s)
  /\ filled' = IF Fills(r) THEN filled \cup {r.handle} ELSE filled
  /\ requests' = [requests EXCEPT ![s] = Empty]
  /\ completing' = [completing EXCEPT !["ioctl"] = {<<r.handle, Completion(r)>>}]
  /\ Goto("ioctl", "answer")
  /\ UNCHANGED <<session, flow, next_id, ring, locks, report, vhfState, op,
                 want, credit, lastPolled, counts>>

ReplyNotFound ==
  /\ pc["ioctl"] = "reply" /\ \A s \in Slots : ~Answers(s)
  /\ Goto("ioctl", "finish")
  /\ UNCHANGED <<ctx, locks, completing, report, hid, lastPolled, counts>>

ReplyCompleted ==
  /\ pc["ioctl"] = "answer" /\ completing["ioctl"] = {}
  /\ Goto("ioctl", "finish")
  /\ UNCHANGED <<ctx, locks, completing, report, hid, lastPolled, counts>>
-----------------------------------------------------------------------------
FileCreate(f) ==
  /\ pc[f] = "closed" /\ call.file # f
  /\ Goto(f, "open")
  /\ UNCHANGED <<ctx, locks, completing, report, hid, lastPolled, counts>>

(* A broker closes its handle or dies.  If it makes its calls one at a     *)
(* time, as broker.cpp does, the I/O manager has its request back by then. *)
FileClose(f) ==
  /\ pc[f] = "open" /\ (Overlapped \/ call.file # f)
  /\ Goto(f, "acquire")
  /\ UNCHANGED <<ctx, locks, completing, report, hid, lastPolled, counts>>

(* Mutant of FileCleanup: an owner that closes keeps its session.          *)
CleanupForgets(f) == Lock(f, "finish")

FileCleanup(f) == Lock(f, IF owner = f THEN "destroy" ELSE "finish")

Prepare ==
  /\ ~timer /\ pc["release"] = "idle"
  /\ timer' = TRUE
  /\ UNCHANGED <<ctx, lifetime, call, doomed, pc, completing, report, hid,
                 lastPolled, counts>>

(* release: WdfTimerStop(timer, TRUE) stops the timer and waits for tick.  *)
ReleaseStopTimer ==
  /\ timer /\ pc["release"] = "idle" /\ pc["ioctl"] = "idle"
  /\ timer' = FALSE
  /\ Goto("release", "drain")
  /\ UNCHANGED <<ctx, lifetime, call, doomed, completing, report, hid,
                 lastPolled, counts>>

ReleaseTimerStopped ==
  /\ pc["release"] = "drain" /\ completing["tick"] = {}
  /\ Goto("release", "acquire")
  /\ UNCHANGED <<ctx, locks, completing, report, hid, lastPolled, counts>>

ReleaseAcquire == Lock("release", "destroy")

ReleaseClose ==
  /\ pc["release"] = "close"
  /\ opened' = FALSE
  /\ Goto("release", "finish")
  /\ UNCHANGED <<vhf, owner, stopping, flow, table, ring, locks, completing,
                 report, hid, counts>>
-----------------------------------------------------------------------------
Init ==
  /\ vhf = FALSE /\ owner = NULL /\ opened = FALSE /\ stopping = TRUE
  /\ ready = FALSE /\ pumping = FALSE
  /\ next_id = 0
  /\ requests = [s \in Slots |-> Empty]
  /\ inputs = [i \in 0 .. Cap - 1 |-> 0] /\ head = 0 /\ count = 0
  /\ lifetime = NULL /\ timer = FALSE /\ call = NoCall /\ doomed = FALSE
  /\ pc = [t \in Thread |-> IF t \in Files THEN "closed" ELSE "idle"]
  /\ completing = [t \in Thread |-> {}]
  /\ report = [t \in Pumper |-> 0]
  /\ vhfState = "none" /\ want = FALSE /\ credit = FALSE
  /\ op = [h \in Handles |-> "none"] /\ filled = {}
  /\ lastPolled = 0 /\ accepted = 0 /\ taken = 0

Broker ==
  \/ \E f \in Files : FileCreate(f) \/ FileClose(f)
  \/ \E f \in Files, code \in Codes \ {"reply"} : Dispatch(f, code, 0, "error")
  \/ \E f \in Files, id \in 1 .. MaxId, verdict \in Verdicts :
       Dispatch(f, "reply", id, verdict)

Plug == Prepare \/ ReleaseStopTimer

HidStack == \E h \in Handles, k \in Kinds : HidOperation(h, k)

Clock == \E s \in Slots : DeadlinePasses(s)

(* What each thread does, once it is running and has the locks it needs.   *)
Pump(t) ==
  \/ PumpEnter(t) \/ PumpLeave(t) \/ PumpTake(t) \/ PumpAbandon(t)
  \/ SubmitAccepted(t) \/ SubmitFailed(t) \/ SubmitReturns(t)

Destroy(w) ==
  \/ DestroyStop(w) \/ DestroyExpire(w) \/ DestroyDelete(w) \/ VhfDeleted(w)
  \/ DestroyReset(w) \/ Complete(w) \/ Finish(w)

Ioctl ==
  \/ Start \/ Claim \/ VhfCreate \/ Publish \/ VhfStart \/ VhfStartReturns
  \/ Input \/ Pump("ioctl")
  \/ NoMoreEntries \/ \E s \in Slots : Deliver(s) \/ Reply(s)
  \/ ReplyNotFound \/ ReplyCompleted
  \/ Destroy("ioctl")

Release == ReleaseTimerStopped \/ ReleaseClose \/ Destroy("release")

Enqueue(h) == Refuse(h) \/ Complete(h) \/ \E s \in Slots : Accept(h, s)

Timer == Tick \/ Complete("tick")

ReadyCallback == VhfReady \/ Ready \/ Pump("ready")

Next ==
  \/ Broker \/ Plug \/ HidStack \/ Clock
  \/ IoctlAcquire \/ Ioctl
  \/ \E f \in Files : FileCleanup(f) \/ Destroy(f)
  \/ ReleaseAcquire \/ Release
  \/ ReadyCallback \/ Timer
  \/ \E h \in Handles : Enqueue(h)

Spec == Init /\ [][Next]_vars

(* Threads run, the clock and the periodic timer go on, VHF asks for the   *)
(* next report when it wants one, and the wait lock does not starve a      *)
(* waiter.  Nothing obliges a broker, the HID stack or plug and play.      *)
Fairness ==
  /\ WF_vars(Ioctl) /\ SF_vars(IoctlAcquire)
  /\ WF_vars(Release) /\ SF_vars(ReleaseAcquire)
  /\ \A f \in Files : WF_vars(Destroy(f)) /\ SF_vars(FileCleanup(f))
  /\ \A h \in Handles : WF_vars(Enqueue(h))
  /\ WF_vars(ReadyCallback) /\ WF_vars(Timer) /\ WF_vars(Clock)

FairSpec == Spec /\ Fairness
-----------------------------------------------------------------------------
FlagsOK ==
  /\ vhf \in BOOLEAN /\ opened \in BOOLEAN /\ stopping \in BOOLEAN
  /\ ready \in BOOLEAN /\ pumping \in BOOLEAN
  /\ timer \in BOOLEAN /\ doomed \in BOOLEAN
  /\ want \in BOOLEAN /\ credit \in BOOLEAN

ContextOK ==
  /\ owner \in Files \cup {NULL}
  /\ next_id \in Nat /\ requests \in [Slots -> Request]
  /\ inputs \in [0 .. Cap - 1 -> Nat]
  /\ head \in 0 .. Cap - 1 /\ count \in 0 .. Cap

ThreadsOK ==
  /\ lifetime \in Worker \cup {NULL} /\ call \in Call
  /\ completing \in [Thread -> SUBSET (Handles \X Status)]
  /\ report \in [Pumper -> Nat]

EnvironmentOK ==
  /\ vhfState \in {"none", "created", "started", "deleting"}
  /\ op \in [Handles -> Kinds \cup {"none"}] /\ filled \subseteq Handles
  /\ lastPolled \in Nat /\ accepted \in Nat /\ taken \in Nat

(* Type invariant of the driver, its threads and its surroundings.         *)
TypeOK ==
  /\ pc \in [Thread -> Labels]
  /\ FlagsOK /\ ContextOK /\ ThreadsOK /\ EnvironmentOK

Registered(h) == \E s \in Slots : requests[s].handle = h
Completing(h) == \E t \in Thread : \E c \in completing[t] : c[1] = h

OneHolder(h) ==
  \/ op[h] = "none" /\ pc[h] = "idle" /\ ~Registered(h) /\ ~Completing(h)
  \/ op[h] # "none" /\ pc[h] = "enqueue" /\ ~Registered(h) /\ ~Completing(h)
  \/ op[h] # "none" /\ pc[h] = "idle" /\ Registered(h) /\ ~Completing(h)
  \/ op[h] # "none" /\ pc[h] = "idle" /\ ~Registered(h) /\ Completing(h)

OneEntryEach ==
  \A r, s \in Used : requests[r].handle = requests[s].handle => r = s

OneHandEach ==
  \A t, u \in Thread : \A c \in completing[t], d \in completing[u] :
    c[1] = d[1] => t = u /\ c = d

(* Every operation that VHF has outstanding is in exactly one place: with  *)
(* the callback that brought it, in one entry of the table, or with one    *)
(* thread that is about to complete it.  So none is completed twice (which *)
(* would complete whatever VHF uses the handle for next), none is lost,    *)
(* and a report buffer is never written after its operation is over.       *)
(* (enqueue, expire, reply)                                                *)
ExactlyOneHolder ==
  /\ \A h \in Handles : OneHolder(h)
  /\ OneEntryEach /\ OneHandEach

(* Once destroy has cancelled what was pending, nothing enters the table   *)
(* until the owner is gone: VhfDelete, which waits for every operation,    *)
(* never waits for one that sits in the table for a broker's answer.       *)
(* (destroy, enqueue: the comment above destroy)                           *)
NothingPendingAtDelete ==
  \A w \in Worker : pc[w] \in {"cancel", "delete", "reset"} => Used = {}

(* A HID operation is told SUCCESS only if it was a permitted one, and a   *)
(* feature read only if the reply has filled its report buffer; the buffer *)
(* of a read that fails is left alone.  (reply; README: unknown feature    *)
(* commands always fail, even if the broker replies with success)          *)
HonestOutcome ==
  \A t \in Thread : \A c \in completing[t] :
    /\ c[2] = "SUCCESS" => op[c[1]] \in {"get", "send"}
    /\ op[c[1]] = "get" => (c[2] = "SUCCESS" <=> c[1] \in filled)

(* The ownership that ioctl reads on entry still holds when it acts on it, *)
(* through every wait: no cleanup, release or other broker's start slips   *)
(* in between.  (ioctl's owned, file_cleanup, release, create)             *)
OwnedCallStaysOwned ==
  pc["ioctl"] \in {"input", "pump", "take", "submit", "submitted", "failed",
                   "poll", "reply", "answer"} => owner = call.file

(* While brokers make their calls one at a time, the owner is a file whose *)
(* cleanup is still to come: the device is never left to a broker that is  *)
(* gone, which would answer every later start with DEVICE_BUSY.            *)
(* (file_cleanup, create; README: one broker owns the virtual controller,  *)
(* closing it removes the virtual HID child)                               *)
OwnerIsLive == ~Overlapped => owner = NULL \/ pc[owner] # "closed"

(* The broker is given operations in the order in which they were          *)
(* accepted, and none twice, over all sessions of the device's life: a     *)
(* reply to an earlier session can never name an operation of this one.    *)
(* (poll, enqueue's ++next_id; protocol.h: IDs are monotonic across device *)
(* lifetimes)                                                              *)
DeliveredOnceInOrder ==
  [][\A s \in Slots : Deliver(s) => requests[s].id > lastPolled]_vars

(* The ring holds exactly the accepted reports not yet popped, in order,   *)
(* and none of an earlier session.  (ioctl input, pump, destroy)           *)
RingHoldsBacklog ==
  /\ \A i \in 0 .. Cap - 1 :
       i < count => inputs[(head + i) % Cap] = taken + 1 + i
  /\ taken + count = accepted

Submitting(t) == pc[t] \in {"submit", "submitted"}

(* VhfReadReportSubmit is never entered by two threads, nor again by the   *)
(* ready callback that VHF makes during the call.  (pumping)               *)
SingleSubmitter == ~(Submitting("ioctl") /\ Submitting("ready"))

(* A report is submitted only in answer to a request of the VHF device     *)
(* that receives it: a ready flag never survives its session, and is not   *)
(* spent twice.  (ready, pump, destroy)                                    *)
SubmitOnlyWhenAsked ==
  \A t \in Pumper : pc[t] = "submit" =>
    credit /\ vhfState \in {"started", "deleting"}

(* Every operation of the HID stack is completed.  (tick, expire, destroy) *)
OperationsComplete == \A h \in Handles : (op[h] # "none") ~> (op[h] = "none")

(* Whoever takes the lifetime lock gives it back: stop, cleanup and        *)
(* release finish, VhfDelete included.  (destroy)                          *)
LifetimeReleased == (lifetime # NULL) ~> (lifetime = NULL)

(* While no submission fails, an accepted report does not stay in the      *)
(* ring: it is handed to VHF, or discarded with its session; no wake-up is *)
(* lost between pump and ready.  (A failed submission may lose one: pump   *)
(* clears pumping at line 85 without looking at ready again.)              *)
ReportsDrain ==
  [](\A t \in Pumper : pc[t] = "failed" => stopping) =>
    \A n \in 1 .. MaxReport : (accepted >= n) ~> (taken >= n)
-----------------------------------------------------------------------------
(* The refinement mapping to HidOperations.                                *)
StageOf(h) ==
  CASE op[h] = "none"       -> "idle"
    [] pc[h] = "enqueue"    -> "offered"
    [] Completing(h)        -> "settled"
    [] \E s \in Slots : requests[s].handle = h /\ requests[s].delivered -> "polled"
    [] OTHER                -> "queued"

OutcomeOf(h) ==
  IF Completing(h)
  THEN LET t == CHOOSE u \in Thread : \E c \in completing[u] : c[1] = h
       IN (CHOOSE c \in completing[t] : c[1] = h)[2]
  ELSE "none"

Operations == INSTANCE HidOperations WITH
  kind    <- op,
  stage   <- [h \in Handles |-> StageOf(h)],
  outcome <- [h \in Handles |-> OutcomeOf(h)]

(* The driver implements the promise of HidOperations: an operation is     *)
(* answered only after poll has given it out, refused only before it is    *)
(* queued, and a cancellation takes every open one.                        *)
ImplementsOperations == Operations!Spec
=============================================================================
