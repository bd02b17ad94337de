------------------------------ MODULE FrlLink ------------------------------
(***************************************************************************)
(* The HDMI FRL link of the kernel patches: link training at the end of a  *)
(* modeset, and the check that looks every two seconds whether the sink    *)
(* still has its configuration and requests a modeset if it has not.       *)
(*                                                                         *)
(* A commit of userspace releases its locks before it trains the link, so  *)
(* the check and a probe of the connector may run meanwhile; the check     *)
(* holds them during its own commit.  The sink, a receiver that may follow *)
(* the television behind it, is external.  The rate is the mode's: the cap *)
(* that a rate change lowers (0016) is read by no patch and left out.      *)
(***************************************************************************)
VARIABLES
  active,  \* the output is enabled, with an FRL mode
  known,   \* the connector's status when it was last probed: connected
  trained, \* frl.trained
  commit,  \* the stage of the commit that trains the link, or "none"
  by,      \* who made that commit: "user" or "check"
  queued,  \* the link check is queued
  access,  \* the driver lets more than its own suspend and resume touch the
           \* display
  sink,
  calm,    \* from now on the sink, DDC and the driver's access work and the
           \* output stays enabled
  passed,  \* history: the training that set up the link has passed
  missed   \* history: a check of the link came due without access

gate == <<access, missed>>
vars == <<active, known, trained, commit, by, queued, sink, calm, passed, gate>>

(* What the sink does and what SCDC shows of it: FLT_READY, a rate in      *)
(* CONFIG_1, the lanes' locks and FLT_UPDATE.  willing: training passes.   *)
Sink == [connected : BOOLEAN, ready : BOOLEAN, willing : BOOLEAN,
         config : BOOLEAN, locked : BOOLEAN, update : BOOLEAN]

SinkHealthy == sink.config /\ sink.locked /\ ~sink.update
Healthy == trained /\ SinkHealthy

Without == [sink EXCEPT !.config = FALSE, !.locked = FALSE, !.update = FALSE]
-----------------------------------------------------------------------------
(* Mutant of Modeset: disabling does not reset the source's flag.          *)
ModesetStaysTrained(who) ==
  /\ active' = TRUE /\ commit' = "lts2" /\ by' = who /\ passed' = FALSE
  /\ IF active THEN sink' \in {Without} \cup IF calm THEN {} ELSE {sink}
               ELSE UNCHANGED sink
  /\ UNCHANGED <<known, trained, calm, gate>>

(* A full modeset: the enabled output is disabled first, which clears the  *)
(* sink's configuration, if DDC works, and the trained flag.               *)
Modeset(who) ==
  /\ active' = TRUE /\ commit' = "lts2" /\ by' = who /\ passed' = FALSE
  /\ IF active THEN /\ trained' = FALSE
                    /\ sink' \in {Without} \cup IF calm THEN {} ELSE {sink}
               ELSE UNCHANGED <<trained, sink>>
  /\ UNCHANGED <<known, calm, gate>>

UserModeset ==
  /\ commit = "none" /\ known
  /\ Modeset("user") /\ UNCHANGED queued

(* Suspending also cancels the check.                                      *)
Disable ==
  /\ active /\ commit = "none" /\ ~calm
  /\ active' = FALSE /\ trained' = FALSE /\ passed' = FALSE /\ missed' = FALSE
  /\ sink' \in {Without, sink}
  /\ queued' \in {queued, FALSE}
  /\ UNCHANGED <<known, commit, by, access, calm>>

(* The end of intel_ddi_enable_hdmi: the check is queued either way.       *)
Enabled(result) ==
  /\ commit' = "none" /\ trained' = result /\ queued' = TRUE
  /\ passed' = result /\ missed' = FALSE
  /\ UNCHANGED <<active, known, by, access, calm>>

(* The sink is not ready, wants another rate or another training, does not *)
(* answer in time, or SCDC cannot be accessed.                             *)
TrainingFails ==
  /\ commit # "none" /\ ~calm
  /\ Enabled(FALSE) /\ UNCHANGED sink

(* intel_hdmi_start_frl returns at once if the link is trained already.    *)
StartFrl ==
  /\ commit = "lts2" /\ (trained \/ sink.ready)
  /\ IF trained THEN Enabled(TRUE) /\ UNCHANGED sink
     ELSE /\ commit' = "lts3"
          /\ sink' = [sink EXCEPT !.config = TRUE, !.update = FALSE]
          /\ UNCHANGED <<active, known, trained, by, queued, calm, passed, gate>>

(* The sink asks for patterns, through FLT_UPDATE, until it wants no more. *)
TrainLts3 ==
  /\ commit = "lts3" /\ sink.willing /\ sink.config
  /\ commit' = "ltsp"
  /\ sink' = [sink EXCEPT !.locked = TRUE, !.update = FALSE]
  /\ UNCHANGED <<active, known, trained, by, queued, calm, passed, gate>>

CompleteLtsp ==
  /\ commit = "ltsp" /\ sink.willing
  /\ Enabled(TRUE) /\ UNCHANGED sink
-----------------------------------------------------------------------------
(* A probe resets the training state of a connector that is connected; it  *)
(* waits for a commit of the check.                                        *)
Probe ==
  /\ ~(commit # "none" /\ by = "check")
  /\ known' = sink.connected
  /\ trained' = (trained /\ ~sink.connected)
  /\ UNCHANGED <<active, commit, by, queued, sink, calm, passed, gate>>

(* Mutant of CheckWaits: a sink that is not ready ends the checks.         *)
CheckGivesUp ==
  /\ queued /\ access /\ active
  /\ ~known \/ commit # "none" \/ ~sink.ready \/ ~calm
  /\ queued' = (sink.ready \/ ~known)
  /\ UNCHANGED <<active, known, trained, commit, by, sink, calm, passed, gate>>

(* The check comes again in two seconds: not connected, a commit that is   *)
(* not done, a sink that is not ready, an error of SCDC, or of the commit. *)
CheckWaits ==
  /\ queued /\ access /\ active
  /\ ~known \/ commit # "none" \/ ~sink.ready \/ ~calm
  /\ UNCHANGED vars

CheckStops ==
  /\ queued /\ access /\ ~active /\ queued' = FALSE
  /\ UNCHANGED <<active, known, trained, commit, by, sink, calm, passed, gate>>

(* While the driver suspends, resumes or loads, a check that comes due     *)
(* returns at once and is not queued again.                                *)
CheckDropped ==
  /\ queued /\ ~access
  /\ queued' = FALSE /\ missed' = active
  /\ UNCHANGED <<active, known, trained, commit, by, sink, calm, passed, access>>

CheckRecovers ==
  /\ queued /\ access /\ active /\ known /\ commit = "none" /\ sink.ready
  /\ ~Healthy
  /\ queued' = FALSE /\ Modeset("check")
-----------------------------------------------------------------------------
(* The sink or what is behind it comes, goes, loses its configuration or   *)
(* its locks, or wants to be trained again.                                *)
SinkChanges ==
  /\ ~calm
  /\ \/ \E c, r, w \in BOOLEAN :
          sink' = [sink EXCEPT !.connected = c, !.ready = r, !.willing = w]
     \/ \E s \in {"config", "locked"} : sink' = [sink EXCEPT ![s] = FALSE]
     \/ sink' = [sink EXCEPT !.update = TRUE]
  /\ UNCHANGED <<active, known, trained, commit, by, queued, calm, passed, gate>>

(* The driver loads, suspends or resumes.                                  *)
AccessChanges ==
  /\ ~calm /\ access' = ~access
  /\ UNCHANGED <<active, known, trained, commit, by, queued, sink, calm, passed,
                 missed>>

Settle ==
  /\ access /\ ~missed /\ active /\ known /\ sink.connected /\ sink.ready /\ sink.willing
  /\ commit \in {"none", "lts2"} /\ ~calm
  /\ calm' = TRUE
  /\ UNCHANGED <<active, known, trained, commit, by, queued, sink, passed, gate>>

Init ==
  /\ active = FALSE /\ known = FALSE /\ trained = FALSE /\ commit = "none"
  /\ by = "user" /\ queued = FALSE /\ calm = FALSE
  /\ passed = FALSE /\ access = FALSE /\ missed = FALSE
  /\ sink \in [connected : BOOLEAN, ready : BOOLEAN, willing : BOOLEAN,
               config : {FALSE}, locked : {FALSE}, update : {FALSE}]

Training == \/ TrainingFails \/ StartFrl \/ TrainLts3 \/ CompleteLtsp
Check == CheckWaits \/ CheckStops \/ CheckDropped \/ CheckRecovers

Next == UserModeset \/ Disable \/ Training \/ Probe \/ Check \/ SinkChanges
          \/ AccessChanges \/ Settle

(* Training ends by its time-outs, and delayed work runs.                  *)
Spec == Init /\ [][Next]_vars /\ WF_vars(Training) /\ WF_vars(CheckRecovers)
-----------------------------------------------------------------------------
TypeOK ==
  /\ active \in BOOLEAN /\ known \in BOOLEAN /\ trained \in BOOLEAN
  /\ commit \in {"none", "lts2", "lts3", "ltsp"} /\ by \in {"user", "check"}
  /\ queued \in BOOLEAN /\ calm \in BOOLEAN /\ passed \in BOOLEAN
  /\ access \in BOOLEAN /\ missed \in BOOLEAN
  /\ sink \in Sink

(* While the output is enabled somebody will look at the link again: no    *)
(* failure of training, of SCDC or of a recovery ends the checks.  Only a  *)
(* check that comes due while the driver suspends, resumes or loads does,  *)
(* until the next modeset (0053, lines 142-143).                           *)
CheckGoesOn == active => queued \/ commit # "none" \/ missed

(* Once the sink is connected, ready and willing, and stays so, the link   *)
(* of an enabled output is trained and the sink has its configuration,     *)
(* whatever was lost before and whatever the trained flag says of it       *)
(* (0053, "the cached source-side trained flag alone does not establish    *)
(* link health").                                                          *)
Recovers == calm ~> Healthy

(* "A healthy link is checked without resetting it" (DISPLAY-RECOVERY.md): *)
(* the check makes no modeset while the link that was trained is up and    *)
(* the sink has kept everything that training gave it.                     *)
HealthyLinkKept ==
  [][commit = "none" /\ commit' # "none" /\ by' = "check"
       => ~(passed /\ SinkHealthy)]_vars
=============================================================================
