---------------------------- MODULE BreachPusher ----------------------------
(***************************************************************************)
(* The node-push alert pipeline: live_worker/breach_pusher.py, with the    *)
(* failure modes of clip_cutter.cut_window.                                *)
(*                                                                         *)
(* Camera threads call submit_breach, in three separate steps because the  *)
(* other threads run between them: read the breach mode, test-and-set      *)
(* _busy under _busy_lock, hand the breach to a one-thread executor.  The  *)
(* executor thread runs _handle: cut, VLM verdict, discard or read of the  *)
(* clip, report or POST with one retry and, in its finally clause, the     *)
(* release of _busy.                                                       *)
(*                                                                         *)
(* A job is an admitted breach, numbered in order of admission; its        *)
(* payload is abstracted, and its clip file, whose name carries a fresh    *)
(* uuid, is identified with the job.                                       *)
(***************************************************************************)
EXTENDS Naturals, Sequences, FiniteSets

CONSTANTS Cameras,          \* camera threads that submit breaches
          MaxJobs,          \* bound: breaches admitted in a behaviour
          MaxCrashes,       \* bound: process deaths in a behaviour
          BootstrapMode     \* the mode before the first node-config poll

Modes == {"node_push", "off"}
Jobs == 1..MaxJobs
NoJob == 0

ASSUME BreachAssumption ==
    /\ IsFiniteSet(Cameras)
    /\ MaxJobs \in Nat
    /\ MaxCrashes \in Nat
    /\ BootstrapMode \in Modes

VARIABLES
    mode,       \* what resolve_breach_mode() returns
    camPc,      \* per camera: "frame", or where it is in submit_breach
    camJob,     \* per camera: the breach it has been admitted with
    busy,       \* _busy
    admitted,   \* number of breaches that found the gate open
    pending,    \* the executor's work queue
    workerPc,   \* where the executor thread is in _handle
    job,        \* the job it handles
    attempt,    \* the loop variable of the POST loop
    reason,     \* the reason it will report to the backend, or "none"
    clips,      \* jobs whose clip file is on disk
    outcome,    \* per job: how its handling ended, "none" before that
    alerts,     \* per job: live-alerts the backend has accepted
    report,     \* per job: its breach-cleared report, as sent and received
    crashes     \* process deaths so far

camVars == <<camPc, camJob>>
gateVars == <<busy, admitted, pending>>
workVars == <<workerPc, job, attempt, reason>>
resultVars == <<clips, outcome, alerts, report>>
vars == <<mode, camVars, gateVars, workVars, resultVars, crashes>>

CamPcs == {"frame", "gate", "enqueue"}
WorkerPcs == {"idle", "cut", "verify", "discard", "report", "read", "post",
              "backoff", "release"}
Reasons == {"none", "cut_failed", "vlm_error", "vlm_cleared"}
Outcomes == Reasons \cup {"cut_raised", "io_raised", "posted", "rejected",
                          "dropped", "crashed"}

TypeOK ==
    /\ mode \in Modes
    /\ camPc \in [Cameras -> CamPcs]
    /\ camJob \in [Cameras -> Jobs \cup {NoJob}]
    /\ \A c \in Cameras : camPc[c] = "enqueue" => camJob[c] \in Jobs
    /\ busy \in BOOLEAN
    /\ admitted \in 0..MaxJobs
    /\ pending \in Seq(Jobs)
    /\ workerPc \in WorkerPcs
    /\ job \in Jobs \cup {NoJob}
    /\ workerPc # "idle" => job \in Jobs
    /\ attempt \in {0, 1}
    /\ workerPc = "backoff" => attempt = 0
    /\ reason \in Reasons
    /\ clips \subseteq Jobs
    /\ outcome \in [Jobs -> Outcomes]
    /\ alerts \in [Jobs -> Nat]
    /\ report \in [Jobs -> {"none", "lost", "received"}]
    /\ crashes \in 0..MaxCrashes

Init ==
    /\ mode = BootstrapMode
    /\ camPc = [c \in Cameras |-> "frame"]
    /\ camJob = [c \in Cameras |-> NoJob]
    /\ busy = FALSE
    /\ admitted = 0
    /\ pending = <<>>
    /\ workerPc = "idle"
    /\ job = NoJob
    /\ attempt = 0
    /\ reason = "none"
    /\ clips = {}
    /\ outcome = [j \in Jobs |-> "none"]
    /\ alerts = [j \in Jobs |-> 0]
    /\ report = [j \in Jobs |-> "none"]
    /\ crashes = 0

-----------------------------------------------------------------------------
(* submit_breach, on a camera thread.                                      *)

\* Mutant of ReadMode: the mode is not consulted.
ReadModeIgnored(c) ==
    /\ camPc[c] = "frame"
    /\ camPc' = [camPc EXCEPT ![c] = "gate"]
    /\ UNCHANGED <<mode, camJob, gateVars, workVars, resultVars, crashes>>

\* The camera has a breach and reads the mode; only node_push goes on.
ReadMode(c) ==
    /\ camPc[c] = "frame"
    /\ mode = "node_push"
    /\ camPc' = [camPc EXCEPT ![c] = "gate"]
    /\ UNCHANGED <<mode, camJob, gateVars, workVars, resultVars, crashes>>

\* Under _busy_lock, and the breach in flight goes on alone: this one is dropped.
FindBusy(c) ==
    /\ camPc[c] = "gate"
    /\ busy
    /\ camPc' = [camPc EXCEPT ![c] = "frame"]
    /\ UNCHANGED <<mode, camJob, gateVars, workVars, resultVars, crashes>>

\* Mutant of TakeGate: _busy is set without having been tested.
TakeGateUntested(c) ==
    /\ camPc[c] = "gate"
    /\ admitted < MaxJobs
    /\ busy' = TRUE
    /\ admitted' = admitted + 1
    /\ camJob' = [camJob EXCEPT ![c] = admitted + 1]
    /\ camPc' = [camPc EXCEPT ![c] = "enqueue"]
    /\ UNCHANGED <<mode, pending, workVars, resultVars, crashes>>

\* Under _busy_lock: the gate is open, take it.
TakeGate(c) ==
    /\ camPc[c] = "gate"
    /\ ~busy
    /\ admitted < MaxJobs
    /\ busy' = TRUE
    /\ admitted' = admitted + 1
    /\ camJob' = [camJob EXCEPT ![c] = admitted + 1]
    /\ camPc' = [camPc EXCEPT ![c] = "enqueue"]
    /\ UNCHANGED <<mode, pending, workVars, resultVars, crashes>>

\* _executor.submit(_handle, ...)
Enqueue(c) ==
    /\ camPc[c] = "enqueue"
    /\ pending' = Append(pending, camJob[c])
    /\ camPc' = [camPc EXCEPT ![c] = "frame"]
    /\ UNCHANGED <<mode, camJob, busy, admitted, workVars, resultVars, crashes>>

-----------------------------------------------------------------------------
(* _handle and _cut_verify_push, on the executor thread.                   *)

\* The thread goes to pc, its job having ended with outcome o: _handle is in
\* its finally clause.
EndWith(o) ==
    /\ outcome' = [outcome EXCEPT ![job] = o]
    /\ workerPc' = "release"

StartJob ==
    /\ workerPc = "idle"
    /\ pending # <<>>
    /\ job' = Head(pending)
    /\ pending' = Tail(pending)
    /\ workerPc' = "cut"
    /\ attempt' = 0
    /\ reason' = "none"
    /\ UNCHANGED <<mode, camVars, busy, admitted, resultVars, crashes>>

\* cut_window returns: the clip is on disk.
CutClip ==
    /\ workerPc = "cut"
    /\ clips' = clips \cup {job}
    /\ workerPc' = "verify"
    /\ UNCHANGED <<mode, camVars, gateVars, job, attempt, reason, outcome,
                   alerts, report, crashes>>

\* cut_window raises ClipCutError: before ffmpeg ran (no recordings), or after
\* it failed, timed out or wrote an empty file, which then stays behind.
CutFails ==
    /\ workerPc = "cut"
    /\ \E left \in SUBSET {job} : clips' = clips \cup left
    /\ reason' = "cut_failed"
    /\ workerPc' = "report"
    /\ UNCHANGED <<mode, camVars, gateVars, job, attempt, outcome, alerts,
                   report, crashes>>

\* cut_window raises something else (no ffmpeg binary, the concat list cannot
\* be written or, after ffmpeg wrote the clip, not be removed): only the catch-all
\* of _handle sees it.
CutRaises ==
    /\ workerPc = "cut"
    /\ \E left \in SUBSET {job} : clips' = clips \cup left
    /\ EndWith("cut_raised")
    /\ UNCHANGED <<mode, camVars, gateVars, job, attempt, reason, alerts,
                   report, crashes>>

\* verify_clip raises, or returns a verdict the theft gate does not pass.
JudgeNoAlert ==
    /\ workerPc = "verify"
    /\ \E r \in {"vlm_error", "vlm_cleared"} : reason' = r
    /\ workerPc' = "discard"
    /\ UNCHANGED <<mode, camVars, gateVars, job, attempt, resultVars, crashes>>

\* verify_clip returns a verdict that passes the theft gate.
JudgeTheft ==
    /\ workerPc = "verify"
    /\ workerPc' = "read"
    /\ UNCHANGED <<mode, camVars, gateVars, job, attempt, reason, resultVars,
                   crashes>>

\* Mutant of DiscardClip: the clip of a breach without alert is forgotten.
DiscardClipForgotten ==
    /\ workerPc = "discard"
    /\ workerPc' = "report"
    /\ UNCHANGED <<mode, camVars, gateVars, job, attempt, reason, clips,
                   outcome, alerts, report, crashes>>

\* The clip of a breach without alert is unlinked.
DiscardClip ==
    /\ workerPc = "discard"
    /\ clips' = clips \ {job}
    /\ workerPc' = "report"
    /\ UNCHANGED <<mode, camVars, gateVars, job, attempt, reason, outcome,
                   alerts, report, crashes>>

\* The evidence is read into memory and its file unlinked.
ReadClip ==
    /\ workerPc = "read"
    /\ clips' = clips \ {job}
    /\ workerPc' = "post"
    /\ UNCHANGED <<mode, camVars, gateVars, job, attempt, reason, outcome,
                   alerts, report, crashes>>

\* unlink or read_bytes raises OSError; the catch-all of _handle ends the job.
FileRaises ==
    /\ workerPc \in {"discard", "read"}
    /\ EndWith("io_raised")
    /\ UNCHANGED <<mode, camVars, gateVars, job, attempt, reason, clips,
                   alerts, report, crashes>>

\* _report_cleared: best effort, a transport error is swallowed.
ReportCleared ==
    /\ workerPc = "report"
    /\ \E sent \in {"lost", "received"} :
          report' = [report EXCEPT ![job] = sent]
    /\ EndWith(reason)
    /\ UNCHANGED <<mode, camVars, gateVars, job, attempt, reason, clips,
                   alerts, crashes>>

\* The backend accepts the alert and the node sees the answer.
PostAccepted ==
    /\ workerPc = "post"
    /\ alerts' = [alerts EXCEPT ![job] = @ + 1]
    /\ EndWith("posted")
    /\ UNCHANGED <<mode, camVars, gateVars, job, attempt, reason, clips,
                   report, crashes>>

\* A 4xx answer: permanent, no retry.
PostRejected ==
    /\ workerPc = "post"
    /\ EndWith("rejected")
    /\ UNCHANGED <<mode, camVars, gateVars, job, attempt, reason, clips,
                   alerts, report, crashes>>

\* Mutants of PostFails: one attempt too many; the gate is opened during the
\* back-off; an alert that could not be posted is reported as cleared.
PostFailsThrice ==
    /\ workerPc = "post"
    /\ IF attempt <= 1
       THEN workerPc' = "backoff" /\ UNCHANGED outcome
       ELSE EndWith("dropped")
    /\ UNCHANGED <<mode, camVars, gateVars, job, attempt, reason, clips,
                   alerts, report, crashes>>

PostFailsReleasing ==
    /\ workerPc = "post"
    /\ IF attempt = 0
       THEN workerPc' = "backoff" /\ busy' = FALSE /\ UNCHANGED outcome
       ELSE EndWith("dropped") /\ UNCHANGED busy
    /\ UNCHANGED <<mode, camVars, admitted, pending, job, attempt, reason,
                   clips, alerts, report, crashes>>

PostFailsCleared ==
    /\ workerPc = "post"
    /\ \E arrived \in {0, 1} :
          alerts' = [alerts EXCEPT ![job] = @ + arrived]
    /\ IF attempt = 0
       THEN workerPc' = "backoff" /\ UNCHANGED reason
       ELSE workerPc' = "report" /\ reason' = "vlm_error"
    /\ UNCHANGED <<mode, camVars, gateVars, job, attempt, clips, outcome,
                   report, crashes>>

\* A 5xx answer or a transport error.  When only the answer was lost the
\* backend has accepted the alert all the same.
PostFails ==
    /\ workerPc = "post"
    /\ \E arrived \in {0, 1} :
          alerts' = [alerts EXCEPT ![job] = @ + arrived]
    /\ IF attempt = 0
       THEN workerPc' = "backoff" /\ UNCHANGED outcome
       ELSE EndWith("dropped")
    /\ UNCHANGED <<mode, camVars, gateVars, job, attempt, reason, clips,
                   report, crashes>>

\* asyncio.sleep(5.0), then the second turn of the loop.
Retry ==
    /\ workerPc = "backoff"
    /\ attempt' = attempt + 1
    /\ workerPc' = "post"
    /\ UNCHANGED <<mode, camVars, gateVars, job, reason, resultVars, crashes>>

\* The finally clause of _handle.
Release ==
    /\ workerPc = "release"
    /\ busy' = FALSE
    /\ workerPc' = "idle"
    /\ job' = NoJob
    /\ UNCHANGED <<mode, camVars, admitted, pending, attempt, reason,
                   resultVars, crashes>>

-----------------------------------------------------------------------------
(* The rest of the node.                                                   *)

\* The config poller publishes the centrally chosen mode.
SetMode(m) ==
    /\ m # mode
    /\ mode' = m
    /\ UNCHANGED <<camVars, gateVars, workVars, resultVars, crashes>>

\* A breach admitted and not handled to its end: in the hands of the camera
\* thread, of the executor's queue, or of the executor thread.
InFlight ==
    {j \in Jobs : \/ \E c \in Cameras : camPc[c] = "enqueue" /\ camJob[c] = j
                  \/ \E i \in DOMAIN pending : pending[i] = j
                  \/ workerPc # "idle" /\ job = j}

\* The process dies and is restarted.  Everything it held in memory is gone;
\* the temp directory is not.
Crash ==
    /\ crashes < MaxCrashes
    /\ crashes' = crashes + 1
    /\ mode' = BootstrapMode
    /\ camPc' = [c \in Cameras |-> "frame"]
    /\ camJob' = [c \in Cameras |-> NoJob]
    /\ busy' = FALSE
    /\ pending' = <<>>
    /\ workerPc' = "idle"
    /\ job' = NoJob
    /\ attempt' = 0
    /\ reason' = "none"
    /\ outcome' = [j \in Jobs |-> IF j \in InFlight /\ outcome[j] = "none"
                                  THEN "crashed" ELSE outcome[j]]
    /\ UNCHANGED <<admitted, clips, alerts, report>>

Submit(c) == ReadMode(c) \/ FindBusy(c) \/ TakeGate(c) \/ Enqueue(c)

Handle ==
    \/ StartJob \/ CutClip \/ CutFails \/ CutRaises \/ JudgeNoAlert
    \/ JudgeTheft \/ DiscardClip \/ ReadClip \/ FileRaises \/ ReportCleared
    \/ PostAccepted \/ PostRejected \/ PostFails \/ Retry \/ Release

Next ==
    \/ \E c \in Cameras : Submit(c)
    \/ Handle
    \/ \E m \in Modes : SetMode(m)
    \/ Crash

SafetySpec == Init /\ [][Next]_vars

\* Every call the executor thread makes is bounded by a timeout (ffmpeg 60 s,
\* the VLM and the POSTs by httpx), and a thread that is past the gate only has
\* a lock to take and a queue to append to: both are weakly fair.  Nothing
\* makes a camera have a breach.
Fairness ==
    /\ WF_vars(Handle)
    /\ \A c \in Cameras : WF_vars(FindBusy(c) \/ TakeGate(c) \/ Enqueue(c))

Spec == SafetySpec /\ Fairness
=============================================================================
