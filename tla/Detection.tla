----------------------------- MODULE Detection -----------------------------
(***************************************************************************)
(* The detector under the cameras: one frame at a time goes through a      *)
(* camera worker's motion gate (motion_gate.py), takes the central         *)
(* detection settings along (_sync_detection_config, camera_worker.py) and *)
(* waits in the shared batcher (_PoseBatcher, yolo_runner.py), whose one   *)
(* thread runs the pose model for several cameras at once.                 *)
(*                                                                         *)
(* A confidence threshold is the only setting told apart, and a frame is   *)
(* known by its camera, which never has two of them under way.             *)
(***************************************************************************)
EXTENDS CameraSet, Integers, Sequences, SequencesExt

CONSTANTS Confs,        \* thresholds the central settings can name
          Default,      \* the one a worker is built with
          None,         \* not set, or no answer yet
          MaxBatch,     \* yolo_batch_max
          QuietAfter, IdleStride, \* the motion gate's
          MaxEdits,     \* bound: edits of the central settings
          MaxRestarts   \* bound: workers replaced

\* What the Future of a waiting frame holds besides a result.
Failed == "failed"
Short  == "no result"     \* the model returned fewer results than frames

ASSUME DetectionAssumption ==
    /\ Default \in Confs /\ None \notin Confs \cup Cameras \cup {Failed, Short}
    /\ Failed \notin Cameras /\ Short \notin Cameras
    /\ MaxBatch \in Nat \ {0}
    /\ QuietAfter \in Nat \ {0} /\ IdleStride \in Nat \ {0, 1}
    /\ MaxEdits \in Nat /\ MaxRestarts \in Nat

VARIABLES
    pc,          \* per camera: read, set, put, wait
    conf,        \* per camera: its YoloPoseRunner's conf
    tracked,     \* per camera: _last_track_count > 0
    streak,      \* per camera: _still_streak, up to QuietAfter
    idle,        \* per camera: _idle_counter, modulo IdleStride
    answer,      \* per camera: the frame the Future's result belongs to, or None
    central,     \* the central person_conf, or None
    shared,      \* the batcher's conf
    inbox,       \* its queue: the cameras whose frames wait
    collected,   \* the frames its thread has collected
    skipped,     \* history, per camera: frames since the detector last ran on one
    edits, restarts

cams    == <<pc, conf, tracked, streak, idle, answer, skipped>>
batcher == <<shared, inbox, collected>>
bounds  == <<edits, restarts>>
detectionVars == <<cams, central, batcher, bounds>>

\* What the Future of a waiting frame holds.
Answers == Cameras \cup {None, Failed, Short}

DetectionTypeOK ==
    /\ pc \in [Cameras -> {"read", "set", "put", "wait"}]
    /\ conf \in [Cameras -> Confs]
    /\ tracked \in [Cameras -> BOOLEAN]
    /\ streak \in [Cameras -> 0..QuietAfter]
    /\ idle \in [Cameras -> 0..(IdleStride - 1)]
    /\ answer \in [Cameras -> Answers]
    /\ central \in Confs \cup {None}
    /\ shared \in Confs
    /\ inbox \in Seq(Cameras) /\ collected \in Seq(Cameras)
    /\ skipped \in [Cameras -> 0..IdleStride]
    /\ edits \in 0..MaxEdits /\ restarts \in 0..MaxRestarts

DetectionInit ==
    /\ pc = [c \in Cameras |-> "read"]
    /\ conf = [c \in Cameras |-> Default]
    /\ tracked = [c \in Cameras |-> FALSE]
    /\ streak = [c \in Cameras |-> 0] /\ idle = [c \in Cameras |-> 0]
    /\ answer = [c \in Cameras |-> None]
    /\ central = None
    /\ shared = Default /\ inbox = <<>> /\ collected = <<>>
    /\ skipped = [c \in Cameras |-> 0]
    /\ edits = 0 /\ restarts = 0

-----------------------------------------------------------------------------
(* One frame of a camera.                                                  *)

\* Mutant of Synced: the settings are taken only by a worker that has none.
SyncedOnce(c) == IF conf[c] = Default /\ central # None THEN central ELSE conf[c]

\* _sync_detection_config: a setting that was cleared leaves the last one.
Synced(c) == IF central = None THEN conf[c] ELSE central

\* The gate's decision on a frame with motion, or with a track from before: whether the
\* detector is to run, and the gate's counters.
Moving == [infer |-> TRUE, streak |-> 0, idle |-> 0]

\* Mutant of Still: once the scene is quiet, only motion reopens the gate.
StillWithoutStride(c) ==
    LET quiet == streak[c] + 1 >= QuietAfter
    IN  [infer  |-> ~quiet,
         streak |-> IF quiet THEN QuietAfter ELSE streak[c] + 1,
         idle   |-> idle[c]]

\* A still scene without tracks: the warm-down, then every IdleStride-th frame.
Still(c) ==
    LET quiet == streak[c] + 1 >= QuietAfter
        next  == (idle[c] + 1) % IdleStride
    IN  [infer  |-> ~quiet \/ next = 0,
         streak |-> IF quiet THEN QuietAfter ELSE streak[c] + 1,
         idle   |-> IF quiet THEN next ELSE idle[c]]

\* The start of _process_frame: the settings, then the gate.
ReadFrame(c, moving) ==
    LET gate == IF moving \/ tracked[c] THEN Moving ELSE Still(c) IN
    /\ pc[c] = "read"
    /\ conf' = [conf EXCEPT ![c] = Synced(c)]
    /\ streak' = [streak EXCEPT ![c] = gate.streak]
    /\ idle' = [idle EXCEPT ![c] = gate.idle]
    /\ skipped' = [skipped EXCEPT ![c] =
                      IF gate.infer THEN 0 ELSE IF @ < IdleStride THEN @ + 1 ELSE @]
    /\ pc' = [pc EXCEPT ![c] = IF gate.infer THEN "set" ELSE @]
    /\ UNCHANGED <<tracked, answer, central, batcher, bounds>>

\* set_params: without a lock.
SetParams(c) ==
    /\ pc[c] = "set"
    /\ shared' = conf[c]
    /\ pc' = [pc EXCEPT ![c] = "put"]
    /\ UNCHANGED <<conf, tracked, streak, idle, answer, central, inbox, collected,
                   skipped, bounds>>

\* infer: a new Future, and the frame into the queue.
Infer(c) ==
    /\ pc[c] = "put"
    /\ inbox' = Append(inbox, c)
    /\ answer' = [answer EXCEPT ![c] = None]
    /\ pc' = [pc EXCEPT ![c] = "wait"]
    /\ UNCHANGED <<conf, tracked, streak, idle, central, shared, collected, skipped,
                   bounds>>

\* fut.result() returns or raises.  A missing result is a frame without persons; an
\* exception ends the frame before the tracker sees it.
Return(c, found) ==
    /\ pc[c] = "wait" /\ answer[c] # None
    /\ tracked' = [tracked EXCEPT ![c] =
                      IF answer[c] = Failed THEN @ ELSE answer[c] # Short /\ found]
    /\ pc' = [pc EXCEPT ![c] = "read"]
    /\ answer' = [answer EXCEPT ![c] = None]
    /\ UNCHANGED <<conf, streak, idle, central, batcher, skipped, bounds>>

\* The manager replaces a worker: its runner, gate and tracker are new.
Restart(c) ==
    /\ pc[c] = "read"
    /\ restarts < MaxRestarts
    /\ restarts' = restarts + 1
    /\ conf' = [conf EXCEPT ![c] = Default]
    /\ tracked' = [tracked EXCEPT ![c] = FALSE]
    /\ streak' = [streak EXCEPT ![c] = 0]
    /\ idle' = [idle EXCEPT ![c] = 0]
    /\ skipped' = [skipped EXCEPT ![c] = 0]
    /\ UNCHANGED <<pc, answer, central, batcher, edits>>

-----------------------------------------------------------------------------
(* The batcher's thread.                                                   *)

\* The first frame of a batch, or one more within the window.
Collect ==
    /\ inbox # <<>> /\ Len(collected) < MaxBatch
    /\ collected' = Append(collected, Head(inbox))
    /\ inbox' = Tail(inbox)
    /\ UNCHANGED <<cams, central, shared, bounds>>

\* Mutant of ResultOf: a short answer is taken to lack the first frames.
ResultOfLast(i, n) ==
    IF i > Len(collected) - n THEN collected[i - (Len(collected) - n)] ELSE Short

\* The i-th frame's result when the model returned n of them, in order.
ResultOf(i, n) == IF i <= n THEN collected[i] ELSE Short

BatchDone == collected # <<>> /\ collected' = <<>>

\* The batch is full or its window has passed, and the model runs with the settings
\* of this moment.
Predict(n) ==
    /\ BatchDone
    /\ answer' = [c \in Cameras |->
                     IF \E i \in DOMAIN collected : collected[i] = c
                     THEN ResultOf(CHOOSE i \in DOMAIN collected : collected[i] = c, n)
                     ELSE answer[c]]
    /\ UNCHANGED <<pc, conf, tracked, streak, idle, skipped, central, shared, inbox,
                   bounds>>

\* Mutant of PredictFails: the frames go back to the queue.
PredictFailsAgain ==
    /\ BatchDone
    /\ inbox' = inbox \o collected
    /\ UNCHANGED <<cams, central, shared, bounds>>

\* The model cannot be loaded or raises: every frame of the batch is told.
PredictFails ==
    /\ BatchDone
    /\ answer' = [c \in Cameras |-> IF c \in ToSet(collected) THEN Failed ELSE answer[c]]
    /\ UNCHANGED <<pc, conf, tracked, streak, idle, skipped, central, shared, inbox,
                   bounds>>

-----------------------------------------------------------------------------

\* The poller brings other settings, or settings without the threshold.
EditSettings(v) ==
    /\ edits < MaxEdits /\ v # central
    /\ edits' = edits + 1
    /\ central' = v
    /\ UNCHANGED <<cams, batcher, restarts>>

Camera(c) ==
    \/ \E moving \in BOOLEAN : ReadFrame(c, moving)
    \/ SetParams(c) \/ Infer(c)
    \/ \E found \in BOOLEAN : Return(c, found)

RunModel == (\E n \in 0..Len(collected) : Predict(n)) \/ PredictFails

Loop == Collect \/ RunModel

DetectionNext ==
    \/ \E c \in Cameras : Camera(c) \/ Restart(c)
    \/ Loop
    \/ \E v \in Confs \cup {None} : EditSettings(v)

\* The threads of the cameras run as long as their streams bring frames; the
\* batcher's thread has no end, and a batch fills up or its window passes.
Fairness ==
    (\A c \in Cameras : WF_detectionVars(Camera(c))) /\ WF_detectionVars(Loop)

DetectionSpec == DetectionInit /\ [][DetectionNext]_detectionVars /\ Fairness

-----------------------------------------------------------------------------
(* Properties.                                                             *)

\* The cameras whose frames the batcher has.
InBatcher == inbox \o collected

\* A camera is in the batcher exactly once while it waits for an answer, and the
\* answer it gets is about its own frame.
OwnAnswer ==
    \A c \in Cameras :
        /\ answer[c] \in {None, c, Failed, Short}
        /\ Cardinality({i \in DOMAIN InBatcher : InBatcher[i] = c}) =
               (IF pc[c] = "wait" /\ answer[c] = None THEN 1 ELSE 0)

\* The gate never leaves out more than IdleStride - 1 frames in a row, so a person whom
\* the motion test misses is seen by the detector all the same.
NeverBlind == \A c \in Cameras : skipped[c] < IdleStride

\* Every camera that waits for the detector is answered and reads on, whatever the
\* model does with its batch and the batches before it.
EveryCameraAnswered == \A c \in Cameras : pc[c] = "wait" ~> pc[c] = "read"

\* Once the central threshold stays, the batches come to be run with it, although
\* every camera writes the shared one for all.
EditReachesDetector ==
    \A v \in Confs : <>[](central = v) => <>[](collected # <<>> => shared = v)
=============================================================================
