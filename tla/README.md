# Verification of sentry-ai

TLA+ models of the sentry-ai node (`src/src/sentry_ai`), the TLC runs that check
them on small instances and the theorems TLAPS proves about them for every value
of the constants. Paths below are relative to `src/src/sentry_ai/` unless they
start with `src/`.

A node reads the RTSP streams of a store's cameras, finds and tracks persons,
scores their behavior, and hands the most suspicious one to a vision language
model (VLM) on the node's GPU. A verdict of theft becomes an alert at the backend.
The backend starts and stops cameras and tunes the node over HTTP; the node
fetches that tuning by polling.

Contents: [inventory](#inventory), [plan](#plan), [modules](#modules),
[runs](#runs), [fairness](#fairness), [proofs](#proofs),
[differences from the documentation](#where-the-code-differs-from-its-documentation),
[what is not modelled](#not-modelled).

## Inventory

| Part | State | Operations | Talks to |
|---|---|---|---|
| alert pipeline (`live_worker/breach_pusher.py`, `clip_cutter.py`) | `_busy`, the executor and its queue, the clip in the temp directory | `submit_breach`, `_handle`, `_cut_verify_push`, `_report_cleared` | called by every camera thread; ffmpeg, the VLM, the backend |
| camera lifecycle (`live_worker/manager.py`, `state_store.py`, `main.py`) | `_workers`, `_unsubs`, the spec file | `start_camera`, `stop_camera`, `stop_all`, startup replay | API handlers; worker threads; the config poller |
| camera worker (`live_worker/camera_worker.py`) | scorer, buffers of undelivered config, scan clocks | `_run`, `apply_*`, `_process_frame` | everything below, on its own thread |
| config delivery (`live_worker/config_poller.py`) | last weights, thresholds and params, callback lists | `subscribe`, `_run`, `_fetch_and_dispatch` | backend; calls back workers |
| runtime config (`runtime_config.py`, `_fetch_node_provider`) | centrally chosen provider, mode and detection settings | publish, resolve | poller writes, everyone reads |
| edge upload endpoint (`api/v1/verify.py`) | `_edge_inflight`, the semaphore, a temp file per request | `edge_clip_upload`, `verify`, `cut_verify` | the VLM, RAG (`rag.py`) |
| VLM verifier (`pipeline/verifier.py`, `providers/`) | none of its own; retry budgets | `verify_clip` | pipeline, endpoints, staff votes |
| metadata emitter (`live_worker/emitter.py`) | bounded queue, counters | `enqueue`, `_drain_batch`, post | camera threads; backend |
| behavior engine (`live_worker/behavior.py`) | per track: gates, event history, episode, state machine | `score`, `cleanup_stale`, `update_*` | camera worker |
| staff votes (`live_worker/staff.py`) | per track: votes, lock, attempts; one VLM gate | `observe`, late verdicts | camera worker; VLM thread |
| mannequin filter (`live_worker/mannequin.py`) | per track stillness, per cell bank | `observe`, `prune` | camera worker |
| store re-identification (`live_worker/reid.py`) | one registry per store | match, create, score, expire | all cameras of a store |
| demographics (`live_worker/demographics.py`) | votes per track, lock | `observe` | camera worker |
| detector and batcher (`yolo_runner.py`, `yolo_det.py`, `tracker.py`) | pending requests, batch thread | `infer` | all cameras |
| motion gate (`motion_gate.py`) | background, hold time | `observe` | camera worker |
| zones, health, heartbeat, shell, evaluation, installer | little or none | | |

What is hard here, and what would make each part correct:

- **alert pipeline.** Camera threads race for one flag, set on their thread and
  cleared on another after up to a dozen ways to fail. Correct means: one breach
  in flight and never one queued; the flag always comes back; no clip file outlives
  its job; a retried POST, whose first attempt may have been stored, never makes the
  backend believe both "alert" and "cleared".
- **camera lifecycle.** A `stop()` gives up after three seconds while the thread
  may be in a ten-second read; threads die by themselves; the process dies anywhere.
  Correct means: what runs, what is on file and what the backend asked for agree,
  after restarts as well; a thread that was told to stop ends; the poller keeps no
  callbacks of a worker that was stopped.
- **config delivery.** Three threads meet in a worker without a lock: the poller
  and the manager deliver while the worker's own thread builds its scorer; and the
  poller can die. Correct means: workers run on what was fetched last, never go back,
  and an edit arrives.
- **scan scheduling.** Two clocks and a table that is pruned while it is used.
  Correct means: no person reaches the VLM twice within the cooldown, no camera
  twice within its interval.
- **edge upload.** Every await can fail, and between a semaphore's release and the
  woken waiter other handlers run. Correct means: counts, permits and files are
  given back on every path, at most so many verifies at once, nobody sleeps beside
  a free permit.
- **metadata emitter.** `put`, `get`, `put` is not atomic across cameras. Correct
  means: frames of a camera leave in order, and each is accounted for.
- **behavior engine.** A dozen counters per track, each with its own idea of when it
  starts over (a frame, a stint, an episode, a track's life), and a score that
  sequences, decay and resets all move. Correct means: a concealment alerts and is
  never forgotten half way, an alert rests on its own episode (but for what a reset
  leaves of the score), no criterion banks again and again on one and the same thing.
- **staff votes.** A VLM verdict comes seconds after it was asked for: after a lock, a
  prune, or a change of the badge color. Correct means: nobody is staff but on evidence
  about the color in effect, a decision is final, and on a busy frame nobody who waits
  is overtaken.
- **mannequin filter.** Tracks of one body share a bank of stillness. Correct means:
  who is taken for a mannequin stood still for long, or stands where somebody did.
- **store re-identification.** Cameras match, create, score, mark and expire persons of
  one table, with other cameras' calls between the calls of one frame. Correct means:
  nobody in two places, no rise lost or counted twice, scores that fade with time only.
- **VLM verifier and the clip.** Window and seek arithmetic in two units, parse and
  transport retries in one loop. Correct means: the clip shows what the breach was about,
  the loop ends with the verdict it should, and the file goes.
- **detector, batcher and motion gate.** One thread answers all cameras, and the gate
  keeps frames from it. Correct means: everyone is answered with its own result, no
  camera goes blind, central settings come to be used.

`PROJECT.json` lists every hazard at its line, with the property that would catch it.

## Plan

Modelled in order of what a failure costs:

1. `BreachPusher` with `SingleFlight` as its promise: lost or false alerts. *Done, proved.*
2. `CameraManager`: cameras that do not run. *Done, proved.*
3. `ConfigDelivery`: cameras that run on wrong thresholds. *Done, proved.*
4. `ScanScheduler`: who is looked at. *Done, proved.*
5. `EdgeVerify` with `AdmissionPool` as its promise. *Done, proved but for liveness.*
6. `MetadataEmitter`. *Done, proved but for liveness.*
7. `BehaviorEngine`: who is suspicious. *Done, proved.*
8. `StaffVotes` and its VLM gate. *Done, proved.* `MannequinFilter`. *Done; TLC refutes
   its promise.*
9. `StoreRegistry` (re-identification): several cameras, one table, expiry. *Done, proved.*
10. `ClipVerdict`: the window, the cut and the VLM's two retry budgets, for all three
    callers. *Done, proved.*
11. `Detection`: motion gate, central settings, batcher. *Done, proved but for liveness.*
12. Left: the provider-health debounce of `_fetch_node_provider`; the hot updates
    (`update_*`) of a scorer; the votes of `demographics.py`; start and stop of the
    emitter and the poller.

Composition: `BehaviorEngine`, `StoreRegistry`, `ScanScheduler`, `BreachPusher` and
`ClipVerdict` meet at the score, `submit_breach` and `verify_clip`. Each is written with
the others' outcomes as nondeterministic choices (a breach is offered at any time;
`busy` changes at any time; the verdict may be anything), so a composition only removes
behaviours: an invariant proved of one part holds in the whole.

Every safety property and every action property a passing run checks is a theorem; what
is left to prove is listed at the end of [proofs](#proofs). No module declares a
RECURSIVE operator.

The parts a frame goes through, `Detection`, `StoreRegistry`, `ScanScheduler` and
`MetadataEmitter`, share no state but have names of their own, so that one module,
`FrameProofs`, can extend all four. Those that speak of the node's cameras take them from
`CameraSet`.

## Modules

In every module a definition named like an action plus a suffix and marked
"Mutant of" is a deliberately wrong version of that action. No specification uses
it; it shows that a property notices the mistake.

### BreachPusher, BreachPusherProps, SingleFlight

`submit_breach` is three steps of a camera thread, because others run in between:
`ReadMode` (`resolve_breach_mode`), `TakeGate` or `FindBusy` (under `_busy_lock`),
`Enqueue` (`_executor.submit`). `_handle` and `_cut_verify_push` are the steps of
the executor thread: `CutClip`, `CutFails` (a `ClipCutError`; ffmpeg may leave a
partial file), `CutRaises` (anything else, which may come after ffmpeg has written the
clip), the verdict, `DiscardClip`, `ReadClip`,
`ReportCleared`, `PostAccepted`, `PostRejected` (4xx), `PostFails` (5xx or
transport error, where the backend may have stored the alert all the same),
`Retry` and `Release`, the `finally` clause. `SetMode` is the poller, `Crash` the
death of the process: memory is lost, the temp directory is not.

A job's number stands for its content. `mode` has two values; every setting but
`node_push` returns in the same place. The clip's bytes and the window arithmetic
are abstracted.

`SingleFlight` is the promise: an admitted breach is handled alone and its handling
ends. `BreachPusher` implements it with `inFlight` mapped to the breaches in the
hands of a camera thread, the queue or the executor thread.

### CameraManager

`start_camera` is `AlreadyRunning`, or `ReplaceRunning`, `JoinReplaced`, `Launch`,
`RecordStarted`, or without the first two when nothing runs. `stop_camera` is
`StopCamera`, `JoinStopped`. Both hold the manager's lock throughout, so one
operation at a time is under way (`op`); the steps are split where the code waits in
`join` or writes the file, because threads and crashes come in between. Disk errors
are actions of their own: a failed write leaves the file, a failed read counts as
an empty file that is then written back.

A worker's thread is in its initialisation, at the head of its loop, in a call
(open, read, frame), or dead. It looks at the stop event at the head of the loop
only. `Joined` is where a `join(timeout=3)` may return: the thread is dead or in
something that can take longer.

`Boot`, `AutoStartNext`, `LoadSpecs`, `ReplayNext` and `Serve` are the startup half of
`main.lifespan`. `StopAll`, `StopEach` and `ForgetAll` are `stop_all`, which holds the lock
throughout: it stops the workers one after the other, each `stop()` waiting up to three
seconds, and only then forgets them and drops their callbacks, so that stopped workers
stay registered and subscribed meanwhile; `Exit` is the end of the process after that.
`Crash` ends it at any moment, between those steps too.

"What the backend asked for runs" is `RunsAsWanted`: the registered worker's thread is
alive and nobody told it to stop, or it died by itself (`DiedByItself`), which the code
does not notice before the camera is started again.

A spec is split into what `start_camera` compares (`src`) and what it does not
(`store`): a start that differs in the second part only changes nothing, in the
code as in the model.

### ConfigDelivery

The three parts of a config (weights, thresholds, params) go through the same code one
after the other. `Fetch` and `Compare` are the poller's request and its locked section;
`FetchMalformed` is a reply of the wrong shape, whose `TypeError` or `AttributeError`
ends the poller's thread for good (`polling`); `Enter` and `Apply` are an `apply_*`
call, which looks whether the scorer exists and then writes the scorer or the buffer;
`Subscribe` calls back with the lock held, as the code does; `BuildScorer`, `FlushPart`
and `ClearPart` are the worker's thread. `raced` remembers the workers a callback met
between the first look at the scorer and the end of the buffers.

`Unsubscribe` retires the worker: the life of its thread after that is
`CameraManager`'s subject.

### ScanScheduler

`Frame` is the scan part of `_process_frame`: the cleanup of the cooldown table
every so many frames comes first, then, if the interval is over, the riskiest
person out of cooldown is handed over, which starts both clocks whether or not
`submit_breach` takes the breach. `verified` remembers when it did. Time is a
counter; the interval and the cooldown are constants of a behavior (a change of the
central setting while the worker runs is not modelled). Nothing in `settings.py` relates
the cooldown (20 s) to the 300 s after which the table is pruned, and nothing is assumed:
the cooldown is any of `Cooldowns`, and `CooldownKept` says what holds of each, that the
person is left alone for the cooldown or for the pruning age, whichever is shorter.

### EdgeVerify, AdmissionPool

An action is the code of `edge_clip_upload` from one await to the next: `Arrive`
(shed or count in), the temp file, the body, RAG, the semaphore, the VLM, the
embedding, `Unlink` (both `finally` blocks). The semaphore is asyncio's (external):
`release` gives a permit to the first sleeping waiter (`WakeNext`), which holds it
from then on and leaves the queue when it runs (`Resume`), waking the next one if a
permit is left. Every HTTP status but 200 is one result, "error".

`AdmissionPool` is the promise: bounded admission, at most `Slots` served at once,
everyone admitted leaves.

### MetadataEmitter

`Put`, `Evict` and `PutAgain` are the three queue operations of `enqueue`, each
atomic by itself. `Take`, `CloseBatch`, `PostAnswered` and `PostFails` are the
emitter's thread. `fate` remembers how each frame left.

### BehaviorEngine, MCBehaviorEngine

`Score` is all of `score()` for one track, which runs under the scorer's lock, so the
whole handler is one action: the frame is analyzed if its keypoints are good enough
(`Analyze`: the smoothed streaks, the hold latch, the torso counter, the contact gate,
loitering, the shelf), what fired joins the event history (`Histories`), the rules it
completes are awarded (`Completed`), and the episode is closed (`Calm`, `Reset`) or the
state advances (`Advance`). `CleanupStale` is `cleanup_stale` for the track, `Unseen` a
frame of the camera without it. Tracks share no state, so one is enough.

What geometry makes of a frame is a record (an *observation*): which smoothed
criteria it shows, whether a wrist is on an item, where the hand is, and so on. The
score is a number up to `MaxScore` (the code's 100; raw scores above it are not told
apart): `Rescore` lets decay take any part of it away and a frame that banks add any
amount, so no decay may be above one and no weight negative; how `green_max` and
`high_max` relate is left open. The reset of a calm frame
closes the episode and leaves the score, as the code does. What fires in one frame
is a Python set, so its order in the history is any (`SetToSeqs`). Time counts the
camera's frames. `DEFAULT_SEQUENCES` is translated rule by rule, each meta-token
replaced by the criteria it stands for. `times`, `broken`, `handIn` and `earned` (the
points banked since the episode opened) are history. The hot updates of weights,
thresholds and params are left out.

### StaffVotes, MCStaffVotes

`BeginFrame` is `observe()` up to the choice of whom to sample: it notices another badge
color and starts over (`Resync`), or takes the verdicts that have come in and chooses
the due tracks longest not attempted (`Observe`; on a tie any of them, as the sort is
stable but the detections come in any order). `Sample` is one chosen track: the crop is
counted, and the track is submitted to the gate, locked on color alone, or neither.
`TakeQuestion` and `Reply` are `_VlmGate._run`, `SetColor` the poller, `Prune` the
camera's cleanup. What a crop shows and what the VLM answers are inputs. `basis`,
`shown` and `ahead` are history. A gate that a color change replaced leaves the model:
its thread lives on, but nothing reads its verdicts.

### StoreRegistry, MCStoreRegistry

The registry's calls are atomic under its lock and each is an action of a camera thread:
`Identify` (`match_or_create`), `Bank` (`add_score` with the rise since `_prev_raw`),
`Flag` (`set_staff` / `is_staff`). A frame of a track goes through them in that order,
and the other cameras run in between. `Unclear` is a frame whose crop is too poor to
identify anybody. Time passes by half-lives (`HalfLife`), and time stamps are ages.
Similarity is left open: any candidate may be the best one.

### ClipVerdict

One job at a time, from the breach (`TakeBreach`), from `/v1/cut-verify` (`TakeRequest`)
or from `/v1/verify` (`TakeFile`), through `CutClip`, `ExtractFrames`, the replies of
the VLM, and `Finish`. What else can raise before the unlink is `ContextFails`
(`retrieve_context`) and `AfterwardsFails` (the embedding, the reading of the clip, the
unlink). `Duration` and `ClipWindow` are `_clip_window` in half seconds, so that its
`math.ceil` has something to round and the default post-roll of half a second is one;
pad, post-roll and longest window are settings nobody checks against each other, and may
have any relation here. `Overlapping` and `Cut` are `clip_cutter.py`: the files that
overlap the window are concatenated, and the seek position is counted by the clock. A
recording is any set of seconds with any places where a file starts, gaps included. The
parse budget and the one transport retry of `verify_clip` are counters; `got` is what
really came.

### Detection

A frame of a camera is `ReadFrame` (`_sync_detection_config` and the motion gate), and,
if the gate lets it through, `SetParams`, `Infer` and `Return` around the batcher's
queue (`inbox`) and the batch its thread gathers (`collected`). `Collect`, `Predict` and
`PredictFails` are the batcher's thread: a model may return fewer results than frames,
or raise. `Restart` is a replaced worker, `EditSettings` the poller. The confidence
threshold stands for all settings of the detector.

### MannequinFilter

`Observe` is one still or moving frame of a track, on a line of places instead of a
floor, `InFixture` a track in a drawn fixture, `Prune` the two expiries. `stood` remembers
for each cell the ticks for which some track was credited, each once.

## Runs

| Run | Checks | Instance |
|---|---|---|
| `breach_pipeline` | one breach in flight, clips owned, alert or cleared but not both, `off` admits no more, `SingleFlight` | 2 cameras, 2 breaches, 1 crash |
| `camera_lifecycle` | intent held, disk errors harmless, callbacks accounted for, stops, boots and shutdowns complete | 2 cameras, 1 auto-started, 3 workers per process, 1 restart, 1 disk error |
| `config_delivery` | unraced workers on the last config, never backwards, edits arrive while the poller lives | 2 workers, 1 part, 2 edits |
| `scan_schedule` | cooldown kept | 2 persons, interval 2, cooldown 4 or 8, pruning age 5, 10 ticks |
| `edge_upload` | no lost wakeup, files cleaned up, `AdmissionPool` | 5 uploads, 2 permits, room for 2 more |
| `emitter` | order, accounting, every frame leaves | 2 cameras, 3 frames each, queue and batch of 2 |
| `behavior_engine` | concealments alert, alerts have evidence, exits need a concealment, banks capped, shelf banks once | 1 track, 11 kinds of frame, 2 rules, scores up to 3, 6 frames |
| `staff_votes` | staff justified, nobody overtaken, decisions final | 3 tracks, 2 colors, sample of 1, gate queue of 1, 4 frames |
| `store_registry` | scores fade by time only, rises banked once, nobody in two places, nobody forgotten while seen | 2 tracks on 2 cameras, 2 persons, window 1 |
| `clip_verdict` | window reaches back, clip shows it, budgets apart, clip gone | 6 seconds of any recording, windows of 3 to 5, post-rolls of 0.5, 1.5 and 5, 2 parse retries |
| `detection` | answers are one's own and come, nobody blind, edits arrive | 2 cameras, batch of 2, warm-down 2, stride 3, 2 edits, 1 restart |
| `mannequin_bank` | ends in a violation, see [below](#where-the-code-differs-from-its-documentation) | 2 tracks, 4 places, 6 ticks |

Every variable not bounded by its type is bounded by a named constant:

- `MaxJobs`, `MaxCrashes`: two breaches let a camera be refused, queue, and reuse
  the executor after a first job; what came before is invisible except through
  clips left behind. The proofs drop both bounds.
- `MaxWorkers` = 3 per process: a replacement, and a second one while the first
  replaced thread still runs. `MaxRestarts` and `MaxDiskErrors` = 1: the file is
  the only thing that survives, so a second death starts from a state the first
  could have reached.
- `MaxVersion` = 2: one version delivered, one still under way, and the initial
  one. The proofs drop it.
- `MaxTime` = 10 with a cooldown of 4: two full cooldowns, with prunings before,
  within and after them; with one of 8: one that the pruning at 5 cuts short. The proofs
  drop it.
- Five uploads on four places is the least at which one is shed while two hold
  permits and two sleep; two permits are the least at which two releases can come
  before a waiter runs.
- One part in `config_delivery`: parts share only the poller's position in its list;
  the proofs hold for any set of parts.
- `MaxTime` = 6 in `behavior_engine`, with smoothing, cadence and hold release of 2, an
  interval of 4 and one bank per stint: room for a bank, a broken stint and a second
  bank after the interval, for an episode that closes and another one, for a track that
  goes stale, and for events that outlive window (3) and cap (3). The 11 frames are a
  calm one, one without keypoints, every signal by itself and the pairs whose order in
  one frame matters. Scores up to 3 with cutoffs 1 and 2 are the least at which a reset can
  leave some of the score and an alert needs more than that. The proofs drop all of it.
- `MaxFrame` = 4 in `staff_votes`, with `EveryN` = 2: a track can be attempted, be due
  again, and be passed over in between; three tracks on a sample of one are the least at
  which one can overtake another while a third is served; a gate queue of one can be
  full. Colors and tracks are symmetric. The proofs drop all of it.
- Two persons in `store_registry`: one to be matched and one to be taken for another; a
  window of one half-life and scores up to 2 let a score fade to nothing while the person
  is seen. Tracks and cameras are swapped together (`MCCam`).
- `Now` = 6 in `clip_verdict`: a longest window of 5, and a second before it; every set of
  recorded seconds with every division into files, so gaps before, at and within the
  window. `SegmentMax` is longer than all of it, as 120 s are longer than a file.
  A post-roll of 5 s is the longest window, so that the breach falls out of its clip. The
  arithmetic of the window is proved for all values.
- Two cameras and a batch of two in `detection`: full and partial batches, and a frame
  put while another batch runs; two edits are a change and a clearing. Three cameras
  (one edit, stride 2, warm-down 1) were checked as well and show nothing more.
- `MaxFrames` = 3 per camera on a queue of two: both cameras can meet a full queue,
  while a batch is under way. One bound serves `queue`, `batch` and the counters.

Deadlock is checked except in `edge_upload` and `emitter`, where all requests may be
answered and all frames posted, in `config_delivery`, where the poller may be dead and the
edits used up, and in `behavior_engine`, where the clock's bound ends
the run.

The type invariants are not among the runs' properties: eleven are proved, as theorems
named `...TypeCorrect`, and TLC has checked that of `MannequinFilter` in the instance of
its run. The same goes for `CountsExact`, `StraysStopping`, `CooldownRemembered`,
`IntervalKept`, `BanksSpaced` and `NeverRegresses`, which are theorems.

## Fairness

Only what the code's own threads must do is fair; nothing outside (a breach, a
request, an edit, an upload, a frame) need ever happen.

- Executor thread (`BreachPusher`): ffmpeg is killed after 60 s, VLM and POST calls
  carry httpx timeouts, so each step ends: weak fairness of `Handle`. A camera
  thread past the gate has only a lock to take and a queue to append to.
- Manager operations, startup and a shutdown that has begun (`CameraManager`): a `join`
  has a timeout and the rest does not block. A worker's thread comes back from a call
  because reads and opens carry a 10 s timeout.
- The poller's loop catches HTTP errors and `ValueError`s and polls again; of anything else
  it dies, and `EditReachesRunning` promises an edit only until then. A callback and an
  initialisation run on (`ConfigDelivery`). That a reply, good or malformed, comes in the
  end is an assumption on the network.
- Handlers on the event loop are resumed when what they await is there
  (`EdgeVerify`); asyncio's ready queue is fair.
- A camera thread reads on as long as its stream brings frames, and waits for the
  batcher without a timeout; the batcher's thread has no end, and a batch fills up or its
  window passes (`Detection`: weak fairness of each camera and of the loop).
- The emitter's thread loops for ever and its posts time out after 5 s.

`ScanScheduler`, `BehaviorEngine`, `StaffVotes`, `StoreRegistry` and `ClipVerdict` have no
liveness property and no fairness: what they do is done within one frame or one job, and
the frames are the stream's.

## Proofs

TLAPS checks every step of these, with the SMT solver, Zenon and, for the temporal
steps, LS4. Assumptions are the named `ASSUME`s on the constants and nothing else; where
something is counted over the cameras or uploads, they are finitely many.

**BreachPusherProofs.** `TypeCorrect`, `GateIsExclusive`, `ClipsOwned`,
`AlertedNeverCleared`, `OffEndsAdmission`, `RefinesSingleFlight`. `OneBreachInFlight` is
inductive with the types. `ClipOwned` and `AlertXorCleared` are not: they need to know
that a job that is only now admitted, handed over or started has no clip, ending, alert
or report yet. That is `JobsFresh`: numbers above `admitted` are untouched, and so is
the job of every holder that has not cut yet; further down the path it says what the job
cannot have yet at each step. With it, `PostAccepted` and `PostFails` are the only steps
that add an alert, and from there no path leads to a report. For the refinement, each
step is shown to admit, to finish or to leave `InFlight` alone; exclusivity gives that a
finishing step empties it. This covers the safety part; liveness is left to TLC. For
`OffEndsAdmission`, `OffStep` says that while the mode is and stays off the cameras
between the check and the gate only become fewer, and one fewer whenever one is
admitted.

**CameraManagerProofs.** `ManagerTypeCorrect`, `StraysAreStopping`,
`CallbacksAreAccountedFor`, `IntentIsHeld`, `DiskErrorsAreHarmless`. The first
invariant, `Base`, says who is who: a worker beyond `created` has no thread and
no callback (`Allocated`), a new worker is launched only over a dead or stopping
one (`OpInv`), and a subscribed registered worker is the one whose handle is kept
(`Handles`). The second of these gives that strays are stopping, the third that
dropping the kept handle unsubscribes the worker that is replaced or stopped.
`ToldToStop` says that a registered worker is told to stop only where it is being replaced
or in a shutdown, so that between requests it runs or has died by itself
(`RegisteredServes`); `ShutdownInv` follows `stop_all`: whom it has dealt with was told to
stop, so what it forgets in the end leaves no thread behind that was not. The
second invariant, `Faithful`, follows one camera that is not auto-started through
the life of the process: the file agrees with what was asked for (`FileRight`),
nothing of it runs before the replay (`BeforeReplay`), in the replay it waits, is being
started, or runs (`ReplayRight`), and then it runs as wanted or is being started
(`UpRight`). `FirstLife` is what makes disk errors harmless until the process first
ends: nothing has to be replayed.

**ConfigDeliveryProofs.** `DeliveryTypeCorrect`, `NeverGoesBack`,
`UnracedRunsOnLast`. The first invariant, `Ordering`, is about versions: the poller
holds a response only while it dispatches nothing, so every callback under way
delivers exactly `last` (`CallsCurrent`), and nothing in a scorer or a buffer is newer
than `last` (`NothingNewer`). So a direct update never lowers a version:
`NeverGoesBack`. The second, `Reached`, says of every subscribed, unraced worker and part
that a callback is still owed to it or the part is up to date, in the scorer or,
before its buffer is applied, in the buffer; `SawRight` keeps what a callback saw true
until it acts. When no callback is under way only "up to date" is left:
`UnracedRunsOnLast`.

**FrameProofs.** What one frame of a camera goes through, in four parts.

- *Detector:* `DetectionTypeCorrect`, `AnswersAreOwn`, `GateNeverBlind`. `BatchedOnce`
  strengthens `OwnAnswer`: the queue and the batch in the making repeat nobody and share
  nobody, and exactly the cameras that wait unanswered are in them; `HowOften` turns this
  into the count the property is about. `GateCounts` says what keeps the gate from going
  blind: the counter that is taken modulo the stride is the number of frames left out, and
  it only runs in a quiet scene. The assumption that tells an answer from no answer
  (`None` is no camera and neither failure) is needed.
- *Persons of the store:* `RegistryTypeCorrect`, `ScoreFades`, `NoRiseBankedTwice`,
  `OneCameraAtATime`, `SeenIsRemembered`. Halving once more at each tick and dividing by
  `2 ^ age` at the end are the same (`Halving`), and a score is gone after as many
  half-lives as it is high, which is why its age may stop growing at `MaxScore`
  (`PowerExceeds`); powers of two are reasoned about as numbers of subsets
  (`PowerCounts`, `PowerDoubles`), as the prover knows nothing of `^`. `Sightings` ties the
  table to who saw whom: ids not given yet are nobody's, whoever was identified within
  this tick is on that camera, and nobody is unseen for longer than any camera's last
  identification is ago. The second gives `NowhereTwice`, the third that expiry cannot
  hit somebody who was seen. `RiseBooked` says that what a track has banked and has yet to
  bank never exceeds what it rose.
- *Scans:* `ScanTypeCorrect`, `CooldownNeverForgotten`, `CooldownIsKept`,
  `IntervalIsKept`. The invariant adds to the types that the camera's clock is never
  behind a breach that was taken (`ClocksBehind`) and that the table remembers every
  running cooldown up to the pruning age (`CooldownRemembered`); the lemma
  `TableRemembers` shows that pruning keeps it. No relation between cooldown and pruning
  age is assumed.
- *Emitter:* `EmitterTypeCorrect`, `FramesInOrder`, `FramesAccounted`. Order and accounting
  hold each other up: a frame may be appended because what a camera thread holds is newer
  than all that waits or was posted of its camera (`Pending`, `InHand`, `PostedOlder`), and
  that rests on the fate of frames being decided once (`ToCome`). The lemmas
  `AppendedFrame`, `EvictedFrame`, `TakenFrame` and `PostedBatch` say what the four
  operations do to the sequence of what waits, `LeaveCounts` and `RetryingCounts` what
  they do to the counters. A batch counts as many frames as it is long because an ordered
  sequence repeats none (`WaitsOnce`).

**BehaviorEngineProofs.** `EngineTypeCorrect`, `AlertsHaveEvidence`,
`ExitsNeedConcealment`, `ConcealmentsAlert`, `StateNeverRegresses`, `BanksAreSpaced`,
`RestingHandsTopOut`, `ShelvesBankOnce`: every property of the run. The lemma
`HistoryTyped` bounds the history and says that nothing fired into an empty one leaves
it empty; `Quiet` concludes that without an open episode such a frame awards nothing,
which is what keeps events, ledger and awards to their episode. The score is not kept to
it: a reset leaves up to `green_max`. So `EngineInv` says that the score is never more
than `green_max` and what was banked in the open episode (`ScoreEarned`), and a score
above `high_max` then needs more than their difference banked (`EarnedSince`). It adds
to the three episode properties also that an award of the concealment rule means Alert
(`SequenceAlerts`): a sequence in the history is completed now, and then it is critical,
or was awarded before, and then the state is Alert and `AdvanceState` shows that it
stays. For the contact gate, `GateInv` says that no bank is later than `lastBank` and
that the banks since the last break are counted by `banks`; `GateFrame` reduces a frame
to three cases (nothing, a break, a bank).

**EdgeVerifyProofs.** `EdgeTypeCorrect`, `CountsAreExact`, `NoWakeupIsLost`,
`FilesAreCleanedUp`, `ImplementsPoolSafely`, for any number of uploads. The properties are
inductive together, with the types, the finiteness of what is inside and the fact that a
handler before its `mkstemp` has no file. The lemmas `TakenOut` and `Joined` say what
leaving and joining do to a queue without repetitions, `FirstPosition` that `Min` of the
sleepers' places is one of them. `WakingInv` treats the two steps that wake, `Resume` and
the releases, at once: either a sleeper is given the permit, and the sum of permits and
holders stays, or there is nobody or nothing to give. For the refinement, `Moves` lists
how a handler's step moves it and that it moves others from their sleep at most, which the
pool does not see.

**StaffVotesProofs.** `VotesTypeCorrect`, `StaffIsJustified`, `NobodyIsOvertaken`,
`DecisionsAreFinal`. `NobodyOvertaken` is not inductive. Two facts imply it: those who were
sampled since a track was have a later frame to show for it (`AheadIsLater`), and the
sample is closed under longer waiting (`OldestFirst`), which the sort establishes and
which survives the sampling because a sampled track is then the youngest. That
everybody in the sample is undecided (`TodoUndecided`) makes decisions final, and that the
gate in place asks about the color in effect (`ColorSynced`) makes late verdicts count for
the right color only.

**ClipVerdictProofs.** `VerdictTypeCorrect`, `WindowsReachBack`, `BudgetsAreApart`,
`ClipsAreGone`, `ClipsShowTheirWindow`. `DurationBounds` is the arithmetic of the window
for all pads, post-rolls and limits, whatever their relation: it is longer than the
post-roll exactly where the longest window is (which takes a pad and slack above nothing,
as any pad above minus two seconds gives), and as long as the episode with its pads
wherever that is allowed. `BudgetsKept` says that while the VLM is asked the counters
equal what came. For `ClipsShowTheirWindow`, `CutShowsWindow`
places the seconds of a window in the concatenated files. Every recorded second is in a
file (`FileOf`), and ffmpeg finds a second at its place, the number of seconds before it in
those files. That place is never further along than the clock says, and as far along where
the files have no gap (`PlaceBounds`). So nothing before the window is cut; and where the
window's first second was recorded, its file has no gap before it (`FileUnbroken`) and
nothing recorded in the window is lost.

**Only model-checked:** every liveness property (`StopsEventually`, `BootCompletes`,
`EditReachesRunning`, `EveryFrameLeaves`, `EveryCameraAnswered`, `EditReachesDetector`, the
liveness of `SingleFlight` and `AdmissionPool`), which is out of the prover's reach, and
`MannequinFilter`, whose run ends in a violation.

## Where the code differs from its documentation

In the run `mannequin_bank` TLC finds a sentence of the code violated. The module's
docstring promises that a track is latched once it, or tracks on its spot, stood still
for `still_after_sec`. But every track on a spot credits it with the time since its own
last frame, so two bodies side by side fill the bank at twice the speed of time: two
shoppers at a shelf for half as long are both taken for mannequins, and left out of the
scans.

Five more definitions state what a document says and the code does not keep. No run
checks them; added to the cfg of their module's run, each is violated.

- `CutFailureReported` (`BreachPusherProps`): a cut that fails with anything but
  `ClipCutError` (no ffmpeg binary, disk full) is only logged, although
  `_report_cleared` exists to make the miss visible.
- `OnlyRegisteredSubscribed` (`CameraManager`): starting a camera whose thread died by
  itself overwrites the dead worker's unsubscribe handle; its callbacks stay for ever.
- `AutoStartHarmless` (`CameraManager`): `LIVE_AUTO_START` runs before the replay and
  writes its bare spec over the saved one, so the overlap is not harmless.
- `RunsOnLast` (`ConfigDelivery`): a callback that looks for the scorer just before it
  exists writes a buffer nobody reads any more, and the worker runs on old values until
  the next edit.
- `SustainedHandBanks` (`BehaviorEngine`): a hand brought between the shoulders is meant to
  bank without any other signal, once it has stayed for the cadence's frames. But the
  reset of a calm frame zeroes the counter of these frames, so for a person who shows
  nothing else it never passes one. The reset spares the contact gate for this very reason.

Observed while modelling and stated by no run:

- Lifecycle: a worker whose thread died by itself stays registered and is not restarted
  before the camera is started again; `stop()` may return with the thread alive, so two
  threads of one camera can overlap (`StraysStopping` and `StopsEventually` bound the
  overlap); a read error of the spec file makes `record_started` write back a file with
  its own camera only; a start that differs in `store_id` only is answered as already
  running and neither applied nor saved; a stream that opens but never yields a frame is
  reopened without backoff.
- Config delivery: the poller's loop catches `httpx.HTTPError` and `ValueError` only
  (`config_poller.py:120`), so a reply of the wrong shape (a list for an object, a null
  weight) ends its thread; nothing restarts it, and no later edit arrives. The guard behind
  it, which lets "nothing ... kill the poller thread" (`config_poller.py:126`), is around
  the node config alone.
- Scans: a breach that `submit_breach` drops still starts the person's cooldown; a cooldown
  set above 300 s is cut short by the pruning of the table.
- Emitter: with two cameras on a full queue the second put of `enqueue` can raise out of
  it, and neither lost frame is counted.
- Behavior: the reset of a calm frame closes the episode but leaves the score, so up to
  `green_max` of it counts towards the next alert; the torso counter goes up and down,
  so a hand that flickers about a multiple of the cadence banks on each crossing;
  streaks and the hold latch stand still while keypoints are missing.
- Staff: grayscale sightings count towards `color_only_hits`, so after seven gray ones a
  single color hit locks; a lock on color can precede a VLM "no", which is then ignored;
  a question the VLM did not answer is not asked again.
- Mannequins: a shopper who stands for two frames next to a mannequin's full bank is
  latched at once.
- Registry: the lenient match within one camera can give two tracks in view one person
  (`reid.py:260-264`); the rise of a person who is pruned between match and `add_score` is
  lost; ages are taken from the wall clock.
- Clip: with a post-roll as long as the longest window (`settings.py:152-154` check
  neither against the other) the window does not reach back before the breach; the seek
  position is counted by the clock in files without their gaps, so a window that begins
  in a gap of the recordings loses footage (the exception in `ClipShowsWindow`); a
  partial clip stays when ffmpeg fails; `cut_verify` leaves its clip when anything
  between the cut and the unlink raises: the retrieval, `verify_clip`, the embedding,
  the read (the exceptions in `ClipGone`).
- Upload and verify endpoints: `rag.retrieve_context` formats the backend's answer outside
  its `try`, so an answer of the wrong shape fails the request, although retrieval is best
  effort.
- Verifier: the longer timeout of the retry is ignored by every provider
  (`del timeout_sec`). The semaphore of the edge endpoint does not cover `verify`,
  `cut_verify` and the breach executor.
- Settings: a central threshold that is cleared stays with running workers while new ones
  take the default, and each writes its own to the shared batcher; the failure count of
  the provider check is not reset when the provider changes
  (`config_poller.py:196-200`).

## Not modelled

- Demographics votes: the staff votes' sampling rule without a second thread; the
  classifiers are numeric. The hot updates of the behavior engine's settings and of the
  scan interval; the health check of the VLM provider; `emitter.start/stop`,
  `poller.start/stop`: listed in the plan as left.
- The unbatched detector (one lock around the model), item detection and ByteTrack.
- Prompts, request bodies and the model list of the VLM providers.
- Numerics: detection, tracking, pose and embedding arithmetic, skeleton training and
  evaluation.
- Zones: pure geometry on floats, without state.
- Health, heartbeat, metrics: readers of other parts' state that change nothing.
- Service shell (settings, auth, logging), installer and scripts: configuration and I/O
  without a protocol.
