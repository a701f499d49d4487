--------------------------- MODULE CameraManager ---------------------------
(***************************************************************************)
(* The life of camera workers: LiveWorkerManager (manager.py), the thread  *)
(* each CameraWorker runs (camera_worker.py), the callbacks the config     *)
(* poller holds for them, the spec file of state_store.py and the startup  *)
(* replay of main.py.                                                      *)
(*                                                                         *)
(* start_camera and stop_camera run under the manager's lock, but they     *)
(* wait in Thread.join(timeout=3) and call other components there, so each *)
(* is a sequence of steps between which worker threads run and the process *)
(* may die.  A spec is what /v1/live/start carries: src stands for the     *)
(* fields start_camera compares (source, threshold, zones, badge color),   *)
(* store for those it does not (store id, frame skip).                     *)
(***************************************************************************)
EXTENDS Naturals

CONSTANTS Cameras,
          Sources,          \* values of the compared part of a spec
          Stores,           \* values of the part that is not compared
          AutoStart,        \* the cameras of LIVE_AUTO_START
          AutoSource,       \* their source, without threshold and zones
          AutoStore,        \* LIVE_AUTO_START_STORE_ID
          MaxWorkers,       \* bound: workers created in one process life
          MaxRestarts,      \* bound: process deaths and shutdowns
          MaxDiskErrors     \* bound: failed accesses to the spec file

Specs == [src : Sources, store : Stores]
NoSpec == [src |-> "none", store |-> "none"]
AutoSpec == [src |-> AutoSource, store |-> AutoStore]
Workers == 1..MaxWorkers
None == 0      \* no worker, no camera

ASSUME ManagerAssumption ==
    /\ AutoStart \subseteq Cameras
    /\ AutoStart # {} => AutoSpec \in Specs
    /\ NoSpec \notin Specs
    /\ MaxWorkers \in Nat /\ MaxRestarts \in Nat /\ MaxDiskErrors \in Nat

VARIABLES
    node,        \* phase of the process: "down", "auto" and "replay" at startup,
                 \* "up", "ending" in stop_all, "ended" after it
    todo,        \* cameras the startup's or stop_all's loop has still to visit
    loaded,      \* what load_specs returned
    op,          \* the operation that holds the manager's lock
    created,     \* number of CameraWorker objects built in this process
    camOf,       \* per worker: its camera
    specOf,      \* per worker: the spec it was built with
    thread,      \* per worker: where its thread is
    stopping,    \* per worker: _stop_event
    held,        \* per worker: _thread is not None
    registered,  \* _workers
    unsub,       \* _unsubs, a handle being named by its worker
    subs,        \* workers whose callbacks the poller holds
    file,        \* the spec file
    wanted,      \* history: what the backend was last told of each camera
    restarts, diskErrors

lifeVars == <<node, todo, loaded, restarts>>
workerVars == <<created, camOf, specOf, thread, stopping, held>>
tableVars == <<registered, unsub, subs>>
fileVars == <<file, wanted, diskErrors>>
vars == <<lifeVars, op, workerVars, tableVars, fileVars>>

NoOp == [kind |-> "none", cam |-> None, spec |-> NoSpec, step |-> "none",
         w |-> None]

Live(w) == thread[w] \in {"init", "loop", "call"}

\* CameraWorker.running
Running(w) == w # None /\ held[w] /\ Live(w)

Ops == {NoOp} \cup
       [kind : {"start", "stop"}, cam : Cameras, spec : Specs \cup {NoSpec},
        step : {"join", "launch", "record"}, w : Workers \cup {None}]

TypeOK ==
    /\ node \in {"down", "auto", "replay", "up", "ending", "ended"}
    /\ todo \subseteq Cameras
    /\ loaded \in [Cameras -> Specs \cup {NoSpec}]
    /\ op \in Ops
    /\ created \in 0..MaxWorkers
    /\ camOf \in [Workers -> Cameras \cup {None}]
    /\ specOf \in [Workers -> Specs \cup {NoSpec}]
    /\ thread \in [Workers -> {"none", "init", "loop", "call", "dead"}]
    /\ stopping \in [Workers -> BOOLEAN]
    /\ held \in [Workers -> BOOLEAN]
    /\ registered \in [Cameras -> Workers \cup {None}]
    /\ unsub \in [Cameras -> Workers \cup {None}]
    /\ subs \subseteq Workers
    /\ file \in [Cameras -> Specs \cup {NoSpec}]
    /\ wanted \in [Cameras -> Specs \cup {NoSpec}]
    /\ restarts \in 0..MaxRestarts /\ diskErrors \in 0..MaxDiskErrors

Init ==
    /\ node = "down"
    /\ op = NoOp
    /\ created = 0
    /\ camOf = [w \in Workers |-> None]
    /\ specOf = [w \in Workers |-> NoSpec]
    /\ thread = [w \in Workers |-> "none"]
    /\ stopping = [w \in Workers |-> FALSE]
    /\ held = [w \in Workers |-> FALSE]
    /\ registered = [c \in Cameras |-> None]
    /\ unsub = [c \in Cameras |-> None]
    /\ subs = {}
    /\ todo = {}
    /\ loaded = [c \in Cameras |-> NoSpec]
    /\ file = [c \in Cameras |-> NoSpec]
    /\ wanted = [c \in Cameras |-> NoSpec]
    /\ restarts = 0 /\ diskErrors = 0

-----------------------------------------------------------------------------
(* start_camera.                                                           *)

\* The backend is answered: camera c runs with spec s.  The startup code's own
\* calls answer nobody.
Answer(c, s) ==
    wanted' = IF node = "up" THEN [wanted EXCEPT ![c] = s] ELSE wanted

\* start_camera(c, s) finds a running worker with the same compared fields: it
\* returns at once, whatever the other fields are.
AlreadyRunning(c, s) ==
    /\ Running(registered[c])
    /\ specOf[registered[c]].src = s.src
    /\ Answer(c, s)
    /\ UNCHANGED <<op, workerVars, tableVars, file, diskErrors>>

\* The running worker has other fields: its stop() is called, and waits.
ReplaceRunning(c, s) ==
    /\ Running(registered[c])
    /\ specOf[registered[c]].src # s.src
    /\ created < MaxWorkers
    /\ stopping' = [stopping EXCEPT ![registered[c]] = TRUE]
    /\ op' = [kind |-> "start", cam |-> c, spec |-> s, step |-> "join",
              w |-> registered[c]]
    /\ UNCHANGED <<created, camOf, specOf, thread, held, tableVars, fileVars>>

\* No worker, or one whose thread has died.
StartAnew(c, s) ==
    /\ ~Running(registered[c])
    /\ created < MaxWorkers
    /\ op' = [kind |-> "start", cam |-> c, spec |-> s, step |-> "launch",
              w |-> None]
    /\ UNCHANGED <<workerVars, tableVars, fileVars>>

StartCamera(c, s) ==
    /\ op = NoOp
    /\ AlreadyRunning(c, s) \/ ReplaceRunning(c, s) \/ StartAnew(c, s)

\* join(timeout=3.0) returns because the thread is dead, or because it is still
\* in a call that takes longer (model download, RTSP read).
Joined(w) == thread[w] \in {"dead", "init", "call"}

\* Mutant of JoinReplaced: the callbacks of the replaced worker stay.
JoinReplacedKeeping ==
    /\ op.kind = "start" /\ op.step = "join"
    /\ Joined(op.w)
    /\ held' = [held EXCEPT ![op.w] = FALSE]
    /\ op' = [op EXCEPT !.step = "launch"]
    /\ UNCHANGED <<lifeVars, created, camOf, specOf, thread, stopping,
                   tableVars, fileVars>>

\* ... and start_camera drops the replaced worker's callbacks.
JoinReplaced ==
    /\ op.kind = "start" /\ op.step = "join"
    /\ Joined(op.w)
    /\ held' = [held EXCEPT ![op.w] = FALSE]
    /\ subs' = subs \ {unsub[op.cam]}
    /\ unsub' = [unsub EXCEPT ![op.cam] = None]
    /\ op' = [op EXCEPT !.step = "launch"]
    /\ UNCHANGED <<lifeVars, created, camOf, specOf, thread, stopping,
                   registered, fileVars>>

\* Build the worker, start its thread, register and subscribe it.  A handle
\* already in _unsubs is overwritten.
Launch ==
    /\ op.step = "launch"
    /\ LET w == created + 1
       IN  /\ created' = w
           /\ camOf' = [camOf EXCEPT ![w] = op.cam]
           /\ specOf' = [specOf EXCEPT ![w] = op.spec]
           /\ thread' = [thread EXCEPT ![w] = "init"]
           /\ held' = [held EXCEPT ![w] = TRUE]
           /\ registered' = [registered EXCEPT ![op.cam] = w]
           /\ subs' = subs \cup {w}
           /\ unsub' = [unsub EXCEPT ![op.cam] = w]
    /\ op' = [op EXCEPT !.step = "record"]
    /\ UNCHANGED <<lifeVars, stopping, fileVars>>

\* Mutant of RecordStarted: the manager's lock is not released on this path.
RecordStartedHolding ==
    /\ op.step = "record"
    /\ file' = [file EXCEPT ![op.cam] = op.spec]
    /\ Answer(op.cam, op.spec)
    /\ UNCHANGED <<op, lifeVars, workerVars, tableVars, diskErrors>>

\* state_store.record_started, then start_camera returns.
RecordStarted ==
    /\ op.step = "record"
    /\ file' = [file EXCEPT ![op.cam] = op.spec]
    /\ Answer(op.cam, op.spec)
    /\ op' = NoOp
    /\ UNCHANGED <<lifeVars, workerVars, tableVars, diskErrors>>

\* Mutant of RecordStartedFails: the error is not swallowed, so start_camera
\* fails although the worker runs.
RecordStartedRaises ==
    /\ op.step = "record"
    /\ diskErrors < MaxDiskErrors
    /\ diskErrors' = diskErrors + 1
    /\ op' = NoOp
    /\ UNCHANGED <<lifeVars, workerVars, tableVars, file, wanted>>

\* The same with a disk error: a failed write leaves the file as it was, and a
\* failed read counts as an empty file, which is then written back.
RecordStartedFails ==
    /\ op.step = "record"
    /\ diskErrors < MaxDiskErrors
    /\ diskErrors' = diskErrors + 1
    /\ \/ UNCHANGED file
       \/ file' = [c \in Cameras |-> IF c = op.cam THEN op.spec ELSE NoSpec]
    /\ Answer(op.cam, op.spec)
    /\ op' = NoOp
    /\ UNCHANGED <<lifeVars, workerVars, tableVars>>

-----------------------------------------------------------------------------
(* stop_camera.                                                            *)

\* Mutant of Forget: the worker is popped and not told to stop.
ForgetRunning(c) ==
    /\ registered' = [registered EXCEPT ![c] = None]
    /\ subs' = subs \ {unsub[c]}
    /\ unsub' = [unsub EXCEPT ![c] = None]
    /\ Answer(c, NoSpec)
    /\ UNCHANGED <<op, stopping>>

\* Forget the worker, its callbacks and its spec, then call stop() if there is
\* a worker; its thread is waited for with the lock held.
Forget(c) ==
    /\ registered' = [registered EXCEPT ![c] = None]
    /\ subs' = subs \ {unsub[c]}
    /\ unsub' = [unsub EXCEPT ![c] = None]
    /\ Answer(c, NoSpec)
    /\ IF registered[c] = None
       THEN UNCHANGED <<op, stopping>>
       ELSE /\ stopping' = [stopping EXCEPT ![registered[c]] = TRUE]
            /\ op' = [kind |-> "stop", cam |-> c, spec |-> NoSpec,
                      step |-> "join", w |-> registered[c]]

StopCamera(c) ==
    /\ op = NoOp
    /\ Forget(c)
    /\ file' = [file EXCEPT ![c] = NoSpec]
    /\ UNCHANGED <<created, camOf, specOf, thread, held, diskErrors>>

\* record_stopped meets a disk error, on the read or on the write: either way
\* the file stays as it was.
StopCameraUnrecorded(c) ==
    /\ op = NoOp
    /\ diskErrors < MaxDiskErrors
    /\ Forget(c)
    /\ diskErrors' = diskErrors + 1
    /\ UNCHANGED <<created, camOf, specOf, thread, held, file>>

JoinStopped ==
    /\ op.kind = "stop" /\ op.step = "join"
    /\ Joined(op.w)
    /\ held' = [held EXCEPT ![op.w] = FALSE]
    /\ op' = NoOp
    /\ UNCHANGED <<lifeVars, created, camOf, specOf, thread, stopping,
                   tableVars, fileVars>>

-----------------------------------------------------------------------------
(* The worker thread: CameraWorker._run.                                   *)

Step(w, from, to) ==
    /\ thread[w] = from
    /\ thread' = [thread EXCEPT ![w] = to]
    /\ UNCHANGED <<lifeVars, op, created, camOf, specOf, stopping, held,
                   tableVars, fileVars>>

\* Models are loaded; the stop event is not looked at before the loop.
InitDone(w) == Step(w, "init", "loop")

\* Mutant of LoopHead: the stop event is not looked at.
LoopHeadForever(w) == Step(w, "loop", "call")

\* The head of the loop: leave, or open or read the stream and process a frame.
LoopHead(w) == Step(w, "loop", IF stopping[w] THEN "dead" ELSE "call")

CallDone(w) == Step(w, "call", "loop")

\* Initialisation failed, or an exception left the loop: the thread ends by
\* itself, and the worker object stays in _workers.
DieByItself(w) == Step(w, "init", "dead") \/ Step(w, "call", "dead")

-----------------------------------------------------------------------------
(* The process: main.lifespan.                                             *)

\* The lifespan begins with LIVE_AUTO_START.
Boot ==
    /\ node = "down"
    /\ node' = "auto"
    /\ todo' = AutoStart
    /\ UNCHANGED <<loaded, restarts, op, workerVars, tableVars, fileVars>>

AutoStartNext ==
    /\ node = "auto"
    /\ \E c \in todo : StartCamera(c, AutoSpec) /\ todo' = todo \ {c}
    /\ UNCHANGED <<node, loaded, restarts>>

\* load_specs, after the last auto-start has returned.
LoadSpecs ==
    /\ node = "auto" /\ todo = {} /\ op = NoOp
    /\ node' = "replay"
    /\ loaded' = file
    /\ todo' = {c \in Cameras : file[c] # NoSpec}
    /\ UNCHANGED <<restarts, op, workerVars, tableVars, fileVars>>

\* load_specs cannot read the file: nothing is replayed.
LoadSpecsFails ==
    /\ node = "auto" /\ todo = {} /\ op = NoOp
    /\ diskErrors < MaxDiskErrors
    /\ diskErrors' = diskErrors + 1
    /\ node' = "replay"
    /\ UNCHANGED <<todo, loaded, restarts, op, workerVars, tableVars, file,
                   wanted>>

ReplayNext ==
    /\ node = "replay"
    /\ \E c \in todo : StartCamera(c, loaded[c]) /\ todo' = todo \ {c}
    /\ UNCHANGED <<node, loaded, restarts>>

Serve ==
    /\ node = "replay" /\ todo = {} /\ op = NoOp
    /\ node' = "up"
    /\ UNCHANGED <<todo, loaded, restarts, op, workerVars, tableVars,
                   fileVars>>

\* Nothing in memory outlives the process.
LoseMemory ==
    /\ node' = "down"
    /\ op' = NoOp
    /\ created' = 0
    /\ camOf' = [w \in Workers |-> None]
    /\ specOf' = [w \in Workers |-> NoSpec]
    /\ thread' = [w \in Workers |-> "none"]
    /\ stopping' = [w \in Workers |-> FALSE]
    /\ held' = [w \in Workers |-> FALSE]
    /\ registered' = [c \in Cameras |-> None]
    /\ unsub' = [c \in Cameras |-> None]
    /\ subs' = {}
    /\ todo' = {}
    /\ loaded' = [c \in Cameras |-> NoSpec]

Die ==
    /\ restarts < MaxRestarts
    /\ restarts' = restarts + 1
    /\ LoseMemory
    /\ UNCHANGED fileVars

\* The process dies at any moment; only the file survives.
Crash == node # "down" /\ Die

\* Orderly shutdown, once no request is in the way: stop_all takes the lock.
StopAll ==
    /\ node = "up" /\ op = NoOp
    /\ restarts < MaxRestarts
    /\ node' = "ending"
    /\ todo' = {c \in Cameras : registered[c] # None}
    /\ UNCHANGED <<loaded, restarts, op, workerVars, tableVars, fileVars>>

\* It calls the stop() of every worker and waits for it as stop_camera does,
\* while all of them are still registered and subscribed.
StopEach ==
    /\ node = "ending" /\ op = NoOp
    /\ \E c \in todo :
          /\ todo' = todo \ {c}
          /\ stopping' = [stopping EXCEPT ![registered[c]] = TRUE]
          /\ op' = [kind |-> "stop", cam |-> c, spec |-> NoSpec,
                    step |-> "join", w |-> registered[c]]
    /\ UNCHANGED <<node, loaded, restarts, created, camOf, specOf, thread, held,
                   tableVars, fileVars>>

\* Mutant of ForgetAll: the stopped cameras are recorded as stopped.
ForgetAllAndRecord ==
    /\ node = "ending" /\ todo = {} /\ op = NoOp
    /\ node' = "ended"
    /\ registered' = [c \in Cameras |-> None]
    /\ subs' = subs \ {unsub[c] : c \in Cameras}
    /\ unsub' = [c \in Cameras |-> None]
    /\ file' = [c \in Cameras |-> IF registered[c] # None THEN NoSpec
                                  ELSE file[c]]
    /\ UNCHANGED <<todo, loaded, restarts, op, workerVars, wanted, diskErrors>>

\* Then it forgets the workers and drops the callbacks.  The file is left alone.
ForgetAll ==
    /\ node = "ending" /\ todo = {} /\ op = NoOp
    /\ node' = "ended"
    /\ registered' = [c \in Cameras |-> None]
    /\ subs' = subs \ {unsub[c] : c \in Cameras}
    /\ unsub' = [c \in Cameras |-> None]
    /\ UNCHANGED <<todo, loaded, restarts, op, workerVars, fileVars>>

Exit == node = "ended" /\ Die

-----------------------------------------------------------------------------
\* A request of the backend, served while the node is up.
Request ==
    /\ node = "up"
    /\ \/ \E c \in Cameras, s \in Specs : StartCamera(c, s)
       \/ \E c \in Cameras : StopCamera(c) \/ StopCameraUnrecorded(c)
    /\ UNCHANGED lifeVars

Operation == JoinReplaced \/ Launch \/ RecordStarted \/ RecordStartedFails
             \/ JoinStopped

Startup == Boot \/ AutoStartNext \/ LoadSpecs \/ LoadSpecsFails \/ ReplayNext
           \/ Serve

Shutdown == StopAll \/ StopEach \/ ForgetAll \/ Exit

ThreadStep(w) == InitDone(w) \/ LoopHead(w) \/ CallDone(w)

Next ==
    \/ Request \/ Operation \/ Startup
    \/ \E w \in Workers : ThreadStep(w) \/ DieByItself(w)
    \/ Crash \/ Shutdown

SafetySpec == Init /\ [][Next]_vars

\* The caller of an operation, the startup code and a shutdown that has begun run
\* on, and a worker thread always comes back from a call: reads and opens carry a
\* 10 s timeout, the model download an HTTP one.
Fairness ==
    /\ WF_vars(Operation)
    /\ WF_vars(Startup)
    /\ WF_vars(StopEach \/ ForgetAll \/ Exit)
    /\ \A w \in Workers : WF_vars(ThreadStep(w) \/ DieByItself(w))

Spec == SafetySpec /\ Fairness

-----------------------------------------------------------------------------
(* Properties.                                                             *)

Idle == node = "up" /\ op = NoOp

SameSource(s, t) == s.src = t.src

\* The worker of camera c is the one the backend last asked for (as far as the
\* fields go that start_camera compares).
RegisteredAsWanted(c) ==
    /\ registered[c] = None <=> wanted[c] = NoSpec
    /\ registered[c] # None => SameSource(specOf[registered[c]], wanted[c])

\* A thread that nobody told to stop is gone: its initialisation failed, or an
\* exception left its loop.
DiedByItself(w) == thread[w] = "dead" /\ ~stopping[w]

\* ... and it runs, and was not told to stop, unless its thread died by itself:
\* that is not repaired before the camera is started again.
RunsAsWanted(c) ==
    /\ RegisteredAsWanted(c)
    /\ registered[c] # None =>
          LET w == registered[c]
          IN  (Running(w) /\ ~stopping[w]) \/ DiedByItself(w)

\* state_store.py: what was last started or stopped is what is on file and what
\* has a running thread, save one that died by itself, through deaths and
\* shutdowns of the process, as long as the file can be read and written and
\* LIVE_AUTO_START does not name the camera.
IntentHeld ==
    Idle /\ diskErrors = 0 => \A c \in Cameras \ AutoStart :
        SameSource(file[c], wanted[c]) /\ RunsAsWanted(c)

\* state_store.py: "a corrupt/unwritable state file must never break start/stop of
\* the live pipeline": until the process ends, disk errors do not show.
DiskErrorsHarmless ==
    Idle /\ restarts = 0 => \A c \in Cameras \ AutoStart : RunsAsWanted(c)

\* manager.py: an unsubscribe handle "MUST run when this worker stops or is
\* replaced".  The poller holds the callbacks of a worker told to stop only while
\* its stop() is waited for, or in stop_all, which stops every worker before it
\* drops a callback; and besides those of registered workers only the callbacks
\* of workers that died by themselves, whose handles a new start overwrote.
NoStrayCallbacks ==
    \A w \in subs :
        /\ stopping[w] => (op.step = "join" /\ op.w = w) \/ node = "ending"
        /\ registered[camOf[w]] = w \/ DiedByItself(w)

\* A live thread that is not the registered worker's has been told to stop: it
\* is on its way out and never runs on unnoticed.
StraysStopping ==
    \A w \in Workers :
        Live(w) /\ registered[camOf[w]] # w => stopping[w]

\* A thread that is told to stop ends, although stop() gives up waiting.
StopsEventually == \A w \in Workers : stopping[w] ~> ~Live(w)

\* Every startup reaches the point where the node serves requests, and so does a
\* shutdown, through the end of the process and the next startup.
BootCompletes == node # "up" ~> node = "up"

\* manager.py: "it MUST run when this worker stops or is replaced, or the poller
\* accumulates dead workers forever".
OnlyRegisteredSubscribed ==
    op = NoOp => \A w \in subs : registered[camOf[w]] = w

\* main.py: "start_camera is idempotent for an already-running identical spec, so
\* overlapping with LIVE_AUTO_START is harmless": a camera comes back from a
\* restart with the spec it was started with.
AutoStartHarmless ==
    Idle => \A c \in Cameras : wanted[c] # NoSpec =>
        registered[c] # None /\ SameSource(specOf[registered[c]], wanted[c])
=============================================================================
