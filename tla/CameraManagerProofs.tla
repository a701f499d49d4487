------------------------ MODULE CameraManagerProofs ------------------------
(***************************************************************************)
(* Proofs about the life of camera workers, for every number of cameras,   *)
(* workers, restarts and disk errors: first who runs and who is subscribed *)
(* (Base), then what the backend asked for (Faithful).                     *)
(***************************************************************************)
EXTENDS CameraManager, TLAPS

LifeTyped ==
    /\ node \in {"down", "auto", "replay", "up", "ending", "ended"}
    /\ todo \subseteq Cameras
    /\ loaded \in [Cameras -> Specs \cup {NoSpec}]
    /\ restarts \in 0..MaxRestarts

CoreTyped ==
    /\ op \in Ops
    /\ created \in 0..MaxWorkers
    /\ camOf \in [Workers -> Cameras \cup {None}]
    /\ specOf \in [Workers -> Specs \cup {NoSpec}]
    /\ thread \in [Workers -> {"none", "init", "loop", "call", "dead"}]
    /\ stopping \in [Workers -> BOOLEAN]
    /\ held \in [Workers -> BOOLEAN]
    /\ registered \in [Cameras -> Workers \cup {None}]
    /\ unsub \in [Cameras -> Workers \cup {None}]
    /\ subs \subseteq Workers
    /\ file \in [Cameras -> Specs \cup {NoSpec}]
    /\ wanted \in [Cameras -> Specs \cup {NoSpec}]
    /\ diskErrors \in 0..MaxDiskErrors

\* The startup loops start what they may.
StartupInv ==
    /\ node = "auto" => todo \subseteq AutoStart
    /\ node = "replay" => \A c \in todo : loaded[c] \in Specs

\* A shutdown starts nothing, and the workers it has not stopped wait for it.
ShutdownInv ==
    node \in {"ending", "ended"} =>
        /\ op.kind # "start"
        /\ \A c \in todo : registered[c] # None
        /\ \A c \in Cameras \ todo : registered[c] # None =>
                                       stopping[registered[c]]

\* A worker has a camera, a spec and possibly a thread from its creation on, and
\* the tables name only created workers, each of the right camera.
Allocated ==
    /\ \A w \in Workers :
          IF w <= created
          THEN /\ camOf[w] \in Cameras /\ thread[w] # "none"
               /\ ~held[w] => stopping[w]
          ELSE thread[w] = "none" /\ ~stopping[w] /\ w \notin subs
    /\ \A c \in Cameras : registered[c] # None =>
          registered[c] <= created /\ camOf[registered[c]] = c

\* What an operation knows of the worker it has to do with.
OpInv ==
    /\ op.kind = "none" => op = NoOp
    /\ op.kind # "none" => op.cam \in Cameras
    /\ op.kind = "start" => op.spec \in Specs
    /\ op.kind = "stop" => op.step = "join"
    /\ op.kind = "start" /\ op.step \in {"join", "launch"}
          => created < MaxWorkers
    /\ op.kind # "none" /\ op.step = "join" =>
          op.w \in Workers /\ op.w <= created /\ stopping[op.w]
    /\ op.kind = "start" /\ op.step = "join" => registered[op.cam] = op.w
    /\ op.kind = "stop" => op.w \notin subs \/ node = "ending"
    /\ op.step = "launch" /\ registered[op.cam] # None =>
          /\ ~Live(registered[op.cam]) \/ stopping[registered[op.cam]]
          /\ registered[op.cam] \in subs => DiedByItself(registered[op.cam])

\* The handle kept for a camera is that of its worker, if that is subscribed.
Handles ==
    \A c \in Cameras : registered[c] \in subs => unsub[c] = registered[c]

\* A registered worker is told to stop only to be replaced, or in stop_all.
ToldToStop ==
    \A c \in Cameras : registered[c] # None /\ stopping[registered[c]] =>
        \/ node = "ending"
        \/ op.kind = "start" /\ op.cam = c /\ op.step \in {"join", "launch"}

Struct ==
    /\ CoreTyped /\ Allocated /\ OpInv /\ Handles /\ ToldToStop
    /\ StraysStopping /\ NoStrayCallbacks

-----------------------------------------------------------------------------
(* Facts about the records in op.                                          *)

LEMMA NoOpFacts ==
    /\ NoOp.kind = "none" /\ NoOp.step = "none" /\ NoOp.w = None
    /\ NoOp \in Ops /\ None \notin Workers
  BY DEF NoOp, Ops, None, Workers

LEMMA OpFacts ==
    ASSUME op \in Ops, op.kind # "none"
    PROVE  /\ op.kind \in {"start", "stop"} /\ op.cam \in Cameras
           /\ op.spec \in Specs \cup {NoSpec}
           /\ op.step \in {"join", "launch", "record"}
           /\ op.w \in Workers \cup {None}
  BY NoOpFacts DEF Ops

LEMMA NewOp ==
    ASSUME NEW k \in {"start", "stop"}, NEW c \in Cameras,
           NEW s \in Specs \cup {NoSpec},
           NEW t \in {"join", "launch", "record"}, NEW w \in Workers \cup {None},
           NEW o, o = [kind |-> k, cam |-> c, spec |-> s, step |-> t, w |-> w]
    PROVE  /\ o \in Ops /\ o.kind = k /\ o.cam = c /\ o.spec = s
           /\ o.step = t /\ o.w = w
  BY DEF Ops

LEMMA NextStep ==
    ASSUME op \in Ops, op.kind # "none",
           NEW t \in {"join", "launch", "record"},
           NEW o, o = [op EXCEPT !.step = t]
    PROVE  /\ o \in Ops /\ o.kind = op.kind /\ o.cam = op.cam
           /\ o.spec = op.spec /\ o.step = t /\ o.w = op.w
  <1>1. op \in [kind : {"start", "stop"}, cam : Cameras,
                spec : Specs \cup {NoSpec},
                step : {"join", "launch", "record"}, w : Workers \cup {None}]
    BY NoOpFacts DEF Ops
  <1>2. o \in [kind : {"start", "stop"}, cam : Cameras,
               spec : Specs \cup {NoSpec},
               step : {"join", "launch", "record"}, w : Workers \cup {None}]
    BY <1>1
  <1> QED BY <1>1, <1>2 DEF Ops

\* Answer keeps the type of wanted.
LEMMA AnswerTyped ==
    ASSUME NEW c \in Cameras, NEW s \in Specs \cup {NoSpec}, CoreTyped,
           Answer(c, s)
    PROVE  wanted' \in [Cameras -> Specs \cup {NoSpec}]
  BY DEF CoreTyped, Answer

-----------------------------------------------------------------------------
(* Operations keep the structure.                                          *)

LEMMA AlreadyRunningStruct ==
    ASSUME Struct, NEW c \in Cameras, NEW s \in Specs, AlreadyRunning(c, s),
           op = NoOp, node' = node, node # "ending"
    PROVE  Struct'
  <1>1. CoreTyped'
    BY AnswerTyped DEF Struct, CoreTyped, AlreadyRunning, workerVars, tableVars
  <1>2. /\ Allocated' /\ OpInv' /\ Handles' /\ ToldToStop'
        /\ StraysStopping' /\ NoStrayCallbacks'
    BY DEF Struct, Allocated, OpInv, Handles, ToldToStop, StraysStopping,
           NoStrayCallbacks, DiedByItself, Live, AlreadyRunning, workerVars,
           tableVars
  <1> QED BY <1>1, <1>2 DEF Struct

LEMMA ReplaceRunningStruct ==
    ASSUME Struct, NEW c \in Cameras, NEW s \in Specs, op = NoOp,
           ReplaceRunning(c, s), node' = node, node # "ending"
    PROVE  Struct'
  <1> DEFINE v == registered[c]
  <1>1. /\ v \in Workers /\ v <= created /\ created < MaxWorkers
        /\ stopping' = [stopping EXCEPT ![v] = TRUE]
        /\ UNCHANGED <<created, camOf, specOf, thread, held, registered, unsub,
                       subs, file, wanted, diskErrors>>
    BY NoOpFacts DEF ReplaceRunning, Running, Struct, CoreTyped, Allocated,
                     tableVars, fileVars
  <1>2. /\ op' \in Ops /\ op'.kind = "start" /\ op'.cam = c /\ op'.spec = s
        /\ op'.step = "join" /\ op'.w = v
    <2>1. op' = [kind |-> "start", cam |-> c, spec |-> s, step |-> "join",
                 w |-> v]
      BY DEF ReplaceRunning
    <2> QED BY <2>1, <1>1, NewOp
  <1> HIDE DEF v
  <1>3. /\ stopping \in [Workers -> BOOLEAN]
        /\ \A w \in Workers : stopping'[w] = (w = v \/ stopping[w])
    BY <1>1 DEF Struct, CoreTyped
  <1>4. CoreTyped'
    BY <1>1, <1>2, <1>3 DEF Struct, CoreTyped
  <1>5. Allocated'
    BY <1>1, <1>3 DEF Struct, Allocated
  <1>6. OpInv'
    BY <1>1, <1>2, <1>3 DEF OpInv, v
  <1>7. Handles' /\ StraysStopping'
    BY <1>1, <1>3 DEF Struct, Handles, StraysStopping, Live
  <1>8. \A d \in Cameras : registered[d] = v => d = c
    BY <1>1, NoOpFacts DEF Struct, Allocated, v
  <1>9. NoStrayCallbacks'
    <2>1. ASSUME NEW w \in subs
          PROVE  /\ stopping'[w] => op'.step = "join" /\ op'.w = w
                 /\ registered[camOf[w]] = w \/ DiedByItself(w)'
      <3>1. w \in Workers /\ (stopping[w] => FALSE)
        BY <2>1, NoOpFacts DEF Struct, CoreTyped, NoStrayCallbacks
      <3>2. CASE w = v
        <4>1. camOf[w] = c
          BY <3>2, <1>1, NoOpFacts DEF Struct, Allocated, v
        <4> QED BY <3>2, <4>1, <1>2 DEF v
      <3>3. CASE w # v
        BY <3>1, <3>3, <1>1, <1>3, <2>1
           DEF Struct, NoStrayCallbacks, DiedByItself
      <3> QED BY <3>2, <3>3
    <2> QED BY <2>1, <1>1 DEF NoStrayCallbacks
  <1>10. ToldToStop'
    BY <1>1, <1>2, <1>3, <1>8, NoOpFacts DEF Struct, CoreTyped, ToldToStop
  <1> QED BY <1>4, <1>5, <1>6, <1>7, <1>9, <1>10 DEF Struct

LEMMA StartAnewStruct ==
    ASSUME Struct, NEW c \in Cameras, NEW s \in Specs, op = NoOp,
           StartAnew(c, s), node' = node, node # "ending"
    PROVE  Struct'
  <1>1. /\ ~Running(registered[c]) /\ created < MaxWorkers
        /\ UNCHANGED <<created, camOf, specOf, thread, stopping, held,
                       registered, unsub, subs, file, wanted, diskErrors>>
    BY DEF StartAnew, workerVars, tableVars, fileVars
  <1>2. /\ op' \in Ops /\ op'.kind = "start" /\ op'.cam = c /\ op'.spec = s
        /\ op'.step = "launch" /\ op'.w = None
    <2>1. op' = [kind |-> "start", cam |-> c, spec |-> s, step |-> "launch",
                 w |-> None]
      BY DEF StartAnew
    <2> QED BY <2>1, NewOp
  <1>3. CoreTyped'
    BY <1>1, <1>2 DEF Struct, CoreTyped
  <1>4. Allocated' /\ Handles' /\ StraysStopping'
    BY <1>1 DEF Struct, Allocated, Handles, StraysStopping, Live
  <1>5. OpInv'
    <2>1. registered[c] # None =>
             ~Live(registered[c]) \/ stopping[registered[c]]
      BY <1>1 DEF Struct, CoreTyped, Allocated, Running
    <2>2. registered[c] # None => DiedByItself(registered[c])
      <3> SUFFICES ASSUME registered[c] # None
                   PROVE  DiedByItself(registered[c])
        OBVIOUS
      <3>1. registered[c] \in Workers /\ registered[c] <= created
        BY DEF Struct, CoreTyped, Allocated
      <3>2. ~stopping[registered[c]]
        BY NoOpFacts DEF Struct, ToldToStop
      <3>3. held[registered[c]] /\ thread[registered[c]] # "none"
        BY <3>1, <3>2 DEF Struct, Allocated
      <3> QED BY <1>1, <3>1, <3>2, <3>3
                 DEF Running, Live, DiedByItself, Struct, CoreTyped
    <2> QED BY <1>1, <1>2, <2>1, <2>2 DEF OpInv, Live, DiedByItself
  <1>6. NoStrayCallbacks'
    BY <1>1, <1>2, NoOpFacts DEF Struct, NoStrayCallbacks, DiedByItself
  <1>7. ToldToStop'
    BY <1>1, NoOpFacts DEF Struct, ToldToStop
  <1> QED BY <1>3, <1>4, <1>5, <1>6, <1>7 DEF Struct

LEMMA StartCameraStruct ==
    ASSUME Struct, NEW c \in Cameras, NEW s \in Specs, StartCamera(c, s),
           node' = node, node # "ending"
    PROVE  Struct'
  BY AlreadyRunningStruct, ReplaceRunningStruct, StartAnewStruct
     DEF StartCamera

LEMMA JoinReplacedStruct == ASSUME Struct, JoinReplaced PROVE Struct'
  <1>1. /\ op \in Ops /\ op.kind = "start" /\ op.step = "join"
        /\ op.cam \in Cameras /\ op.spec \in Specs /\ op.w \in Workers
        /\ op.w <= created /\ stopping[op.w] /\ registered[op.cam] = op.w
        /\ created < MaxWorkers
    BY DEF JoinReplaced, Struct, CoreTyped, OpInv
  <1>2. /\ op' \in Ops /\ op'.kind = "start" /\ op'.cam = op.cam
        /\ op'.spec = op.spec /\ op'.step = "launch" /\ op'.w = op.w
    BY <1>1, NextStep DEF JoinReplaced
  <1>3. /\ held' = [held EXCEPT ![op.w] = FALSE]
        /\ subs' = subs \ {unsub[op.cam]}
        /\ unsub' = [unsub EXCEPT ![op.cam] = None]
        /\ UNCHANGED <<created, camOf, specOf, thread, stopping, registered,
                       file, wanted, diskErrors>>
    BY DEF JoinReplaced, fileVars
  <1>4. CoreTyped'
    BY <1>1, <1>2, <1>3 DEF Struct, CoreTyped
  <1>5. Allocated'
    BY <1>1, <1>3 DEF Struct, CoreTyped, Allocated
  <1>6. op.w \notin subs'
    BY <1>1, <1>3 DEF Struct, Handles
  <1>7. OpInv'
    BY <1>1, <1>2, <1>3, <1>6 DEF OpInv
  <1>8. Handles'
    BY <1>1, <1>3, <1>6 DEF Struct, CoreTyped, Handles
  <1>9. StraysStopping'
    BY <1>3 DEF Struct, StraysStopping, Live
  <1>11. node' = node
    BY DEF JoinReplaced, lifeVars
  <1>10. NoStrayCallbacks'
    BY <1>3, <1>6, <1>11 DEF Struct, NoStrayCallbacks, DiedByItself
  <1>12. ToldToStop'
    BY <1>1, <1>2, <1>3, <1>11 DEF Struct, ToldToStop
  <1> QED BY <1>4, <1>5, <1>7, <1>8, <1>9, <1>10, <1>12 DEF Struct

LEMMA LaunchStruct == ASSUME Struct, Launch PROVE Struct'
  <1> DEFINE w == created + 1
  <1>1. op.kind = "start"
    BY NoOpFacts, OpFacts DEF Launch, Struct, CoreTyped, OpInv
  <1>2. /\ op \in Ops /\ op.step = "launch"
        /\ op.cam \in Cameras /\ op.spec \in Specs
        /\ created < MaxWorkers /\ created \in Nat
    BY <1>1, ManagerAssumption
       DEF Launch, Struct, CoreTyped, OpInv, ManagerAssumption
  <1>3. /\ op' \in Ops /\ op'.kind = "start" /\ op'.cam = op.cam
        /\ op'.spec = op.spec /\ op'.step = "record" /\ op'.w = op.w
    BY <1>1, <1>2, NextStep DEF Launch
  <1>4. w \in Workers /\ ~(w <= created) /\ w # None
    BY <1>2, ManagerAssumption DEF Workers, None, ManagerAssumption
  <1>5. /\ created' = w
        /\ camOf' = [camOf EXCEPT ![w] = op.cam]
        /\ specOf' = [specOf EXCEPT ![w] = op.spec]
        /\ thread' = [thread EXCEPT ![w] = "init"]
        /\ held' = [held EXCEPT ![w] = TRUE]
        /\ registered' = [registered EXCEPT ![op.cam] = w]
        /\ subs' = subs \cup {w}
        /\ unsub' = [unsub EXCEPT ![op.cam] = w]
        /\ UNCHANGED <<stopping, file, wanted, diskErrors>>
    BY DEF Launch, fileVars
  <1>6. /\ created' \in 0..MaxWorkers
        /\ \A v \in Workers : v <= created' <=> v <= created \/ v = w
    BY <1>2, <1>5, ManagerAssumption DEF Workers, ManagerAssumption
  <1>7. /\ thread[w] = "none" /\ ~stopping[w] /\ w \notin subs
        /\ \A c \in Cameras : registered[c] # w
    BY <1>4 DEF Struct, Allocated
  <1> HIDE DEF w
  <1>8. CoreTyped'
    BY <1>2, <1>3, <1>4, <1>5, <1>6 DEF Struct, CoreTyped
  <1>9. Allocated'
    <2>1. /\ camOf'[w] = op.cam /\ held'[w] = TRUE /\ w <= created'
          /\ thread'[w] = "init"
          /\ \A v \in Workers \ {w} :
                /\ camOf'[v] = camOf[v] /\ held'[v] = held[v]
                /\ thread'[v] = thread[v] /\ (v \in subs' <=> v \in subs)
                /\ v <= created' <=> v <= created
      BY <1>4, <1>5, <1>6 DEF Struct, CoreTyped
    <2>2. ASSUME NEW v \in Workers
          PROVE  IF v <= created'
                 THEN /\ camOf'[v] \in Cameras /\ thread'[v] # "none"
                      /\ ~held'[v] => stopping'[v]
                 ELSE thread'[v] = "none" /\ ~stopping'[v] /\ v \notin subs'
      <3>1. CASE v = w
        BY <3>1, <2>1, <1>2
      <3>2. CASE v # w
        BY <3>2, <2>1, <1>5 DEF Struct, Allocated
      <3> QED BY <3>1, <3>2
    <2>3. ASSUME NEW c \in Cameras, registered'[c] # None
          PROVE  registered'[c] <= created' /\ camOf'[registered'[c]] = c
      <3>1. CASE c = op.cam
        BY <3>1, <2>1, <1>2, <1>5 DEF Struct, CoreTyped
      <3>2. CASE c # op.cam
        <4>1. /\ registered'[c] = registered[c] /\ registered[c] # w
              /\ registered[c] \in Workers
          BY <2>3, <3>2, <1>5, <1>7 DEF Struct, CoreTyped
        <4>2. registered[c] <= created /\ camOf[registered[c]] = c
          BY <2>3, <4>1 DEF Struct, Allocated
        <4> QED BY <4>1, <4>2, <2>1
      <3> QED BY <3>1, <3>2
    <2> QED BY <2>2, <2>3 DEF Allocated
  <1>10. OpInv'
    BY <1>2, <1>3 DEF OpInv
  <1>11. Handles'
    BY <1>2, <1>4, <1>5, <1>7 DEF Struct, CoreTyped, Handles
  <1>12. StraysStopping'
    <2>1. ASSUME NEW v \in Workers, Live(v)', registered'[camOf'[v]] # v
          PROVE  stopping'[v]
      <3>1. v # w
        BY <2>1, <1>2, <1>4, <1>5 DEF Struct, CoreTyped
      <3>2. /\ Live(v) /\ camOf'[v] = camOf[v]
            /\ v <= created /\ camOf[v] \in Cameras
        BY <2>1, <3>1, <1>5 DEF Live, Struct, CoreTyped, Allocated
      <3>3. CASE registered[camOf[v]] = v
        <4>1. camOf[v] = op.cam
          BY <2>1, <3>2, <3>3, <1>5 DEF Struct, CoreTyped
        <4>2. registered[op.cam] # None
          BY <3>3, <4>1, NoOpFacts
        <4> QED BY <3>2, <3>3, <4>1, <4>2, <1>2, <1>5 DEF Struct, OpInv
      <3>4. CASE registered[camOf[v]] # v
        BY <3>2, <3>4, <1>5 DEF Struct, StraysStopping
      <3> QED BY <3>3, <3>4
    <2> QED BY <2>1 DEF StraysStopping
  <1>13. node' = node
    BY DEF Launch, lifeVars
  <1>14. NoStrayCallbacks'
    <2>1. ASSUME NEW v \in subs'
          PROVE  /\ stopping'[v] => node = "ending"
                 /\ registered'[camOf'[v]] = v \/ DiedByItself(v)'
      <3>1. CASE v = w
        BY <3>1, <1>2, <1>4, <1>5, <1>7 DEF Struct, CoreTyped
      <3>2. CASE v # w
        <4>1. /\ v \in subs /\ v \in Workers /\ camOf'[v] = camOf[v]
              /\ thread'[v] = thread[v] /\ stopping'[v] = stopping[v]
          BY <2>1, <3>2, <1>5 DEF Struct, CoreTyped
        <4>2. /\ stopping[v] => node = "ending"
              /\ registered[camOf[v]] = v \/ DiedByItself(v)
          BY <4>1, <1>2 DEF Struct, NoStrayCallbacks
        <4>3. v <= created /\ camOf[v] \in Cameras
          BY <4>1 DEF Struct, Allocated
        <4>4. CASE camOf[v] = op.cam /\ registered[op.cam] = v
          BY <4>1, <4>2, <4>4, <1>2, NoOpFacts DEF Struct, OpInv, DiedByItself
        <4>5. CASE camOf[v] # op.cam \/ registered[op.cam] # v
          BY <4>1, <4>2, <4>3, <4>5, <1>5 DEF Struct, CoreTyped, DiedByItself
        <4> QED BY <4>4, <4>5
      <3> QED BY <3>1, <3>2
    <2> QED BY <2>1, <1>13 DEF NoStrayCallbacks
  <1>15. ToldToStop'
    <2>1. ASSUME NEW c \in Cameras, registered'[c] # None,
                 stopping'[registered'[c]]
          PROVE  node = "ending"
      <3>1. c # op.cam
        BY <2>1, <1>2, <1>5, <1>7 DEF Struct, CoreTyped
      <3>2. registered'[c] = registered[c] /\ stopping' = stopping
        BY <3>1, <1>5 DEF Struct, CoreTyped
      <3> QED BY <2>1, <3>1, <3>2 DEF Struct, ToldToStop
    <2> QED BY <2>1, <1>13 DEF ToldToStop
  <1> QED BY <1>8, <1>9, <1>10, <1>11, <1>12, <1>14, <1>15 DEF Struct

\* The operation returns, having changed at most the file.
LEMMA ReturnStruct ==
    ASSUME Struct, op' = NoOp, op.step = "record" \/ op.kind = "stop",
           node' = node,
           held' = held \/ (/\ op.kind = "stop"
                            /\ held' = [held EXCEPT ![op.w] = FALSE]),
           file' \in [Cameras -> Specs \cup {NoSpec}],
           wanted' \in [Cameras -> Specs \cup {NoSpec}],
           diskErrors' \in 0..MaxDiskErrors,
           UNCHANGED <<created, camOf, specOf, thread, stopping, tableVars>>
    PROVE  Struct'
  <1>1. op.kind = "stop" => op.w \in Workers /\ stopping[op.w]
    BY DEF Struct, OpInv
  <1>2. CoreTyped'
    BY <1>1, NoOpFacts DEF Struct, CoreTyped, tableVars
  <1>3. Allocated'
    BY <1>1 DEF Struct, CoreTyped, Allocated, tableVars
  <1>4. OpInv'
    BY NoOpFacts DEF OpInv
  <1>5. Handles' /\ StraysStopping'
    BY DEF Struct, Handles, StraysStopping, Live, tableVars
  <1>6. NoStrayCallbacks'
    BY DEF Struct, NoStrayCallbacks, DiedByItself, OpInv, tableVars
  <1>7. ToldToStop'
    BY DEF Struct, ToldToStop, tableVars
  <1> QED BY <1>2, <1>3, <1>4, <1>5, <1>6, <1>7 DEF Struct

LEMMA RecordStruct ==
    ASSUME Struct, RecordStarted \/ RecordStartedFails
    PROVE  Struct'
  <1>1. /\ op.step = "record" /\ op.cam \in Cameras
        /\ op.spec \in Specs \cup {NoSpec}
    BY NoOpFacts, OpFacts
       DEF RecordStarted, RecordStartedFails, Struct, CoreTyped, OpInv
  <1>2. wanted' \in [Cameras -> Specs \cup {NoSpec}]
    BY <1>1, AnswerTyped DEF RecordStarted, RecordStartedFails, Struct
  <1>3. file' \in [Cameras -> Specs \cup {NoSpec}]
    BY <1>1 DEF RecordStarted, RecordStartedFails, Struct, CoreTyped
  <1>4. diskErrors' \in 0..MaxDiskErrors
    BY ManagerAssumption
       DEF RecordStarted, RecordStartedFails, Struct, CoreTyped,
           ManagerAssumption
  <1>5. /\ op' = NoOp /\ held' = held /\ node' = node
        /\ UNCHANGED <<created, camOf, specOf, thread, stopping, tableVars>>
    BY DEF RecordStarted, RecordStartedFails, workerVars, lifeVars
  <1> QED BY <1>1, <1>2, <1>3, <1>4, <1>5, ReturnStruct

LEMMA JoinStoppedStruct == ASSUME Struct, JoinStopped PROVE Struct'
  <1>1. /\ op' = NoOp /\ op.kind = "stop" /\ node' = node
        /\ held' = [held EXCEPT ![op.w] = FALSE]
        /\ UNCHANGED <<created, camOf, specOf, thread, stopping, tableVars,
                       file, wanted, diskErrors>>
    BY DEF JoinStopped, fileVars, lifeVars
  <1>2. /\ file' \in [Cameras -> Specs \cup {NoSpec}]
        /\ wanted' \in [Cameras -> Specs \cup {NoSpec}]
        /\ diskErrors' \in 0..MaxDiskErrors
    BY <1>1 DEF Struct, CoreTyped
  <1> QED BY <1>1, <1>2, ReturnStruct

\* Forget with what stop_camera leaves alone.
LEMMA ForgetStruct ==
    ASSUME Struct, NEW c \in Cameras, op = NoOp, Forget(c),
           file' \in [Cameras -> Specs \cup {NoSpec}],
           diskErrors' \in 0..MaxDiskErrors,
           UNCHANGED <<node, created, camOf, specOf, thread, held>>
    PROVE  Struct'
  <1> DEFINE v == registered[c]
  <1>1. /\ registered' = [registered EXCEPT ![c] = None]
        /\ subs' = subs \ {unsub[c]}
        /\ unsub' = [unsub EXCEPT ![c] = None]
        /\ v \in Workers \cup {None}
    BY DEF Forget, Struct, CoreTyped
  <1>2. wanted' \in [Cameras -> Specs \cup {NoSpec}]
    BY AnswerTyped DEF Forget, Struct
  <1>3. IF v = None
        THEN op' = NoOp /\ stopping' = stopping
        ELSE /\ stopping' = [stopping EXCEPT ![v] = TRUE]
             /\ op' \in Ops /\ op'.kind = "stop" /\ op'.cam = c
             /\ op'.spec = NoSpec /\ op'.step = "join" /\ op'.w = v
    <2>1. CASE v = None
      BY <2>1 DEF Forget
    <2>2. CASE v # None
      <3>1. op' = [kind |-> "stop", cam |-> c, spec |-> NoSpec,
                   step |-> "join", w |-> v]
        BY <2>2 DEF Forget
      <3> QED BY <2>2, <3>1, <1>1, NewOp DEF Forget
    <2> QED BY <2>1, <2>2
  <1>4. v # None => v \in Workers /\ v <= created /\ camOf[v] = c
    BY <1>1 DEF Struct, Allocated
  <1>5. v \notin subs'
    BY <1>1 DEF Struct, Handles
  <1> HIDE DEF v
  <1>6. /\ stopping' \in [Workers -> BOOLEAN]
        /\ \A w \in Workers :
              stopping'[w] = (stopping[w] \/ (v # None /\ w = v))
    BY <1>3 DEF Struct, CoreTyped
  <1>7. CoreTyped'
    BY <1>1, <1>2, <1>3, <1>6, NoOpFacts DEF Struct, CoreTyped
  <1>8. Allocated'
    <2>1. \A d \in Cameras : registered'[d] # None =>
             registered'[d] = registered[d]
      BY <1>1 DEF Struct, CoreTyped
    <2> QED BY <2>1, <1>1, <1>4, <1>6 DEF Struct, Allocated
  <1>9. OpInv'
    BY <1>3, <1>4, <1>5, <1>6, NoOpFacts DEF OpInv
  <1>10. Handles'
    BY <1>1, NoOpFacts DEF Struct, CoreTyped, Handles
  <1>11. StraysStopping'
    <2>1. ASSUME NEW w \in Workers, Live(w), registered'[camOf[w]] # w
          PROVE  stopping'[w]
      <3>1. camOf[w] \in Cameras
        BY <2>1 DEF Live, Struct, Allocated
      <3>2. CASE registered[camOf[w]] = w
        <4>1. camOf[w] = c
          BY <2>1, <3>1, <3>2, <1>1 DEF Struct, CoreTyped
        <4> QED BY <3>2, <4>1, <1>6, NoOpFacts DEF v
      <3>3. CASE registered[camOf[w]] # w
        BY <2>1, <3>3, <1>6 DEF Struct, StraysStopping
      <3> QED BY <3>2, <3>3
    <2> QED BY <2>1 DEF StraysStopping, Live
  <1>12. NoStrayCallbacks'
    <2>1. ASSUME NEW w \in subs'
          PROVE  /\ stopping'[w] => node = "ending"
                 /\ registered'[camOf[w]] = w \/ DiedByItself(w)'
      <3>1. w \in subs /\ w \in Workers /\ w # v /\ stopping'[w] = stopping[w]
        BY <2>1, <1>1, <1>5, <1>6 DEF Struct, CoreTyped
      <3>2. /\ stopping[w] => node = "ending"
            /\ registered[camOf[w]] = w \/ DiedByItself(w)
        BY <3>1, NoOpFacts DEF Struct, NoStrayCallbacks
      <3>3. CASE camOf[w] = c
        BY <3>1, <3>2, <3>3 DEF DiedByItself, v
      <3>4. CASE camOf[w] # c
        <4>1. camOf[w] \in Cameras
          BY <3>1 DEF Struct, Allocated
        <4> QED BY <3>1, <3>2, <3>4, <4>1, <1>1
                   DEF DiedByItself, Struct, CoreTyped
      <3> QED BY <3>3, <3>4
    <2> QED BY <2>1 DEF NoStrayCallbacks
  <1>13. ToldToStop'
    <2>1. ASSUME NEW d \in Cameras, registered'[d] # None,
                 stopping'[registered'[d]]
          PROVE  node = "ending"
      <3>1. d # c /\ registered'[d] = registered[d] /\ registered[d] \in Workers
        BY <2>1, <1>1 DEF Struct, CoreTyped
      <3>2. registered[d] # v
        BY <2>1, <3>1, <1>4 DEF Struct, Allocated
      <3> QED BY <2>1, <3>1, <3>2, <1>6, NoOpFacts DEF Struct, ToldToStop
    <2> QED BY <2>1 DEF ToldToStop
  <1> QED BY <1>7, <1>8, <1>9, <1>10, <1>11, <1>12, <1>13 DEF Struct

LEMMA StopCameraStruct ==
    ASSUME Struct, NEW c \in Cameras, StopCamera(c) \/ StopCameraUnrecorded(c),
           node' = node
    PROVE  Struct'
  <1>1. file' \in [Cameras -> Specs \cup {NoSpec}]
    BY DEF StopCamera, StopCameraUnrecorded, Struct, CoreTyped
  <1>2. diskErrors' \in 0..MaxDiskErrors
    BY ManagerAssumption
       DEF StopCamera, StopCameraUnrecorded, Struct, CoreTyped,
           ManagerAssumption
  <1> QED BY <1>1, <1>2, ForgetStruct DEF StopCamera, StopCameraUnrecorded

\* A step of a worker's thread, which exists before and after.
LEMMA StepStruct ==
    ASSUME Struct, NEW w \in Workers, NEW from \in {"init", "loop", "call"},
           NEW to \in {"loop", "call", "dead"}, Step(w, from, to)
    PROVE  Struct'
  <1>1. /\ thread[w] = from /\ thread' = [thread EXCEPT ![w] = to]
        /\ UNCHANGED <<node, op, created, camOf, specOf, stopping, held, registered,
                       unsub, subs, file, wanted, diskErrors>>
    BY DEF Step, lifeVars, tableVars, fileVars
  <1>2. w <= created /\ Live(w)
    BY <1>1 DEF Struct, Allocated, Live
  <1>3. \A v \in Workers : Live(v)' => Live(v)
    BY <1>1, <1>2 DEF Struct, CoreTyped, Live
  <1>4. CoreTyped'
    BY <1>1 DEF Struct, CoreTyped
  <1>5. Allocated'
    BY <1>1, <1>2 DEF Struct, CoreTyped, Allocated
  <1>6. Handles' /\ ToldToStop'
    BY <1>1 DEF Struct, Handles, ToldToStop
  <1>9. \A v \in Workers : DiedByItself(v) => DiedByItself(v)'
    BY <1>1 DEF Struct, CoreTyped, DiedByItself
  <1>10. NoStrayCallbacks'
    BY <1>1, <1>9 DEF Struct, CoreTyped, NoStrayCallbacks
  <1>7. StraysStopping'
    BY <1>1, <1>3 DEF Struct, StraysStopping
  <1>8. OpInv'
    <2>1. op.step = "launch" => registered[op.cam] \in Workers \cup {None}
      BY NoOpFacts DEF Struct, OpInv, CoreTyped
    <2> QED BY <2>1, <1>1, <1>3, <1>9 DEF Struct, OpInv
  <1> QED BY <1>4, <1>5, <1>6, <1>7, <1>8, <1>10 DEF Struct

LEMMA ThreadStruct ==
    ASSUME Struct, NEW w \in Workers, ThreadStep(w) \/ DieByItself(w)
    PROVE  Struct'
  BY StepStruct
     DEF ThreadStep, InitDone, LoopHead, CallDone, DieByItself

\* A fresh process.
LEMMA FreshStruct ==
    ASSUME op = NoOp, created = 0,
           camOf = [w \in Workers |-> None],
           specOf = [w \in Workers |-> NoSpec],
           thread = [w \in Workers |-> "none"],
           stopping = [w \in Workers |-> FALSE],
           held = [w \in Workers |-> FALSE],
           registered = [c \in Cameras |-> None],
           unsub = [c \in Cameras |-> None], subs = {},
           file \in [Cameras -> Specs \cup {NoSpec}],
           wanted \in [Cameras -> Specs \cup {NoSpec}],
           diskErrors \in 0..MaxDiskErrors
    PROVE  Struct
  <1>1. CoreTyped
    BY NoOpFacts, ManagerAssumption DEF CoreTyped, ManagerAssumption
  <1>2. Allocated
    BY DEF Allocated, Workers
  <1>3. OpInv
    BY NoOpFacts DEF OpInv
  <1>4. Handles /\ ToldToStop /\ StraysStopping /\ NoStrayCallbacks
    BY DEF Handles, ToldToStop, StraysStopping, NoStrayCallbacks, Live
  <1> QED BY <1>1, <1>2, <1>3, <1>4 DEF Struct

LEMMA LoseMemoryStruct ==
    ASSUME Struct, LoseMemory, UNCHANGED fileVars
    PROVE  Struct'
  <1>1. CoreTyped'
    BY NoOpFacts, ManagerAssumption
       DEF Struct, CoreTyped, LoseMemory, fileVars, ManagerAssumption
  <1>2. Allocated'
    BY DEF Allocated, Workers, LoseMemory
  <1>3. OpInv'
    BY NoOpFacts DEF OpInv, LoseMemory
  <1>4. Handles' /\ ToldToStop' /\ StraysStopping' /\ NoStrayCallbacks'
    BY DEF Handles, ToldToStop, StraysStopping, NoStrayCallbacks, Live, LoseMemory
  <1> QED BY <1>1, <1>2, <1>3, <1>4 DEF Struct

\* Steps of the startup and the shutdown that do nothing to a worker.
LEMMA IdleStruct ==
    ASSUME Struct, UNCHANGED <<op, workerVars, tableVars, file, wanted>>,
           diskErrors' \in 0..MaxDiskErrors,
           node' = "ending" \/ node # "ending"
    PROVE  Struct'
  BY DEF Struct, CoreTyped, Allocated, OpInv, Handles, ToldToStop,
         StraysStopping, NoStrayCallbacks, DiedByItself, Live, workerVars,
         tableVars

\* stop_all tells the worker of camera c to stop.
LEMMA StopEachStruct ==
    ASSUME Struct, NEW c \in Cameras, registered[c] # None, op = NoOp,
           node = "ending", node' = "ending",
           stopping' = [stopping EXCEPT ![registered[c]] = TRUE],
           op' = [kind |-> "stop", cam |-> c, spec |-> NoSpec,
                  step |-> "join", w |-> registered[c]],
           UNCHANGED <<created, camOf, specOf, thread, held, tableVars,
                       fileVars>>
    PROVE  Struct'
  <1> DEFINE v == registered[c]
  <1>1. v \in Workers /\ v <= created /\ camOf[v] = c
    BY DEF Struct, CoreTyped, Allocated
  <1>2. /\ op' \in Ops /\ op'.kind = "stop" /\ op'.cam = c
        /\ op'.step = "join" /\ op'.w = v
    BY <1>1, NewOp
  <1>3. \A w \in Workers : stopping'[w] = (w = v \/ stopping[w])
    BY <1>1 DEF Struct, CoreTyped
  <1>4. UNCHANGED <<registered, unsub, subs, file, wanted, diskErrors>>
    BY DEF tableVars, fileVars
  <1>5. stopping' \in [Workers -> BOOLEAN]
    BY <1>1 DEF Struct, CoreTyped
  <1> HIDE DEF v
  <1>6. CoreTyped'
    BY <1>2, <1>4, <1>5 DEF Struct, CoreTyped
  <1>7. Allocated'
    BY <1>1, <1>3, <1>4 DEF Struct, Allocated
  <1>8. OpInv'
    BY <1>1, <1>2, <1>3 DEF OpInv
  <1>9. Handles' /\ StraysStopping' /\ ToldToStop'
    BY <1>3, <1>4 DEF Struct, Handles, StraysStopping, Live, ToldToStop
  <1>10. NoStrayCallbacks'
    <2>1. ASSUME NEW w \in subs
          PROVE  registered[camOf[w]] = w \/ DiedByItself(w)'
      <3>1. w \in Workers
        BY DEF Struct, CoreTyped
      <3> QED BY <3>1, <1>1, <1>3 DEF Struct, NoStrayCallbacks, DiedByItself, v
    <2> QED BY <2>1, <1>4 DEF NoStrayCallbacks
  <1> QED BY <1>6, <1>7, <1>8, <1>9, <1>10 DEF Struct

\* stop_all drops the callbacks: those that stay are of workers that died by
\* themselves and were replaced.
LEMMA ForgetAllStruct ==
    ASSUME Struct, ForgetAll,
           \A c \in Cameras : registered[c] # None => stopping[registered[c]]
    PROVE  Struct'
  <1>1. /\ op = NoOp /\ op' = NoOp
        /\ registered' = [c \in Cameras |-> None]
        /\ subs' = subs \ {unsub[c] : c \in Cameras}
        /\ unsub' = [c \in Cameras |-> None]
        /\ UNCHANGED <<created, camOf, specOf, thread, stopping, held, file,
                       wanted, diskErrors>>
    BY DEF ForgetAll, workerVars, fileVars
  <1>2. CoreTyped' /\ Allocated' /\ OpInv'
    BY <1>1, NoOpFacts DEF Struct, CoreTyped, Allocated, OpInv
  <1>3. Handles' /\ ToldToStop'
    BY <1>1, NoOpFacts DEF Struct, CoreTyped, Handles, ToldToStop
  <1>4. ASSUME NEW w \in subs' PROVE w \in subs /\ DiedByItself(w)
    <2>1. w \in subs /\ w <= created /\ camOf[w] \in Cameras
      BY <1>1 DEF Struct, CoreTyped, Allocated
    <2>2. registered[camOf[w]] # w
      BY <2>1, <1>1 DEF Struct, Handles
    <2> QED BY <2>1, <2>2 DEF Struct, NoStrayCallbacks
  <1>5. NoStrayCallbacks'
    BY <1>1, <1>4 DEF NoStrayCallbacks, DiedByItself
  <1>6. StraysStopping'
    <2>1. ASSUME NEW w \in Workers, Live(w) PROVE stopping[w]
      <3>1. w # None /\ camOf[w] \in Cameras
        BY <2>1, NoOpFacts DEF Live, Struct, Allocated
      <3> QED BY <2>1, <3>1 DEF Struct, StraysStopping
    <2> QED BY <2>1, <1>1 DEF StraysStopping, Live
  <1> QED BY <1>2, <1>3, <1>5, <1>6 DEF Struct

-----------------------------------------------------------------------------
(* The invariant of the whole.                                             *)

Base == Struct /\ LifeTyped /\ StartupInv /\ ShutdownInv

LEMMA BaseInit == Init => Base
  <1> SUFFICES ASSUME Init PROVE Base
    OBVIOUS
  <1>1. Struct
    BY FreshStruct, ManagerAssumption DEF Init, ManagerAssumption
  <1>2. LifeTyped /\ StartupInv /\ ShutdownInv
    BY ManagerAssumption
       DEF Init, LifeTyped, StartupInv, ShutdownInv, ManagerAssumption
  <1> QED BY <1>1, <1>2 DEF Base

LEMMA StartupBase == ASSUME Base, Startup PROVE Base'
  <1> node \in {"down", "auto", "replay"} /\ ShutdownInv'
    BY DEF Startup, Boot, AutoStartNext, LoadSpecs, LoadSpecsFails, ReplayNext,
           Serve, ShutdownInv
  <1>1. CASE Boot
    <2>1. Struct'
      BY <1>1, IdleStruct DEF Boot, Base, Struct, CoreTyped, fileVars
    <2>2. LifeTyped' /\ StartupInv'
      BY <1>1, ManagerAssumption
         DEF Boot, Base, LifeTyped, StartupInv, ManagerAssumption
    <2> QED BY <2>1, <2>2 DEF Base
  <1>2. CASE AutoStartNext
    <2>1. PICK c \in todo : StartCamera(c, AutoSpec) /\ todo' = todo \ {c}
      BY <1>2 DEF AutoStartNext
    <2>2. c \in Cameras /\ AutoSpec \in Specs
      BY <1>2, <2>1, ManagerAssumption
         DEF AutoStartNext, Base, LifeTyped, StartupInv, ManagerAssumption
    <2>3. Struct'
      BY <1>2, <2>1, <2>2, StartCameraStruct DEF Base, AutoStartNext
    <2>4. LifeTyped' /\ StartupInv'
      BY <1>2, <2>1 DEF AutoStartNext, Base, LifeTyped, StartupInv
    <2> QED BY <2>3, <2>4 DEF Base
  <1>3. CASE LoadSpecs
    <2>1. Struct'
      BY <1>3, IdleStruct DEF LoadSpecs, Base, Struct, CoreTyped, fileVars
    <2>2. LifeTyped' /\ StartupInv'
      BY <1>3 DEF LoadSpecs, Base, Struct, CoreTyped, LifeTyped, StartupInv
    <2> QED BY <2>1, <2>2 DEF Base
  <1>4. CASE LoadSpecsFails
    <2>1. diskErrors' \in 0..MaxDiskErrors
      BY <1>4, ManagerAssumption
         DEF LoadSpecsFails, Base, Struct, CoreTyped, ManagerAssumption
    <2>2. Struct'
      BY <1>4, <2>1, IdleStruct DEF LoadSpecsFails, Base
    <2>3. LifeTyped' /\ StartupInv'
      BY <1>4 DEF LoadSpecsFails, Base, LifeTyped, StartupInv
    <2> QED BY <2>2, <2>3 DEF Base
  <1>5. CASE ReplayNext
    <2>1. PICK c \in todo : StartCamera(c, loaded[c]) /\ todo' = todo \ {c}
      BY <1>5 DEF ReplayNext
    <2>2. c \in Cameras /\ loaded[c] \in Specs
      BY <1>5, <2>1 DEF ReplayNext, Base, LifeTyped, StartupInv
    <2>3. Struct'
      BY <1>5, <2>1, <2>2, StartCameraStruct DEF Base, ReplayNext
    <2>4. LifeTyped' /\ StartupInv'
      BY <1>5, <2>1 DEF ReplayNext, Base, LifeTyped, StartupInv
    <2> QED BY <2>3, <2>4 DEF Base
  <1>6. CASE Serve
    <2>1. Struct'
      BY <1>6, IdleStruct DEF Serve, Base, Struct, CoreTyped, fileVars
    <2>2. LifeTyped' /\ StartupInv'
      BY <1>6 DEF Serve, Base, LifeTyped, StartupInv
    <2> QED BY <2>1, <2>2 DEF Base
  <1> QED BY <1>1, <1>2, <1>3, <1>4, <1>5, <1>6 DEF Startup

LEMMA ShutdownBase ==
    ASSUME Base, StopAll \/ StopEach \/ ForgetAll
    PROVE  Base'
  <1>1. CASE StopAll
    <2>1. Struct'
      BY <1>1, IdleStruct DEF StopAll, Base, Struct, CoreTyped, fileVars
    <2>2. LifeTyped' /\ StartupInv'
      BY <1>1 DEF StopAll, Base, LifeTyped, StartupInv
    <2>3. ShutdownInv'
      BY <1>1, NoOpFacts DEF StopAll, ShutdownInv, tableVars
    <2> QED BY <2>1, <2>2, <2>3 DEF Base
  <1>2. CASE StopEach
    <2>1. PICK c \in todo :
             /\ todo' = todo \ {c}
             /\ stopping' = [stopping EXCEPT ![registered[c]] = TRUE]
             /\ op' = [kind |-> "stop", cam |-> c, spec |-> NoSpec,
                       step |-> "join", w |-> registered[c]]
      BY <1>2 DEF StopEach
    <2>2. /\ c \in Cameras /\ registered[c] \in Workers /\ registered[c] # None
          /\ op = NoOp /\ node = "ending" /\ node' = "ending"
          /\ UNCHANGED <<loaded, restarts, registered>>
      BY <1>2, <2>1 DEF StopEach, Base, LifeTyped, ShutdownInv, Struct,
                        CoreTyped, tableVars
    <2>3. Struct'
      BY <1>2, <2>1, <2>2, StopEachStruct DEF StopEach, Base
    <2>4. LifeTyped' /\ StartupInv'
      BY <2>1, <2>2 DEF Base, LifeTyped, StartupInv
    <2>5. op'.kind = "stop"
      BY <2>1
    <2>6. \A w \in Workers : stopping[w] \/ w = registered[c] => stopping'[w]
      BY <2>1, <2>2 DEF Base, Struct, CoreTyped
    <2>7. \A d \in Cameras : registered[d] # None => registered[d] \in Workers
      BY DEF Base, Struct, CoreTyped
    <2>8. ShutdownInv'
      BY <2>1, <2>2, <2>5, <2>6, <2>7 DEF Base, ShutdownInv
    <2> QED BY <2>3, <2>4, <2>8 DEF Base
  <1>3. CASE ForgetAll
    <2>1. Struct'
      BY <1>3, ForgetAllStruct DEF ForgetAll, Base, ShutdownInv
    <2>2. LifeTyped' /\ StartupInv'
      BY <1>3 DEF ForgetAll, Base, LifeTyped, StartupInv
    <2>3. ShutdownInv'
      BY <1>3, NoOpFacts DEF ForgetAll, ShutdownInv
    <2> QED BY <2>1, <2>2, <2>3 DEF Base
  <1> QED BY <1>1, <1>2, <1>3

LEMMA BaseStep == Base /\ [Next]_vars => Base'
  <1> SUFFICES ASSUME Base, [Next]_vars PROVE Base'
    OBVIOUS
  <1>1. CASE Request
    <2>1. Struct'
      BY <1>1, StartCameraStruct, StopCameraStruct DEF Request, Base, lifeVars
    <2> QED BY <1>1, <2>1
               DEF Request, Base, LifeTyped, StartupInv, ShutdownInv, lifeVars
  <1>2. CASE Operation
    <2>1. Struct'
      BY <1>2, JoinReplacedStruct, LaunchStruct, RecordStruct,
         JoinStoppedStruct DEF Operation, Base
    <2>2. UNCHANGED lifeVars
      BY <1>2 DEF Operation, JoinReplaced, Launch, RecordStarted,
                  RecordStartedFails, JoinStopped
    <2>3. ShutdownInv'
      <3>1. op.kind = "start" => node \notin {"ending", "ended"}
        BY DEF Base, ShutdownInv
      <3>2. CASE JoinStopped
        BY <2>2, <3>2, NoOpFacts
           DEF JoinStopped, Base, ShutdownInv, tableVars, lifeVars
      <3>3. op.kind = "start" \/ JoinStopped
        BY <1>2, NoOpFacts, OpFacts
           DEF Operation, JoinReplaced, Launch, RecordStarted,
               RecordStartedFails, Base, Struct, CoreTyped, OpInv
      <3> QED BY <2>2, <3>1, <3>2, <3>3 DEF ShutdownInv, lifeVars
    <2> QED BY <2>1, <2>2, <2>3 DEF Base, LifeTyped, StartupInv, lifeVars
  <1>3. CASE Startup
    BY <1>3, StartupBase
  <1>4. CASE \E w \in Workers : ThreadStep(w) \/ DieByItself(w)
    <2>1. Struct'
      BY <1>4, ThreadStruct DEF Base
    <2>2. UNCHANGED lifeVars
      BY <1>4 DEF ThreadStep, InitDone, LoopHead, CallDone, DieByItself, Step
    <2>3. UNCHANGED <<op, registered, stopping>>
      BY <1>4 DEF ThreadStep, InitDone, LoopHead, CallDone, DieByItself, Step,
                  tableVars
    <2> QED BY <2>1, <2>2, <2>3
               DEF Base, LifeTyped, StartupInv, ShutdownInv, lifeVars
  <1>5. CASE Die
    <2>1. Struct'
      BY <1>5, LoseMemoryStruct DEF Die, Base
    <2>2. LifeTyped' /\ StartupInv' /\ ShutdownInv'
      BY <1>5, ManagerAssumption
         DEF Die, LoseMemory, Base, LifeTyped, StartupInv, ShutdownInv,
             ManagerAssumption
    <2> QED BY <2>1, <2>2 DEF Base
  <1>6. CASE UNCHANGED vars
    <2>1. Struct'
      BY <1>6, IdleStruct DEF vars, lifeVars, fileVars, Base, Struct, CoreTyped
    <2> QED BY <1>6, <2>1
               DEF vars, lifeVars, workerVars, tableVars, Base, LifeTyped,
                   StartupInv, ShutdownInv
  <1>7. CASE StopAll \/ StopEach \/ ForgetAll
    BY <1>7, ShutdownBase
  <1> QED BY <1>1, <1>2, <1>3, <1>4, <1>5, <1>6, <1>7
             DEF Next, Crash, Shutdown, Exit

LEMMA BaseInvariant == SafetySpec => []Base
  BY BaseInit, BaseStep, PTL DEF SafetySpec

\* The types of the manager's variables, for all constants.
THEOREM ManagerTypeCorrect == SafetySpec => []TypeOK
  <1>1. Base => TypeOK
    BY DEF Base, Struct, CoreTyped, LifeTyped, TypeOK
  <1> QED BY <1>1, BaseInvariant, PTL

\* A live thread whose worker is not the registered one has been told to stop.
THEOREM StraysAreStopping == SafetySpec => []StraysStopping
  <1>1. Base => StraysStopping
    BY DEF Base, Struct
  <1> QED BY <1>1, BaseInvariant, PTL

\* The poller holds the callbacks of registered workers and of workers that died
\* by themselves; a stopped worker's, no longer than its stop() is waited for, or
\* until stop_all has stopped them all.
THEOREM CallbacksAreAccountedFor == SafetySpec => []NoStrayCallbacks
  <1>1. Base => NoStrayCallbacks
    BY DEF Base, Struct
  <1> QED BY <1>1, BaseInvariant, PTL

-----------------------------------------------------------------------------
(* What runs, what is on file and what the backend asked for.              *)

Starting(c) == op.kind = "start" /\ op.cam = c

\* A worker that is about to be recorded is registered with the recorded spec.
RecordRight ==
    op.step = "record" =>
        /\ registered[op.cam] # None
        /\ specOf[registered[op.cam]] = op.spec

\* The file agrees with what was asked for.
FileRight(c) ==
    diskErrors = 0 =>
        /\ SameSource(file[c], wanted[c])
        /\ file[c] = NoSpec <=> wanted[c] = NoSpec

\* Nothing of a camera runs before its turn comes in the replay.
Untouched(c) == registered[c] = None /\ ~Starting(c)

BeforeReplay(c) == node \in {"down", "auto"} => Untouched(c)

\* In the replay, a camera on file waits, is being started, or runs.
ReplayRight(c) ==
    node = "replay" /\ diskErrors = 0 =>
        \/ file[c] = NoSpec /\ c \notin todo /\ Untouched(c)
        \/ /\ file[c] # NoSpec /\ c \in todo /\ Untouched(c)
           /\ loaded[c] = file[c]
        \/ /\ file[c] # NoSpec /\ c \notin todo
           /\ Starting(c) /\ op.spec = file[c]
        \/ /\ file[c] # NoSpec /\ c \notin todo /\ ~Starting(c)
           /\ registered[c] # None
           /\ SameSource(specOf[registered[c]], file[c])

\* In the first life of the process there is nothing to replay.
FirstLife(c) ==
    restarts = 0 /\ node \in {"down", "auto", "replay"} =>
        /\ Untouched(c) /\ c \notin todo
        /\ file[c] = NoSpec /\ wanted[c] = NoSpec

\* While the node serves, the worker of a camera is the wanted one unless it is
\* being started.
UpRight(c) ==
    node = "up" /\ (diskErrors = 0 \/ restarts = 0) =>
        RegisteredAsWanted(c) \/ Starting(c)

Right(c) ==
    /\ FileRight(c) /\ BeforeReplay(c) /\ ReplayRight(c)
    /\ FirstLife(c) /\ UpRight(c)

Faithful == Base /\ RecordRight /\ \A c \in Cameras \ AutoStart : Right(c)

-----------------------------------------------------------------------------
(* A camera the step is not about keeps everything.                        *)

LEMMA Frame ==
    ASSUME NEW c \in Cameras, Right(c), UNCHANGED <<node, restarts>>,
           file'[c] = file[c], wanted'[c] = wanted[c],
           loaded'[c] = loaded[c], c \in todo' <=> c \in todo,
           registered'[c] = registered[c],
           registered[c] # None =>
               specOf'[registered[c]] = specOf[registered[c]],
           Starting(c)' <=> Starting(c), Starting(c) => op'.spec = op.spec,
           diskErrors' = 0 => diskErrors = 0
    PROVE  Right(c)'
  BY DEF Right, FileRight, BeforeReplay, ReplayRight, FirstLife, UpRight,
         RegisteredAsWanted, SameSource, Untouched, Starting

\* A start of another camera.
LEMMA OtherStarts ==
    ASSUME Struct, NEW c \in Cameras, Right(c), NEW d \in Cameras \ {c},
           NEW s \in Specs, StartCamera(d, s), UNCHANGED <<node, restarts>>,
           loaded'[c] = loaded[c], c \in todo' <=> c \in todo
    PROVE  Right(c)'
  <1>1. ~Starting(c)
    BY NoOpFacts DEF StartCamera, Starting
  <1>2. /\ UNCHANGED <<specOf, registered, file, diskErrors>>
        /\ wanted'[c] = wanted[c] /\ ~Starting(c)'
    <2>1. CASE AlreadyRunning(d, s)
      BY <2>1, <1>1 DEF AlreadyRunning, Answer, workerVars, tableVars, Struct,
                        CoreTyped, Starting
    <2>2. CASE ReplaceRunning(d, s)
      BY <2>2 DEF ReplaceRunning, tableVars, fileVars, Starting
    <2>3. CASE StartAnew(d, s)
      BY <2>3 DEF StartAnew, workerVars, tableVars, fileVars, Starting
    <2> QED BY <2>1, <2>2, <2>3 DEF StartCamera
  <1> QED BY <1>1, <1>2, Frame

\* A start asked for by the backend.
LEMMA StartRight ==
    ASSUME Struct, NEW c \in Cameras, Right(c), NEW s \in Specs,
           StartCamera(c, s), node = "up", UNCHANGED lifeVars
    PROVE  Right(c)'
  <1>1. /\ ~Starting(c) /\ s # NoSpec
        /\ UNCHANGED <<node, restarts>> /\ node' = "up"
    BY NoOpFacts, ManagerAssumption
       DEF StartCamera, Starting, lifeVars, ManagerAssumption
  <1>2. CASE AlreadyRunning(c, s)
    <2>1. /\ registered[c] # None /\ specOf[registered[c]].src = s.src
          /\ UNCHANGED <<specOf, registered, file, diskErrors>>
          /\ wanted'[c] = s
      BY <1>2, <1>1 DEF AlreadyRunning, Running, Answer, workerVars, tableVars,
                        Struct, CoreTyped
    <2>2. UpRight(c)'
      BY <2>1, <1>1 DEF UpRight, RegisteredAsWanted, SameSource
    <2>3. FileRight(c)'
      BY <2>1, <1>1 DEF Right, UpRight, FileRight, RegisteredAsWanted, SameSource
    <2> QED BY <1>1, <2>2, <2>3
               DEF Right, BeforeReplay, ReplayRight, FirstLife
  <1>3. CASE ReplaceRunning(c, s) \/ StartAnew(c, s)
    <2>1. Starting(c)' /\ UNCHANGED <<file, wanted, diskErrors>>
      BY <1>3 DEF ReplaceRunning, StartAnew, fileVars, Starting
    <2> QED BY <1>1, <2>1 DEF Right, FileRight, BeforeReplay, ReplayRight,
                              FirstLife, UpRight, SameSource
  <1> QED BY <1>2, <1>3 DEF StartCamera

\* The start of a camera by the replay.
LEMMA ReplayStartRight ==
    ASSUME Struct, NEW c \in Cameras, Right(c), node = "replay", c \in todo,
           loaded[c] \in Specs, StartCamera(c, loaded[c]),
           todo' = todo \ {c}, UNCHANGED <<node, loaded, restarts>>
    PROVE  Right(c)'
  <1>1. restarts # 0
    BY DEF Right, FirstLife
  <1>2. UNCHANGED <<file, wanted, diskErrors>>
    BY DEF StartCamera, AlreadyRunning, ReplaceRunning, StartAnew, Answer,
           fileVars
  <1>3. ASSUME diskErrors = 0
        PROVE  /\ file[c] # NoSpec /\ Starting(c)' /\ op'.spec = file[c]
    <2>1. file[c] # NoSpec /\ registered[c] = None /\ loaded[c] = file[c]
      BY <1>3 DEF Right, ReplayRight, Untouched
    <2>2. StartAnew(c, loaded[c])
      BY <2>1 DEF StartCamera, AlreadyRunning, ReplaceRunning, Running
    <2> QED BY <2>1, <2>2 DEF StartAnew, Starting
  <1>4. FileRight(c)'
    BY <1>2 DEF Right, FileRight, SameSource
  <1>5. ReplayRight(c)'
    BY <1>2, <1>3 DEF ReplayRight
  <1> QED BY <1>1, <1>4, <1>5
             DEF Right, BeforeReplay, FirstLife, UpRight

LEMMA RequestRight ==
    ASSUME Struct, NEW c \in Cameras, Right(c), Request
    PROVE  Right(c)'
  <1>1. UNCHANGED lifeVars /\ node = "up"
    BY DEF Request
  <1>2. ASSUME NEW d \in Cameras, NEW s \in Specs, StartCamera(d, s)
        PROVE  Right(c)'
    <2>1. CASE d = c
      BY <1>1, <1>2, <2>1, StartRight
    <2>2. CASE d # c
      BY <1>1, <1>2, <2>2, OtherStarts DEF lifeVars
    <2> QED BY <2>1, <2>2
  <1>3. ASSUME NEW d \in Cameras, StopCamera(d) \/ StopCameraUnrecorded(d)
        PROVE  Right(c)'
    <2>1. /\ ~Starting(c) /\ ~Starting(c)' /\ UNCHANGED specOf
          /\ registered' = [registered EXCEPT ![d] = None]
          /\ wanted' = [wanted EXCEPT ![d] = NoSpec]
      BY <1>1, <1>3, NoOpFacts DEF StopCamera, StopCameraUnrecorded, Forget,
                                   Answer, Starting
    <2>2. /\ diskErrors' = 0 =>
                diskErrors = 0 /\ file' = [file EXCEPT ![d] = NoSpec]
          /\ d # c => file'[c] = file[c]
      BY <1>3, ManagerAssumption DEF StopCamera, StopCameraUnrecorded, Struct,
                                     CoreTyped, ManagerAssumption
    <2>3. CASE d = c
      <3>1. registered'[c] = None /\ wanted'[c] = NoSpec
            /\ (diskErrors' = 0 => file'[c] = NoSpec)
        BY <2>1, <2>2, <2>3 DEF Struct, CoreTyped
      <3> QED BY <1>1, <3>1
                 DEF Right, FileRight, BeforeReplay, ReplayRight, FirstLife,
                     UpRight, RegisteredAsWanted, SameSource, lifeVars
    <2>4. CASE d # c
      <3>1. registered'[c] = registered[c] /\ wanted'[c] = wanted[c]
        BY <2>1, <2>4 DEF Struct, CoreTyped
      <3> QED BY <1>1, <2>1, <2>2, <2>4, <3>1, Frame DEF lifeVars
    <2> QED BY <2>3, <2>4
  <1> QED BY <1>2, <1>3 DEF Request

LEMMA RecordKeepsRight ==
    ASSUME Struct, LifeTyped, ShutdownInv, RecordRight, NEW c \in Cameras,
           Right(c), RecordStarted \/ RecordStartedFails
    PROVE  Right(c)'
  <1>1. /\ op.step = "record" /\ op.kind = "start" /\ op.cam \in Cameras
        /\ op.spec \in Specs /\ op.spec # NoSpec
        /\ UNCHANGED <<lifeVars, specOf, registered>>
        /\ Answer(op.cam, op.spec) /\ ~Starting(c)'
    BY NoOpFacts, OpFacts, ManagerAssumption
       DEF RecordStarted, RecordStartedFails, Struct, CoreTyped, OpInv,
           workerVars, tableVars, Starting, ManagerAssumption
  <1>2. /\ diskErrors' = 0 =>
              diskErrors = 0 /\ file' = [file EXCEPT ![op.cam] = op.spec]
        /\ RecordStarted => file' = [file EXCEPT ![op.cam] = op.spec]
    BY ManagerAssumption DEF RecordStarted, RecordStartedFails, Struct,
                             CoreTyped, ManagerAssumption
  <1>3. CASE op.cam = c
    <2>1. Starting(c)
      BY <1>1, <1>3 DEF Starting
    <2>2. /\ registered'[c] # None
          /\ specOf'[registered'[c]] = op.spec
          /\ diskErrors' = 0 => file'[c] = op.spec
          /\ wanted'[c] = IF node = "up" THEN op.spec ELSE wanted[c]
      BY <1>1, <1>2, <1>3 DEF RecordRight, Answer, Struct, CoreTyped
    <2>3. /\ node \in {"replay", "up"}
          /\ restarts = 0 => node = "up"
          /\ node = "replay" /\ diskErrors = 0 =>
                op.spec = file[c] /\ c \notin todo
      BY <2>1, <1>1 DEF Right, BeforeReplay, FirstLife, ReplayRight, Untouched,
                        LifeTyped, ShutdownInv
    <2>4. UNCHANGED <<node, todo, loaded, restarts>>
      BY <1>1 DEF lifeVars
    <2>5. FileRight(c)'
      <3>1. CASE node = "up"
        BY <3>1, <2>2, <1>1 DEF FileRight, SameSource
      <3>2. CASE node = "replay"
        BY <3>2, <2>2, <2>3, <1>2 DEF Right, FileRight, SameSource
      <3> QED BY <3>1, <3>2, <2>3 DEF LifeTyped
    <2>6. ReplayRight(c)'
      BY <1>1, <1>2, <2>2, <2>3, <2>4 DEF ReplayRight, SameSource
    <2>7. UpRight(c)'
      BY <1>1, <2>2, <2>4 DEF UpRight, RegisteredAsWanted, SameSource
    <2> QED BY <2>3, <2>4, <2>5, <2>6, <2>7
               DEF Right, BeforeReplay, FirstLife
  <1>4. CASE op.cam # c
    <2>1. ~Starting(c)
      BY <1>4 DEF Starting
    <2>2. wanted'[c] = wanted[c]
      BY <1>1, <1>4 DEF Answer, Struct, CoreTyped
    <2>3. CASE file'[c] = file[c]
      BY <1>1, <1>2, <2>1, <2>2, <2>3, Frame DEF lifeVars
    <2>4. CASE file'[c] # file[c]
      <3>1. diskErrors' # 0 /\ file'[c] = NoSpec
        BY <2>4, <1>1, <1>2, <1>4
           DEF RecordStarted, RecordStartedFails, Struct, CoreTyped
      <3>2. /\ UNCHANGED <<node, todo, loaded, restarts, specOf, registered>>
            /\ (diskErrors = 0 \/ restarts = 0) \/ restarts # 0
        BY <1>1 DEF lifeVars
      <3> QED BY <1>1, <2>1, <2>2, <3>1, <3>2
                 DEF Right, FileRight, BeforeReplay, ReplayRight, FirstLife,
                     UpRight, RegisteredAsWanted, SameSource, Untouched
    <2> QED BY <2>3, <2>4
  <1> QED BY <1>3, <1>4

\* The steps of an operation before it returns, and the last one of stop_camera.
LEMMA OperationRight ==
    ASSUME Struct, LifeTyped, ShutdownInv, RecordRight, NEW c \in Cameras,
           Right(c), Operation
    PROVE  Right(c)'
  <1>1. UNCHANGED lifeVars
    BY DEF Operation, JoinReplaced, Launch, RecordStarted,
           RecordStartedFails, JoinStopped
  <1>2. CASE JoinReplaced
    <2>1. /\ Starting(c)' <=> Starting(c)
          /\ op'.spec = op.spec
      <3>1. op \in Ops /\ op.kind # "none"
        BY <1>2, NoOpFacts DEF JoinReplaced, Struct, CoreTyped
      <3> QED BY <1>2, <3>1, NextStep DEF JoinReplaced, Starting
    <2> QED BY <1>1, <1>2, <2>1, Frame DEF JoinReplaced, lifeVars, fileVars
  <1>3. CASE Launch
    <2>1. op \in Ops /\ op.kind # "none"
      BY <1>3, NoOpFacts DEF Launch, Struct, CoreTyped, OpInv
    <2>2. op.kind = "start" /\ op.cam \in Cameras
      BY <1>3, <2>1, OpFacts DEF Launch, Struct, OpInv
    <2>3. /\ Starting(c)' <=> Starting(c)
          /\ op'.spec = op.spec
      BY <1>3, <2>1, NextStep DEF Launch, Starting
    <2>4. UNCHANGED <<file, wanted, diskErrors>>
      BY <1>3 DEF Launch, fileVars
    <2>5. CASE op.cam = c
      <3>1. Starting(c) /\ Starting(c)'
        BY <2>2, <2>3, <2>5 DEF Starting
      <3> QED BY <1>1, <2>3, <2>4, <3>1
                 DEF Right, FileRight, BeforeReplay, ReplayRight, FirstLife,
                     UpRight, SameSource, Untouched, Starting, lifeVars
    <2>6. CASE op.cam # c
      <3>1. registered'[c] = registered[c]
        BY <1>3, <2>6 DEF Launch, Struct, CoreTyped
      <3>2. registered[c] # None =>
               specOf'[registered[c]] = specOf[registered[c]]
        <4>1. ASSUME registered[c] # None
              PROVE  registered[c] # created + 1
          BY <4>1, ManagerAssumption
             DEF Struct, Allocated, CoreTyped, ManagerAssumption
        <4>2. registered[c] \in Workers \cup {None}
          BY DEF Struct, CoreTyped
        <4> QED BY <1>3, <4>1, <4>2 DEF Launch, Struct, CoreTyped
      <3> QED BY <1>1, <2>3, <2>4, <3>1, <3>2, Frame DEF lifeVars
    <2> QED BY <2>5, <2>6
  <1>4. CASE RecordStarted \/ RecordStartedFails
    BY <1>4, RecordKeepsRight
  <1>5. CASE JoinStopped
    <2>1. ~Starting(c) /\ ~Starting(c)'
      BY <1>5, NoOpFacts DEF JoinStopped, Starting
    <2> QED BY <1>1, <1>5, <2>1, Frame
               DEF JoinStopped, lifeVars, tableVars, fileVars
  <1> QED BY <1>2, <1>3, <1>4, <1>5 DEF Operation

LEMMA StartupRight ==
    ASSUME Base, NEW c \in Cameras \ AutoStart, Right(c), Startup
    PROVE  Right(c)'
  <1>1. CASE Boot
    BY <1>1 DEF Boot, Right, FileRight, BeforeReplay, ReplayRight, FirstLife,
                UpRight, SameSource, Untouched, Starting, tableVars, fileVars
  <1>2. CASE AutoStartNext
    <2>1. PICK d \in todo : StartCamera(d, AutoSpec) /\ todo' = todo \ {d}
      BY <1>2 DEF AutoStartNext
    <2>2. d \in AutoStart /\ AutoSpec \in Specs
      BY <1>2, <2>1, ManagerAssumption
         DEF AutoStartNext, Base, StartupInv, ManagerAssumption
    <2>3. d \in Cameras \ {c}
      BY <2>2, ManagerAssumption DEF ManagerAssumption
    <2> QED BY <1>2, <2>1, <2>2, <2>3, OtherStarts DEF AutoStartNext, Base
  <1>3. CASE LoadSpecs
    <2>1. /\ Untouched(c) /\ Untouched(c)' /\ node' = "replay"
          /\ loaded'[c] = file[c]
          /\ c \in todo' <=> file[c] # NoSpec
          /\ UNCHANGED <<restarts, file, wanted, diskErrors>>
      BY <1>3 DEF LoadSpecs, Right, BeforeReplay, Untouched, Starting,
                  tableVars, fileVars
    <2>2. node = "auto"
      BY <1>3 DEF LoadSpecs
    <2> QED BY <2>1, <2>2 DEF Right, FileRight, BeforeReplay, ReplayRight,
                              FirstLife, UpRight, SameSource
  <1>4. CASE LoadSpecsFails
    <2>1. /\ Untouched(c) /\ Untouched(c)' /\ node' = "replay"
          /\ UNCHANGED <<restarts, todo, file, wanted>> /\ todo = {}
          /\ diskErrors' # 0 /\ node = "auto"
      BY <1>4, ManagerAssumption
         DEF LoadSpecsFails, Right, BeforeReplay, Untouched, Starting,
             tableVars, Base, Struct, CoreTyped, ManagerAssumption
    <2> QED BY <2>1 DEF Right, FileRight, BeforeReplay, ReplayRight,
                        FirstLife, UpRight
  <1>5. CASE ReplayNext
    <2>1. PICK d \in todo : StartCamera(d, loaded[d]) /\ todo' = todo \ {d}
      BY <1>5 DEF ReplayNext
    <2>2. d \in Cameras /\ loaded[d] \in Specs
      BY <1>5, <2>1 DEF ReplayNext, Base, LifeTyped, StartupInv
    <2>3. CASE d = c
      BY <1>5, <2>1, <2>2, <2>3, ReplayStartRight DEF ReplayNext, Base
    <2>4. CASE d # c
      BY <1>5, <2>1, <2>2, <2>4, OtherStarts DEF ReplayNext, Base
    <2> QED BY <2>3, <2>4
  <1>6. CASE Serve
    <2>1. /\ node = "replay" /\ todo = {} /\ ~Starting(c)
          /\ UNCHANGED <<restarts, specOf, registered, file, wanted,
                         diskErrors>>
          /\ node' = "up"
      BY <1>6, NoOpFacts DEF Serve, Starting, workerVars, tableVars, fileVars
    <2>2. ASSUME diskErrors = 0 PROVE RegisteredAsWanted(c)
      BY <2>1, <2>2 DEF Right, ReplayRight, FileRight, RegisteredAsWanted,
                        SameSource, Untouched
    <2>3. ASSUME restarts = 0 PROVE RegisteredAsWanted(c)
      BY <2>1, <2>3 DEF Right, FirstLife, RegisteredAsWanted, Untouched
    <2>4. UpRight(c)'
      BY <2>1, <2>2, <2>3 DEF UpRight, RegisteredAsWanted, SameSource
    <2> QED BY <2>1, <2>4 DEF Right, FileRight, BeforeReplay, ReplayRight,
                              FirstLife, SameSource
  <1> QED BY <1>1, <1>2, <1>3, <1>4, <1>5, <1>6 DEF Startup

LEMMA RightStep ==
    ASSUME Base, RecordRight, NEW c \in Cameras \ AutoStart, Right(c),
           [Next]_vars
    PROVE  Right(c)'
  <1>1. CASE Request
    BY <1>1, RequestRight DEF Base
  <1>2. CASE Operation
    BY <1>2, OperationRight DEF Base
  <1>3. CASE Startup
    BY <1>3, StartupRight
  <1>4. CASE (\E w \in Workers : ThreadStep(w) \/ DieByItself(w))
             \/ UNCHANGED vars
    <2>1. UNCHANGED <<lifeVars, op, specOf, registered, file, wanted,
                      diskErrors>>
      BY <1>4 DEF ThreadStep, InitDone, LoopHead, CallDone, DieByItself, Step,
                  vars, workerVars, tableVars, fileVars
    <2> QED BY <2>1, Frame DEF Starting, lifeVars
  <1>5. CASE Die
    <2>1. /\ node' = "down" /\ restarts' # 0
          /\ UNCHANGED <<file, wanted, diskErrors>> /\ Untouched(c)'
      BY <1>5, ManagerAssumption, NoOpFacts
         DEF Die, LoseMemory, fileVars, Base, LifeTyped, Untouched, Starting,
             ManagerAssumption
    <2> QED BY <2>1 DEF Right, FileRight, BeforeReplay, ReplayRight,
                        FirstLife, UpRight, SameSource
  <1>6. CASE StopAll \/ StopEach \/ ForgetAll
    <2>1. /\ node' \in {"ending", "ended"}
          /\ UNCHANGED <<file, wanted, diskErrors>>
      BY <1>6 DEF StopAll, StopEach, ForgetAll, fileVars
    <2> QED BY <2>1 DEF Right, FileRight, BeforeReplay, ReplayRight,
                        FirstLife, UpRight, SameSource
  <1> QED BY <1>1, <1>2, <1>3, <1>4, <1>5, <1>6
             DEF Next, Crash, Shutdown, Exit

LEMMA RecordRightStep ==
    ASSUME Base, RecordRight, [Next]_vars
    PROVE  RecordRight'
  <1>1. ASSUME NEW c \in Cameras, NEW s \in Specs, StartCamera(c, s)
        PROVE  op'.step # "record"
    BY <1>1, NoOpFacts
       DEF StartCamera, AlreadyRunning, ReplaceRunning, StartAnew
  <1>2. CASE Request
    BY <1>1, <1>2, NoOpFacts
       DEF Request, StopCamera, StopCameraUnrecorded, Forget, RecordRight
  <1>3. CASE Operation
    <2>1. CASE JoinReplaced
      BY <2>1, NoOpFacts, NextStep
         DEF JoinReplaced, Base, Struct, CoreTyped, RecordRight
    <2>2. CASE Launch
      <3>1. op \in Ops /\ op.kind # "none"
        BY <2>2, NoOpFacts DEF Launch, Base, Struct, CoreTyped, OpInv
      <3>2. /\ op.cam \in Cameras /\ created + 1 \in Workers
            /\ created + 1 # None
        BY <2>2, <3>1, OpFacts, ManagerAssumption
           DEF Launch, Base, Struct, CoreTyped, OpInv, Workers, None,
               ManagerAssumption
      <3>3. op'.cam = op.cam /\ op'.spec = op.spec
        BY <2>2, <3>1, NextStep DEF Launch
      <3> QED BY <2>2, <3>2, <3>3
                 DEF Launch, Base, Struct, CoreTyped, RecordRight
    <2>3. CASE RecordStarted \/ RecordStartedFails \/ JoinStopped
      BY <2>3, NoOpFacts
         DEF RecordStarted, RecordStartedFails, JoinStopped, RecordRight
    <2> QED BY <1>3, <2>1, <2>2, <2>3 DEF Operation
  <1>4. CASE AutoStartNext \/ ReplayNext
    <2>1. \E c \in Cameras, s \in Specs : StartCamera(c, s)
      BY <1>4, ManagerAssumption
         DEF AutoStartNext, ReplayNext, Base, LifeTyped, StartupInv,
             ManagerAssumption
    <2> QED BY <1>1, <2>1 DEF RecordRight
  <1>5. CASE Boot \/ LoadSpecs \/ LoadSpecsFails \/ Serve
    BY <1>5 DEF Boot, LoadSpecs, LoadSpecsFails, Serve, workerVars, tableVars,
                RecordRight
  <1>6. CASE \E w \in Workers : ThreadStep(w) \/ DieByItself(w)
    BY <1>6 DEF ThreadStep, InitDone, LoopHead, CallDone, DieByItself, Step,
                tableVars, RecordRight
  <1>7. CASE Crash \/ Shutdown
    <2>1. op' = NoOp \/ op'.step = "join"
      BY <1>7 DEF Crash, Shutdown, Exit, Die, LoseMemory, StopAll, StopEach,
                  ForgetAll
    <2> QED BY <2>1, NoOpFacts DEF RecordRight
  <1>8. CASE UNCHANGED vars
    BY <1>8 DEF vars, workerVars, tableVars, RecordRight
  <1> QED BY <1>2, <1>3, <1>4, <1>5, <1>6, <1>7, <1>8 DEF Next, Startup

LEMMA FaithfulInvariant == SafetySpec => []Faithful
  <1>1. Init => Faithful
    <2> SUFFICES ASSUME Init PROVE Faithful
      OBVIOUS
    <2>1. RecordRight
      BY NoOpFacts DEF Init, RecordRight
    <2>2. ASSUME NEW c \in Cameras PROVE Right(c)
      BY NoOpFacts DEF Init, Right, FileRight, BeforeReplay, ReplayRight,
                       FirstLife, UpRight, SameSource, Untouched, Starting
    <2> QED BY <2>1, <2>2, BaseInit DEF Faithful
  <1>2. Faithful /\ [Next]_vars => Faithful'
    <2> SUFFICES ASSUME Faithful, [Next]_vars PROVE Faithful'
      OBVIOUS
    <2>1. Base' /\ RecordRight'
      BY BaseStep, RecordRightStep DEF Faithful
    <2>2. ASSUME NEW c \in Cameras \ AutoStart PROVE Right(c)'
      BY RightStep DEF Faithful
    <2> QED BY <2>1, <2>2 DEF Faithful
  <1> QED BY <1>1, <1>2, PTL DEF SafetySpec

\* Between requests, a registered worker has not been told to stop: its thread runs
\* or has died by itself.
LEMMA RegisteredServes ==
    ASSUME Struct, Idle, NEW c \in Cameras, registered[c] # None
    PROVE  \/ Running(registered[c]) /\ ~stopping[registered[c]]
           \/ DiedByItself(registered[c])
  <1> DEFINE w == registered[c]
  <1>1. w \in Workers /\ w <= created
    BY DEF Struct, CoreTyped, Allocated
  <1>2. ~stopping[w]
    BY NoOpFacts DEF Struct, ToldToStop, Idle
  <1>3. held[w] /\ thread[w] # "none"
    BY <1>1, <1>2 DEF Struct, Allocated
  <1>4. thread[w] \in {"init", "loop", "call", "dead"}
    BY <1>1, <1>3 DEF Struct, CoreTyped
  <1> QED BY <1>1, <1>2, <1>3, <1>4, NoOpFacts DEF Running, Live, DiedByItself

LEMMA UpRuns ==
    ASSUME Faithful, Idle, diskErrors = 0 \/ restarts = 0,
           NEW c \in Cameras \ AutoStart
    PROVE  RunsAsWanted(c)
  <1>1. Struct /\ RegisteredAsWanted(c)
    BY NoOpFacts DEF Faithful, Base, Right, UpRight, Idle, Starting
  <1> QED BY <1>1, RegisteredServes DEF RunsAsWanted

\* What was last asked for is on file and, unless its thread died by itself, runs,
\* through deaths and shutdowns of the process, while the disk works and for
\* cameras not auto-started.
THEOREM IntentIsHeld == SafetySpec => []IntentHeld
  <1>1. Faithful => IntentHeld
    BY UpRuns DEF Faithful, Right, FileRight, IntentHeld
  <1> QED BY <1>1, FaithfulInvariant, PTL

\* Disk errors do not show before the process has ended once.
THEOREM DiskErrorsAreHarmless == SafetySpec => []DiskErrorsHarmless
  <1>1. Faithful => DiskErrorsHarmless
    BY UpRuns DEF DiskErrorsHarmless
  <1> QED BY <1>1, FaithfulInvariant, PTL
=============================================================================
