-------------------------- MODULE MetadataEmitter --------------------------
(***************************************************************************)
(* emitter.py: camera threads put frame metadata into one bounded queue    *)
(* and drop the oldest when it is full; the emitter's thread takes batches *)
(* and posts them to the backend.  queue.Queue makes single operations     *)
(* atomic, not the sequence put, get, put of enqueue.                      *)
(***************************************************************************)
EXTENDS CameraSet, Integers, SequencesExt

CONSTANTS Cap,           \* _QUEUE_CAP
          BatchSize,     \* _BATCH_SIZE
          MaxFrames      \* bound: frames one camera enqueues

ASSUME EmitterAssumption ==
    Cap \in Nat \ {0} /\ BatchSize \in Nat \ {0} /\ MaxFrames \in Nat

\* Frame n of a camera.
Frames == Cameras \X (1..MaxFrames)

VARIABLES
    queue,      \* _queue
    batch,      \* what the emitter's thread has taken
    posting,    \* it is in client.post
    at,         \* per camera thread: where it is in enqueue
    made,       \* per camera: frames it has produced
    sent, failed, dropped,      \* the counters
    fate        \* history: frames that left, and how

counters == <<sent, failed, dropped>>
emitterVars == <<queue, batch, posting, at, made, counters, fate>>

\* The frame camera c is enqueueing.
Held(c) == <<c, made[c]>>

EmitterTypeOK ==
    /\ queue \in Seq(Frames) /\ Len(queue) <= Cap
    /\ batch \in Seq(Frames) /\ Len(batch) <= BatchSize
    /\ posting \in BOOLEAN
    /\ at \in [Cameras -> {"idle", "put", "full", "retry"}]
    /\ made \in [Cameras -> 0..MaxFrames]
    /\ sent \in Nat /\ failed \in Nat /\ dropped \in Nat
    /\ fate \in [Frames -> {"none", "sent", "failed", "evicted", "unqueued",
                            "raised"}]

EmitterInit ==
    /\ queue = <<>> /\ batch = <<>> /\ posting = FALSE
    /\ at = [c \in Cameras |-> "idle"]
    /\ made = [c \in Cameras |-> 0]
    /\ sent = 0 /\ failed = 0 /\ dropped = 0
    /\ fate = [f \in Frames |-> "none"]

Goto(c, place) == at' = [at EXCEPT ![c] = place]

\* The frames of F leave the emitter.
Leave(F, how) == fate' = [f \in Frames |-> IF f \in F THEN how ELSE fate[f]]

-----------------------------------------------------------------------------
(* enqueue, on the camera threads.                                         *)

\* A frame is analysed and handed to enqueue.
Produce(c) ==
    /\ at[c] = "idle" /\ made[c] < MaxFrames
    /\ made' = [made EXCEPT ![c] = @ + 1]
    /\ Goto(c, "put")
    /\ UNCHANGED <<queue, batch, posting, counters, fate>>

\* The first put_nowait.
Put(c) ==
    /\ at[c] = "put"
    /\ IF Len(queue) < Cap
       THEN queue' = Append(queue, Held(c)) /\ Goto(c, "idle")
       ELSE Goto(c, "full") /\ UNCHANGED queue
    /\ UNCHANGED <<batch, posting, made, counters, fate>>

\* It raised Full: get_nowait takes the oldest, unless the emitter's thread has
\* emptied the queue meanwhile; then the new frame is given up and not counted.
Evict(c) ==
    /\ at[c] = "full"
    /\ IF queue # <<>>
       THEN /\ queue' = Tail(queue)
            /\ Leave({Head(queue)}, "evicted")
            /\ Goto(c, "retry")
       ELSE /\ Leave({Held(c)}, "unqueued")
            /\ Goto(c, "idle")
            /\ UNCHANGED queue
    /\ UNCHANGED <<batch, posting, made, counters>>

\* Mutant of PutAgain: no limit is tested.
PutAgainUnbounded(c) ==
    /\ at[c] = "retry"
    /\ queue' = Append(queue, Held(c))
    /\ dropped' = dropped + 1
    /\ Goto(c, "idle")
    /\ UNCHANGED <<batch, posting, made, sent, failed, fate>>

\* The second put_nowait.  Another camera may have taken the place: Full then
\* leaves enqueue, and the analysis of this frame with it.
PutAgain(c) ==
    /\ at[c] = "retry"
    /\ Goto(c, "idle")
    /\ IF Len(queue) < Cap
       THEN /\ queue' = Append(queue, Held(c))
            /\ dropped' = dropped + 1
            /\ UNCHANGED fate
       ELSE /\ Leave({Held(c)}, "raised")
            /\ UNCHANGED <<queue, dropped>>
    /\ UNCHANGED <<batch, posting, made, sent, failed>>

-----------------------------------------------------------------------------
(* _run and _drain_batch, on the emitter's thread.                         *)

Take ==
    /\ ~posting /\ queue # <<>> /\ Len(batch) < BatchSize
    /\ batch' = Append(batch, Head(queue))
    /\ queue' = Tail(queue)
    /\ UNCHANGED <<posting, at, made, counters, fate>>

\* Mutant of CloseBatch: only a full batch is posted.
CloseFullBatch ==
    /\ ~posting /\ Len(batch) = BatchSize
    /\ posting' = TRUE
    /\ UNCHANGED <<queue, batch, at, made, counters, fate>>

\* The batch is full, the queue is empty or the 0.2 s are over.
CloseBatch ==
    /\ ~posting /\ batch # <<>>
    /\ posting' = TRUE
    /\ UNCHANGED <<queue, batch, at, made, counters, fate>>

\* The backend answers with success.
PostAnswered ==
    /\ posting
    /\ posting' = FALSE
    /\ batch' = <<>>
    /\ sent' = sent + Len(batch)
    /\ Leave(ToSet(batch), "sent")
    /\ UNCHANGED <<queue, at, made, failed, dropped>>

\* Mutant of PostFails: the batch goes back to the end of the queue.
PostFailsRequeueing ==
    /\ posting
    /\ posting' = FALSE
    /\ batch' = <<>>
    /\ queue' = IF Len(queue \o batch) <= Cap THEN queue \o batch ELSE queue
    /\ failed' = failed + Len(batch)
    /\ UNCHANGED <<at, made, sent, dropped, fate>>

\* Mutant of PostFails: only one failure is counted per batch.
PostFailsOnce ==
    /\ posting
    /\ posting' = FALSE
    /\ batch' = <<>>
    /\ failed' = failed + 1
    /\ Leave(ToSet(batch), "failed")
    /\ UNCHANGED <<queue, at, made, sent, dropped>>

\* An error status or a transport error: the batch is not posted again.
PostFails ==
    /\ posting
    /\ posting' = FALSE
    /\ batch' = <<>>
    /\ failed' = failed + Len(batch)
    /\ Leave(ToSet(batch), "failed")
    /\ UNCHANGED <<queue, at, made, sent, dropped>>

-----------------------------------------------------------------------------
Enqueue(c) == Put(c) \/ Evict(c) \/ PutAgain(c)

Emit == Take \/ CloseBatch \/ PostAnswered \/ PostFails

EmitterNext == (\E c \in Cameras : Produce(c) \/ Enqueue(c)) \/ Emit

EmitterSafetySpec == EmitterInit /\ [][EmitterNext]_emitterVars

\* The emitter's thread and every enqueue run on; posts time out after 5 s.
EmitterSpec ==
    /\ EmitterSafetySpec
    /\ WF_emitterVars(Emit) /\ \A c \in Cameras : WF_emitterVars(Enqueue(c))

-----------------------------------------------------------------------------
(* Properties.                                                             *)

Gone(how) == {f \in Frames : fate[f] = how}

\* What waits for the backend, in the order in which it will get it.
Waiting == batch \o queue

\* The backend never gets an older frame of a camera after a newer one, nor a
\* frame twice: what waits of one camera is in order and newer than all that
\* was posted, although batches fail and the oldest are evicted.
InOrder ==
    /\ \A i, j \in DOMAIN Waiting :
          i < j /\ Waiting[i][1] = Waiting[j][1] => Waiting[i][2] < Waiting[j][2]
    /\ \A i \in DOMAIN Waiting, f \in Gone("sent") :
          f[1] = Waiting[i][1] => f[2] < Waiting[i][2]

\* Every frame is waiting, in its camera's hands or gone in one known way, and
\* the counters are exact but for evictions whose second put has not succeeded:
\* those cost a frame the counter does not show.
Accounted ==
    /\ sent = Cardinality(Gone("sent"))
    /\ failed = Cardinality(Gone("failed"))
    /\ Cardinality(Gone("evicted")) =
         dropped + Cardinality(Gone("raised"))
                 + Cardinality({c \in Cameras : at[c] = "retry"})
    /\ \A f \in Frames :
          f[2] <= made[f[1]] /\ fate[f] = "none" =>
             f \in ToSet(Waiting) \/ (at[f[1]] # "idle" /\ f = Held(f[1]))

\* Every frame handed to enqueue leaves: posted, failed, evicted or given up.
EveryFrameLeaves ==
    \A c \in Cameras, n \in 1..MaxFrames : made[c] >= n ~> fate[<<c, n>>] # "none"
=============================================================================
