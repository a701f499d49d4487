--------------------------- MODULE ConfigDelivery ---------------------------
(***************************************************************************)
(* How an edit of the behavior config reaches the scorers: the poller      *)
(* thread (config_poller.py) fetches, compares with what it fetched last   *)
(* and calls back; the manager's thread subscribes a new worker, which     *)
(* calls back at once; and the worker's own thread builds its scorer and   *)
(* then applies what was buffered meanwhile (camera_worker.py).            *)
(*                                                                         *)
(* The config has three parts that are compared, delivered and buffered    *)
(* separately and in the same order: 1 weights, 2 thresholds, 3 params.    *)
(* A part's content is its edit number at the backend.                     *)
(***************************************************************************)
EXTENDS Integers

CONSTANTS Workers,       \* CameraWorker objects, each started at most once
          NParts,        \* how many of the three parts are modelled
          MaxVersion     \* bound: edits of one part at the backend

ASSUME DeliveryAssumption == NParts \in 1..3 /\ MaxVersion \in Nat

Parts == 1..NParts
Versions == 0..MaxVersion
Unset == -1              \* Python's None; in a scorer, the hardcoded defaults
Callers == {"poller", "manager"}

VARIABLES
    backend,    \* per part: the version the backend serves
    fetched,    \* the poller's response, before it is compared
    last,       \* _last_weights, _last_thresholds, _last_params
    subs,       \* workers whose callbacks are in the poller's lists
    polling,    \* the poller's thread is alive
    calls,      \* per caller: callbacks it has still to call
    current,    \* per caller: the apply_* it is in, and what it saw
    phase,      \* per worker: where its thread is in _run
    part,       \* per worker: the part whose buffer it looks at
    built,      \* per worker: _scorer is not None
    scorer,     \* per worker and part: what the scorer uses
    pending,    \* per worker and part: _pending_*
    raced       \* history: workers called while they applied their buffers

pollerVars == <<backend, fetched, last, subs, polling>>
callVars == <<calls, current>>
workerVars == <<phase, part, built, scorer, pending>>
vars == <<pollerVars, callVars, workerVars, raced>>

Calls == [w : Workers, part : Parts, version : Versions]
NoCall == [none |-> TRUE]
NoConfig == [p \in Parts |-> Unset]

TypeOK ==
    /\ backend \in [Parts -> Versions]
    /\ fetched \in [Parts -> Versions \cup {Unset}]
    /\ last \in [Parts -> Versions \cup {Unset}]
    /\ subs \subseteq Workers
    /\ polling \in BOOLEAN
    /\ calls \in [Callers -> SUBSET Calls]
    /\ current \in [Callers -> [call : Calls, absent : BOOLEAN] \cup {NoCall}]
    /\ phase \in [Workers -> {"new", "init", "flush", "clear", "run", "dead",
                          "gone"}]
    /\ part \in [Workers -> Parts]
    /\ built \in [Workers -> BOOLEAN]
    /\ scorer \in [Workers -> [Parts -> Versions \cup {Unset}]]
    /\ pending \in [Workers -> [Parts -> Versions \cup {Unset}]]
    /\ raced \subseteq Workers

Init ==
    /\ backend = [p \in Parts |-> 0]
    /\ fetched = NoConfig
    /\ last = NoConfig
    /\ subs = {}
    /\ polling = TRUE
    /\ calls = [k \in Callers |-> {}]
    /\ current = [k \in Callers |-> NoCall]
    /\ phase = [w \in Workers |-> "new"]
    /\ part = [w \in Workers |-> 1]
    /\ built = [w \in Workers |-> FALSE]
    /\ scorer = [w \in Workers |-> NoConfig]
    /\ pending = [w \in Workers |-> NoConfig]
    /\ raced = {}

\* Caller k has called back everyone it had to.
Quiet(k) == calls[k] = {} /\ current[k] = NoCall

\* subscribe() calls back with the poller's lock held.
LockFree == Quiet("manager")

-----------------------------------------------------------------------------
(* The poller's loop.                                                      *)

\* An admin edits part p at the backend.
Edit(p) ==
    /\ backend[p] < MaxVersion
    /\ backend' = [backend EXCEPT ![p] = @ + 1]
    /\ UNCHANGED <<fetched, last, subs, polling, callVars, workerVars, raced>>

\* The GET of _fetch_and_dispatch and the parsing of its reply.  An HTTP error,
\* or a ValueError from the parsing, changes nothing: the loop tries again.
Fetch ==
    /\ polling
    /\ fetched = NoConfig /\ Quiet("poller")
    /\ fetched' = backend
    /\ UNCHANGED <<backend, last, subs, polling, callVars, workerVars, raced>>

\* A reply of the wrong shape (a list for an object, a null weight) raises a
\* TypeError or an AttributeError, which the loop does not catch: the thread ends
\* before it has stored or dispatched anything, and nothing starts it again.
FetchMalformed ==
    /\ polling
    /\ fetched = NoConfig /\ Quiet("poller")
    /\ polling' = FALSE
    /\ UNCHANGED <<backend, fetched, last, subs, callVars, workerVars, raced>>

\* Mutant of Compare: the response is stored before it is compared.
CompareAfterStore ==
    /\ fetched # NoConfig /\ LockFree
    /\ last' = fetched
    /\ fetched' = NoConfig
    /\ UNCHANGED <<backend, subs, polling, callVars, workerVars, raced>>

\* Mutant of Compare: it does not wait for the lock.
CompareUnlocked ==
    /\ fetched # NoConfig
    /\ last' = fetched
    /\ fetched' = NoConfig
    /\ calls' = [calls EXCEPT !["poller"] =
                   {c \in Calls : /\ c.w \in subs
                                  /\ c.version = fetched[c.part]
                                  /\ c.version # last[c.part]}]
    /\ UNCHANGED <<backend, subs, polling, current, workerVars, raced>>

\* Under the lock: which parts changed, remember them, copy the callback lists.
Compare ==
    /\ fetched # NoConfig /\ LockFree
    /\ last' = fetched
    /\ fetched' = NoConfig
    /\ calls' = [calls EXCEPT !["poller"] =
                   {c \in Calls : /\ c.w \in subs
                                  /\ c.version = fetched[c.part]
                                  /\ c.version # last[c.part]}]
    /\ UNCHANGED <<backend, subs, polling, current, workerVars, raced>>

-----------------------------------------------------------------------------
(* Callbacks: apply_weights, apply_thresholds, apply_params.               *)

\* w's thread is between its scorer and the end of its buffers.
Flushing(w) == phase[w] \in {"flush", "clear"}

\* The callbacks of one part are called before those of the next; each first
\* looks whether the worker has its scorer.
Enter(k) ==
    /\ current[k] = NoCall
    /\ \E c \in calls[k] :
        /\ \A d \in calls[k] : c.part <= d.part
        /\ calls' = [calls EXCEPT ![k] = @ \ {c}]
        /\ current' = [current EXCEPT
                         ![k] = [call |-> c, absent |-> ~built[c.w]]]
        /\ raced' = IF Flushing(c.w) THEN raced \cup {c.w} ELSE raced
    /\ UNCHANGED <<pollerVars, workerVars>>

\* ... and then updates the scorer or the buffer, by what it saw.
Apply(k) ==
    /\ current[k] # NoCall
    /\ current' = [current EXCEPT ![k] = NoCall]
    /\ LET c == current[k].call
       IN  IF current[k].absent
           THEN /\ pending' = [pending EXCEPT ![c.w][c.part] = c.version]
                /\ raced' = IF built[c.w] THEN raced \cup {c.w} ELSE raced
                /\ UNCHANGED scorer
           ELSE /\ scorer' = [scorer EXCEPT ![c.w][c.part] = c.version]
                /\ UNCHANGED <<pending, raced>>
    /\ UNCHANGED <<pollerVars, calls, phase, part, built>>

-----------------------------------------------------------------------------
(* The manager's thread.                                                   *)

\* CameraWorker.start.
StartWorker(w) ==
    /\ phase[w] = "new"
    /\ phase' = [phase EXCEPT ![w] = "init"]
    /\ UNCHANGED <<pollerVars, callVars, part, built, scorer, pending, raced>>

\* Mutant of Subscribe: no callback with the last known config.
SubscribeSilently(w) ==
    /\ LockFree
    /\ phase[w] \notin {"new", "gone"} /\ w \notin subs
    /\ subs' = subs \cup {w}
    /\ UNCHANGED <<backend, fetched, last, polling, callVars, workerVars,
                   raced>>

\* Under the lock: add the callbacks and call them with the last known config.
Subscribe(w) ==
    /\ LockFree
    /\ phase[w] \notin {"new", "gone"} /\ w \notin subs
    /\ subs' = subs \cup {w}
    /\ calls' = [calls EXCEPT !["manager"] =
                   {c \in Calls : c.w = w /\ c.version = last[c.part]}]
    /\ UNCHANGED <<backend, fetched, last, polling, current, workerVars,
                   raced>>

\* The handle subscribe() returned, called when the worker is stopped or
\* replaced.  A dispatch that has copied the lists still calls it.
Unsubscribe(w) ==
    /\ LockFree
    /\ w \in subs
    /\ subs' = subs \ {w}
    /\ phase' = [phase EXCEPT ![w] = "gone"]
    /\ UNCHANGED <<backend, fetched, last, polling, callVars, part, built,
                   scorer, pending, raced>>

-----------------------------------------------------------------------------
(* The worker's thread: the initialisation in _run.                        *)

\* The scorer exists, with its defaults; the demographics and staff models are
\* still to be loaded before the buffers are looked at.
BuildScorer(w) ==
    /\ phase[w] = "init"
    /\ built' = [built EXCEPT ![w] = TRUE]
    /\ phase' = [phase EXCEPT ![w] = "flush"]
    /\ raced' = IF \E k \in Callers : /\ current[k] # NoCall
                                      /\ current[k].call.w = w
                THEN raced \cup {w} ELSE raced
    /\ UNCHANGED <<pollerVars, callVars, part, scorer, pending>>

\* Mutant of Advance: the next part's buffer is looked for under the index of
\* the last one plus one, without the end of the list being noticed.
AdvanceTooFar(w) ==
    /\ part' = [part EXCEPT ![w] = @ + 1]
    /\ phase' = [phase EXCEPT ![w] = IF part[w] < NParts THEN "flush" ELSE "run"]

\* The next part, or the end of the initialisation.
Advance(w) ==
    IF part[w] < NParts
    THEN /\ part' = [part EXCEPT ![w] = @ + 1]
         /\ phase' = [phase EXCEPT ![w] = "flush"]
    ELSE /\ phase' = [phase EXCEPT ![w] = "run"]
         /\ UNCHANGED part

\* Apply a part's buffer, if there is one ...
FlushPart(w) ==
    /\ phase[w] = "flush"
    /\ LET v == pending[w][part[w]]
       IN  IF v = Unset
           THEN Advance(w) /\ UNCHANGED scorer
           ELSE /\ scorer' = [scorer EXCEPT ![w][part[w]] = v]
                /\ phase' = [phase EXCEPT ![w] = "clear"]
                /\ UNCHANGED part
    /\ UNCHANGED <<pollerVars, callVars, built, pending, raced>>

\* ... and then empty it.
ClearPart(w) ==
    /\ phase[w] = "clear"
    /\ pending' = [pending EXCEPT ![w][part[w]] = Unset]
    /\ Advance(w)
    /\ UNCHANGED <<pollerVars, callVars, built, scorer, raced>>

\* An exception in the initialisation ends the thread.
InitFails(w) ==
    /\ phase[w] \in {"init", "flush", "clear"}
    /\ phase' = [phase EXCEPT ![w] = "dead"]
    /\ UNCHANGED <<pollerVars, callVars, part, built, scorer, pending, raced>>

-----------------------------------------------------------------------------
Poll == Fetch \/ FetchMalformed \/ Compare

Callback(k) == Enter(k) \/ Apply(k)

WorkerInit(w) == BuildScorer(w) \/ FlushPart(w) \/ ClearPart(w)

Next ==
    \/ \E p \in Parts : Edit(p)
    \/ Poll
    \/ \E k \in Callers : Callback(k)
    \/ \E w \in Workers : StartWorker(w) \/ Subscribe(w) \/ Unsubscribe(w)
                          \/ WorkerInit(w) \/ InitFails(w)

SafetySpec == Init /\ [][Next]_vars

\* As long as the poller's thread lives, its loop goes on through HTTP errors and
\* ValueErrors until a reply comes, which it parses or dies of; callbacks and
\* initialisations run on.  No edit, start or stop need ever happen.
Fairness ==
    /\ WF_vars(Poll)
    /\ \A k \in Callers : WF_vars(Callback(k))
    /\ \A w \in Workers : WF_vars(WorkerInit(w) \/ InitFails(w))

Spec == SafetySpec /\ Fairness

-----------------------------------------------------------------------------
(* Properties.                                                             *)

Settled == \A k \in Callers : Quiet(k)

\* A worker that no callback reached between the moment it had a scorer and the
\* end of its buffers runs on the config the poller fetched last, in every part,
\* whenever no callback is under way.
UnracedOnLast ==
    Settled => \A w \in subs :
        phase[w] = "run" /\ w \notin raced => scorer[w] = last

\* Once a worker runs, no part of its scorer's config goes back to an older edit,
\* although two threads call it.
NeverBackwards ==
    [][\A w \in Workers, p \in Parts :
         phase[w] = "run" => scorer'[w][p] >= scorer[w][p]]_vars

\* An edit the poller has not fetched yet reaches every worker that runs by then,
\* raced or not, unless a reply of the wrong shape has ended the poller's thread:
\* from then on no edit reaches anyone.
EditReachesRunning ==
    \A w \in Workers, p \in Parts, v \in Versions :
        (phase[w] = "run" /\ w \in subs /\ last[p] < v /\ backend[p] = v)
            ~> (scorer[w][p] >= v \/ w \notin subs \/ ~polling)

\* camera_worker.py, of the buffers: "buffer and apply once scorer is live (fixes
\* config-poller race condition)": every worker that runs is on the config the
\* poller fetched last.
RunsOnLast ==
    Settled => \A w \in subs : phase[w] = "run" => scorer[w] = last
=============================================================================
