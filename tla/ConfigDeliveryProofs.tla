------------------------ MODULE ConfigDeliveryProofs ------------------------
(***************************************************************************)
(* Proofs that config delivery is right but for the workers a callback     *)
(* races, and that no running scorer goes back to an older edit, for every *)
(* number of workers and edits.                                            *)
(***************************************************************************)
EXTENDS ConfigDelivery, TLAPS

\* The poller compares against versions no newer than what the backend serves,
\* and dispatches nothing while it holds a response.
Ordered ==
    /\ \A p \in Parts : last[p] <= backend[p]
    /\ fetched # NoConfig =>
          /\ Quiet("poller")
          /\ \A p \in Parts : /\ fetched[p] \in Versions
                              /\ last[p] <= fetched[p]
                              /\ fetched[p] <= backend[p]

\* Every callback under way delivers what was fetched last: the poller does not
\* fetch while it dispatches, and the lock keeps it from comparing while
\* subscribe() calls back.
CallsCurrent ==
    \A k \in Callers :
        /\ \A c \in calls[k] : c.version = last[c.part]
        /\ current[k] # NoCall =>
              current[k].call.version = last[current[k].call.part]

NothingNewer ==
    \A w \in Workers, p \in Parts :
        scorer[w][p] <= last[p] /\ pending[w][p] <= last[p]

Ordering == TypeOK /\ Ordered /\ CallsCurrent /\ NothingNewer

-----------------------------------------------------------------------------
\* A call record is one of a callback, and no callback at all is none.
LEMMA CallFacts ==
    /\ 1 \in Parts /\ NParts \in 1..3
    /\ \A c \in Calls : c.w \in Workers /\ c.part \in Parts
                        /\ c.version \in Versions
    /\ \A c, b : [call |-> c, absent |-> b] # NoCall
  <1>1. 1 \in Parts /\ NParts \in 1..3
    BY DeliveryAssumption DEF DeliveryAssumption, Parts
  <1>2. \A c \in Calls : c.w \in Workers /\ c.part \in Parts
                         /\ c.version \in Versions
    BY DEF Calls
  <1>3. ASSUME NEW c, NEW b
        PROVE  [call |-> c, absent |-> b] # NoCall
    <2>1. "call" \in DOMAIN [call |-> c, absent |-> b]
      OBVIOUS
    <2>2. "call" \notin DOMAIN NoCall
      BY DEF NoCall
    <2> QED BY <2>1, <2>2
  <1> QED BY <1>1, <1>2, <1>3

\* Versions and Unset are integers, Unset the least.
LEMMA IntFacts ==
    ASSUME TypeOK
    PROVE  /\ \A v \in Versions \cup {Unset} : v \in Int /\ Unset <= v
           /\ \A p \in Parts :
                 /\ backend[p] \in Int /\ last[p] \in Int /\ fetched[p] \in Int
                 /\ Unset <= last[p]
           /\ \A w \in Workers, p \in Parts :
                 scorer[w][p] \in Int /\ pending[w][p] \in Int
  <1>1. \A v \in Versions \cup {Unset} : v \in Int /\ Unset <= v
    BY DeliveryAssumption DEF DeliveryAssumption, Versions, Unset
  <1>2. \A p \in Parts : /\ backend[p] \in Versions \cup {Unset}
                         /\ last[p] \in Versions \cup {Unset}
                         /\ fetched[p] \in Versions \cup {Unset}
    BY DEF TypeOK
  <1>3. \A w \in Workers, p \in Parts :
            /\ scorer[w][p] \in Versions \cup {Unset}
            /\ pending[w][p] \in Versions \cup {Unset}
    BY DEF TypeOK
  <1> QED BY <1>1, <1>2, <1>3

\* Writing one part of one worker's config.
LEMMA PartUpdate ==
    ASSUME NEW S, NEW f \in [Workers -> [Parts -> S]],
           NEW w \in Workers, NEW p \in Parts, NEW v \in S
    PROVE  /\ [f EXCEPT ![w][p] = v] \in [Workers -> [Parts -> S]]
           /\ \A x \in Workers, q \in Parts :
                 [f EXCEPT ![w][p] = v][x][q] =
                    IF x = w /\ q = p THEN v ELSE f[x][q]
  <1> DEFINE g == [f[w] EXCEPT ![p] = v]
  <1>1. g \in [Parts -> S] /\ \A q \in Parts : g[q] = IF q = p THEN v ELSE f[w][q]
    OBVIOUS
  <1>2. [f EXCEPT ![w][p] = v] = [f EXCEPT ![w] = g]
    OBVIOUS
  <1> HIDE DEF g
  <1>3. /\ [f EXCEPT ![w] = g] \in [Workers -> [Parts -> S]]
        /\ \A x \in Workers : [f EXCEPT ![w] = g][x] = IF x = w THEN g ELSE f[x]
    BY <1>1
  <1> QED BY <1>1, <1>2, <1>3

\* What a callback under way carries.
LEMMA CurrentTyped ==
    ASSUME TypeOK, NEW k \in Callers, current[k] # NoCall
    PROVE  /\ current[k] \in [call : Calls, absent : BOOLEAN]
           /\ current[k].call \in Calls
           /\ current[k].call.w \in Workers
           /\ current[k].call.part \in Parts
           /\ current[k].call.version \in Versions
  <1>1. current[k] \in [call : Calls, absent : BOOLEAN]
    BY DEF TypeOK
  <1> QED BY <1>1, CallFacts

LEMMA InitOrdering == Init => Ordering
  <1> SUFFICES ASSUME Init PROVE Ordering
    OBVIOUS
  <1>1. 0 \in Versions /\ 1 \in Parts
    BY DeliveryAssumption DEF DeliveryAssumption, Versions, Parts
  <1>2. TypeOK
    BY <1>1 DEF Init, TypeOK, NoConfig
  <1>3. Ordered
    BY <1>1 DEF Init, Ordered, NoConfig, Unset
  <1>4. CallsCurrent
    BY DEF Init, CallsCurrent
  <1>5. NothingNewer
    BY DEF Init, NothingNewer, NoConfig, Unset
  <1> QED BY <1>2, <1>3, <1>4, <1>5 DEF Ordering

LEMMA EditOrdering ==
    ASSUME Ordering, NEW p \in Parts, Edit(p)
    PROVE  Ordering'
  <1>1. backend' \in [Parts -> Versions]
    BY DeliveryAssumption
       DEF DeliveryAssumption, Ordering, TypeOK, Edit, Versions
  <1>2. TypeOK'
    BY <1>1 DEF Ordering, TypeOK, Edit, callVars, workerVars
  <1>3. \A q \in Parts : /\ last[q] \in Int /\ backend[q] \in Int
                         /\ fetched[q] \in Int /\ backend'[q] \in Int
    BY <1>1, IntFacts DEF Ordering
  <1>4. \A q \in Parts : backend[q] <= backend'[q]
    BY <1>3 DEF Ordering, TypeOK, Edit
  <1>5. Ordered'
    <2>1. UNCHANGED <<fetched, last, calls, current>>
      BY DEF Edit, callVars
    <2>2. Quiet("poller")' = Quiet("poller")
      BY <2>1 DEF Quiet
    <2>3. \A q \in Parts : last'[q] <= backend'[q]
      BY <1>3, <1>4, <2>1 DEF Ordering, Ordered
    <2>4. fetched' # NoConfig => \A q \in Parts : fetched'[q] <= backend'[q]
      BY <1>3, <1>4, <2>1 DEF Ordering, Ordered
    <2> QED BY <2>1, <2>2, <2>3, <2>4 DEF Ordering, Ordered
  <1>6. CallsCurrent' /\ NothingNewer'
    BY DEF Ordering, Edit, CallsCurrent, NothingNewer, callVars, workerVars
  <1> QED BY <1>2, <1>5, <1>6 DEF Ordering

LEMMA FetchOrdering == ASSUME Ordering, Fetch PROVE Ordering'
  <1>1. TypeOK'
    BY DEF Ordering, TypeOK, Fetch, callVars, workerVars
  <1>2. Ordered'
    <2>1. /\ fetched' = backend /\ Quiet("poller")
          /\ UNCHANGED <<backend, last, calls, current>>
      BY DEF Fetch, callVars
    <2>2. \A p \in Parts : /\ backend[p] \in Versions /\ backend[p] \in Int
                           /\ last[p] <= backend[p]
      BY IntFacts DEF Ordering, TypeOK, Ordered
    <2>3. Quiet("poller")'
      BY <2>1 DEF Quiet
    <2> QED BY <2>1, <2>2, <2>3 DEF Ordered
  <1>3. CallsCurrent' /\ NothingNewer'
    BY DEF Ordering, Fetch, CallsCurrent, NothingNewer, callVars, workerVars
  <1> QED BY <1>1, <1>2, <1>3 DEF Ordering

\* A reply of the wrong shape ends the thread and changes nothing else.
LEMMA MalformedOrdering == ASSUME Ordering, FetchMalformed PROVE Ordering'
  <1>1. TypeOK'
    BY DEF Ordering, TypeOK, FetchMalformed, callVars, workerVars
  <1>2. Ordered' /\ CallsCurrent' /\ NothingNewer'
    BY DEF Ordering, Ordered, FetchMalformed, CallsCurrent, NothingNewer, Quiet,
           callVars, workerVars
  <1> QED BY <1>1, <1>2 DEF Ordering

LEMMA CompareOrdering == ASSUME Ordering, Compare PROVE Ordering'
  <1>1. /\ Quiet("poller") /\ Quiet("manager")
        /\ last' = fetched /\ fetched' = NoConfig
        /\ \A p \in Parts : /\ fetched[p] \in Versions
                            /\ last[p] <= fetched[p]
                            /\ fetched[p] <= backend[p]
    BY DEF Ordering, Ordered, Compare, LockFree
  <1>2. /\ calls' \in [Callers -> SUBSET Calls]
        /\ calls'["manager"] = {}
        /\ \A c \in calls'["poller"] : c.version = fetched[c.part]
    BY <1>1 DEF Ordering, TypeOK, Compare, Callers, Quiet
  <1>3. TypeOK'
    BY <1>1, <1>2
       DEF Ordering, TypeOK, Compare, NoConfig, workerVars
  <1>4. Ordered'
    BY <1>1 DEF Compare, Ordered
  <1>5. CallsCurrent'
    <2>1. \A k \in Callers : current'[k] = NoCall
      BY <1>1 DEF Compare, Quiet, Callers
    <2> QED BY <2>1, <1>1, <1>2 DEF CallsCurrent, Callers
  <1>6. NothingNewer'
    <2>1. ASSUME NEW w \in Workers, NEW p \in Parts
          PROVE  scorer'[w][p] <= last'[p] /\ pending'[w][p] <= last'[p]
      <3>1. /\ scorer[w][p] \in Int /\ pending[w][p] \in Int
            /\ last[p] \in Int /\ fetched[p] \in Int
        BY IntFacts DEF Ordering
      <3> QED BY <1>1, <3>1
                 DEF Ordering, NothingNewer, Compare, workerVars
    <2> QED BY <2>1 DEF NothingNewer
  <1> QED BY <1>3, <1>4, <1>5, <1>6 DEF Ordering

LEMMA EnterOrdering ==
    ASSUME Ordering, NEW k \in Callers, Enter(k)
    PROVE  Ordering'
  <1>1. PICK c \in calls[k] :
            /\ calls' = [calls EXCEPT ![k] = @ \ {c}]
            /\ current' = [current EXCEPT
                             ![k] = [call |-> c, absent |-> ~built[c.w]]]
            /\ raced' = IF Flushing(c.w) THEN raced \cup {c.w} ELSE raced
    BY DEF Enter
  <1>2. c \in Calls /\ c.w \in Workers
    BY <1>1, CallFacts DEF Ordering, TypeOK
  <1>3. [call |-> c, absent |-> ~built[c.w]]
            \in [call : Calls, absent : BOOLEAN]
    BY <1>2 DEF Ordering, TypeOK
  <1>4. TypeOK'
    BY <1>1, <1>2, <1>3 DEF Ordering, TypeOK, Enter, pollerVars, workerVars
  <1>5. Ordered'
    <2>1. fetched # NoConfig => k # "poller"
      BY <1>1 DEF Ordering, Ordered, Quiet
    <2> QED BY <2>1, <1>1
               DEF Ordering, TypeOK, Ordered, Enter, Quiet, pollerVars
  <1>6. CallsCurrent'
    <2>1. ASSUME NEW j \in Callers
          PROVE  /\ calls'[j] \subseteq calls[j]
                 /\ current'[j] = current[j] \/ current'[j].call \in calls[j]
      BY <1>1 DEF Ordering, TypeOK
    <2> QED BY <2>1
               DEF Ordering, CallsCurrent, Enter, pollerVars
  <1>7. NothingNewer'
    BY DEF Ordering, NothingNewer, Enter, pollerVars, workerVars
  <1> QED BY <1>4, <1>5, <1>6, <1>7 DEF Ordering

LEMMA ApplyOrdering ==
    ASSUME Ordering, NEW k \in Callers, Apply(k)
    PROVE  Ordering'
  <1> DEFINE c == current[k].call
  <1>1. /\ c.w \in Workers /\ c.part \in Parts /\ c.version \in Versions
        /\ c.version = last[c.part]
    BY CurrentTyped DEF Ordering, CallsCurrent, Apply
  <1>2. /\ current' = [current EXCEPT ![k] = NoCall]
        /\ \/ /\ pending' = [pending EXCEPT ![c.w][c.part] = c.version]
              /\ scorer' = scorer
           \/ /\ scorer' = [scorer EXCEPT ![c.w][c.part] = c.version]
              /\ pending' = pending
        /\ raced' = raced \/ raced' = raced \cup {c.w}
        /\ UNCHANGED <<pollerVars, calls, phase, part, built>>
    BY DEF Apply
  <1> HIDE DEF c
  <1>3. TypeOK'
    <2>1. /\ scorer' \in [Workers -> [Parts -> Versions \cup {Unset}]]
          /\ pending' \in [Workers -> [Parts -> Versions \cup {Unset}]]
      <3>1. /\ c.version \in Versions \cup {Unset}
            /\ scorer \in [Workers -> [Parts -> Versions \cup {Unset}]]
            /\ pending \in [Workers -> [Parts -> Versions \cup {Unset}]]
        BY <1>1 DEF Ordering, TypeOK
      <3>2. /\ [scorer EXCEPT ![c.w][c.part] = c.version]
                   \in [Workers -> [Parts -> Versions \cup {Unset}]]
            /\ [pending EXCEPT ![c.w][c.part] = c.version]
                   \in [Workers -> [Parts -> Versions \cup {Unset}]]
        BY <3>1, <1>1, PartUpdate
      <3> QED BY <3>1, <3>2, <1>2
    <2> QED BY <1>1, <1>2, <2>1 DEF Ordering, TypeOK, pollerVars
  <1>4. Ordered'
    BY <1>2 DEF Ordering, TypeOK, Ordered, Quiet, pollerVars
  <1>5. CallsCurrent'
    BY <1>2 DEF Ordering, TypeOK, CallsCurrent, pollerVars
  <1>6. NothingNewer'
    <2>1. ASSUME NEW w \in Workers, NEW p \in Parts
          PROVE  scorer'[w][p] <= last'[p] /\ pending'[w][p] <= last'[p]
      <3>1. /\ scorer'[w][p] = scorer[w][p]
               \/ (w = c.w /\ p = c.part /\ scorer'[w][p] = last[p])
            /\ pending'[w][p] = pending[w][p]
               \/ (w = c.w /\ p = c.part /\ pending'[w][p] = last[p])
        BY <1>1, <1>2 DEF Ordering, TypeOK
      <3>2. last[p] \in Int /\ last' = last
        BY <1>2, IntFacts DEF Ordering, pollerVars
      <3> QED BY <3>1, <3>2 DEF Ordering, NothingNewer
    <2> QED BY <2>1 DEF NothingNewer
  <1> QED BY <1>3, <1>4, <1>5, <1>6 DEF Ordering

LEMMA SubscribeOrdering ==
    ASSUME Ordering, NEW w \in Workers, Subscribe(w)
    PROVE  Ordering'
  <1>1. /\ calls' \in [Callers -> SUBSET Calls]
        /\ calls'["poller"] = calls["poller"]
        /\ \A c \in calls'["manager"] : c.version = last[c.part]
    BY DEF Ordering, TypeOK, Subscribe, Callers
  <1>2. TypeOK'
    BY <1>1 DEF Ordering, TypeOK, Subscribe, workerVars
  <1>3. Ordered'
    BY <1>1 DEF Ordering, Ordered, Subscribe, Quiet
  <1>4. CallsCurrent'
    BY <1>1 DEF Ordering, CallsCurrent, Subscribe, Callers
  <1>5. NothingNewer'
    BY DEF Ordering, NothingNewer, Subscribe, workerVars
  <1> QED BY <1>2, <1>3, <1>4, <1>5 DEF Ordering

LEMMA AdvanceTyped ==
    ASSUME TypeOK, NEW w \in Workers, Advance(w)
    PROVE  /\ part' \in [Workers -> Parts]
           /\ phase' \in [Workers -> {"new", "init", "flush", "clear", "run",
                                      "dead", "gone"}]
  <1>1. CASE part[w] < NParts
    <2>1. part[w] + 1 \in Parts
      BY <1>1, CallFacts DEF TypeOK, Parts
    <2> QED BY <1>1, <2>1 DEF Advance, TypeOK
  <1>2. CASE ~(part[w] < NParts)
    BY <1>2 DEF Advance, TypeOK
  <1> QED BY <1>1, <1>2

LEMMA FlushOrdering ==
    ASSUME Ordering, NEW w \in Workers, FlushPart(w) \/ ClearPart(w)
    PROVE  Ordering'
  <1>1. /\ part[w] \in Parts
        /\ pending[w][part[w]] \in Versions \cup {Unset}
    BY DEF Ordering, TypeOK
  <1>2. /\ part' \in [Workers -> Parts]
        /\ phase' \in [Workers -> {"new", "init", "flush", "clear", "run",
                                   "dead", "gone"}]
    BY AdvanceTyped DEF Ordering, TypeOK, FlushPart, ClearPart
  <1>3. /\ \/ scorer' = scorer
           \/ scorer' = [scorer EXCEPT ![w][part[w]] = pending[w][part[w]]]
        /\ \/ pending' = pending
           \/ pending' = [pending EXCEPT ![w][part[w]] = Unset]
        /\ UNCHANGED <<pollerVars, callVars, built, raced>>
    BY DEF FlushPart, ClearPart
  <1>4. TypeOK'
    <2>1. /\ scorer' \in [Workers -> [Parts -> Versions \cup {Unset}]]
          /\ pending' \in [Workers -> [Parts -> Versions \cup {Unset}]]
      <3>1. /\ Unset \in Versions \cup {Unset}
            /\ scorer \in [Workers -> [Parts -> Versions \cup {Unset}]]
            /\ pending \in [Workers -> [Parts -> Versions \cup {Unset}]]
        BY DEF Ordering, TypeOK
      <3>2. /\ [scorer EXCEPT ![w][part[w]] = pending[w][part[w]]]
                   \in [Workers -> [Parts -> Versions \cup {Unset}]]
            /\ [pending EXCEPT ![w][part[w]] = Unset]
                   \in [Workers -> [Parts -> Versions \cup {Unset}]]
        BY <3>1, <1>1, PartUpdate
      <3> QED BY <3>1, <3>2, <1>3
    <2> QED BY <1>2, <1>3, <2>1 DEF Ordering, TypeOK, pollerVars, callVars
  <1>5. Ordered' /\ CallsCurrent'
    BY <1>3 DEF Ordering, Ordered, CallsCurrent, Quiet, pollerVars, callVars
  <1>6. NothingNewer'
    <2>1. ASSUME NEW v \in Workers, NEW p \in Parts
          PROVE  scorer'[v][p] <= last'[p] /\ pending'[v][p] <= last'[p]
      <3>1. /\ scorer'[v][p] \in {scorer[v][p], pending[v][p]}
            /\ pending'[v][p] \in {pending[v][p], Unset}
        <4>1. /\ scorer \in [Workers -> [Parts -> Versions \cup {Unset}]]
              /\ pending \in [Workers -> [Parts -> Versions \cup {Unset}]]
          BY DEF Ordering, TypeOK
        <4>2. /\ Unset \in Versions \cup {Unset}
              /\ pending[w][part[w]] \in Versions \cup {Unset}
          BY <1>1
        <4>3. /\ [scorer EXCEPT ![w][part[w]] = pending[w][part[w]]][v][p]
                    = IF v = w /\ p = part[w] THEN pending[w][part[w]]
                      ELSE scorer[v][p]
              /\ [pending EXCEPT ![w][part[w]] = Unset][v][p]
                    = IF v = w /\ p = part[w] THEN Unset ELSE pending[v][p]
          BY <1>1, <4>1, <4>2, PartUpdate
        <4> QED BY <1>3, <4>3
      <3>2. last' = last /\ Unset <= last[p]
        BY <1>3, IntFacts DEF Ordering, pollerVars
      <3> QED BY <3>1, <3>2 DEF Ordering, NothingNewer
    <2> QED BY <2>1 DEF NothingNewer
  <1> QED BY <1>4, <1>5, <1>6 DEF Ordering

\* The steps that touch none of the versions.
LEMMA OtherOrdering ==
    ASSUME Ordering, NEW w \in Workers,
           \/ StartWorker(w) \/ Unsubscribe(w) \/ BuildScorer(w)
           \/ InitFails(w)
    PROVE  Ordering'
  <1>1. /\ subs' \subseteq subs /\ raced' \subseteq Workers
        /\ built' \in [Workers -> BOOLEAN]
        /\ phase' \in [Workers -> {"new", "init", "flush", "clear", "run",
                                   "dead", "gone"}]
        /\ UNCHANGED <<backend, fetched, last, polling, callVars, part, scorer,
                       pending>>
    BY DEF Ordering, TypeOK, StartWorker, Unsubscribe, BuildScorer, InitFails,
           pollerVars
  <1>2. TypeOK'
    BY <1>1 DEF Ordering, TypeOK, callVars
  <1>3. Ordered' /\ CallsCurrent' /\ NothingNewer'
    BY <1>1 DEF Ordering, Ordered, CallsCurrent, NothingNewer, Quiet, callVars
  <1> QED BY <1>2, <1>3 DEF Ordering

LEMMA StepOrdering == Ordering /\ [Next]_vars => Ordering'
  <1> SUFFICES ASSUME Ordering, [Next]_vars PROVE Ordering'
    OBVIOUS
  <1>1. CASE \E p \in Parts : Edit(p)
    BY <1>1, EditOrdering
  <1>2. CASE Poll
    BY <1>2, FetchOrdering, MalformedOrdering, CompareOrdering DEF Poll
  <1>3. CASE \E k \in Callers : Callback(k)
    BY <1>3, EnterOrdering, ApplyOrdering DEF Callback
  <1>4. CASE \E w \in Workers : StartWorker(w) \/ Subscribe(w)
                  \/ Unsubscribe(w) \/ WorkerInit(w) \/ InitFails(w)
    BY <1>4, SubscribeOrdering, FlushOrdering, OtherOrdering DEF WorkerInit
  <1>5. CASE UNCHANGED vars
    BY <1>5 DEF vars, pollerVars, callVars, workerVars, Ordering, TypeOK,
                Ordered, CallsCurrent, NothingNewer, Quiet
  <1> QED BY <1>1, <1>2, <1>3, <1>4, <1>5 DEF Next

LEMMA OrderingInvariant == SafetySpec => []Ordering
  BY InitOrdering, StepOrdering, PTL DEF SafetySpec

\* The types of the delivery's variables, for all numbers of workers and edits.
THEOREM DeliveryTypeCorrect == SafetySpec => []TypeOK
  <1>1. Ordering => TypeOK
    BY DEF Ordering
  <1> QED BY <1>1, OrderingInvariant, PTL

\* No part of a running scorer's config ever goes back to an older edit.
THEOREM NeverGoesBack == SafetySpec => NeverBackwards
  <1>1. ASSUME Ordering, Next, NEW w \in Workers, NEW p \in Parts,
               phase[w] = "run"
        PROVE  scorer'[w][p] >= scorer[w][p]
    <2>1. scorer[w][p] \in Int
      BY <1>1, IntFacts DEF Ordering
    <2>2. CASE \E k \in Callers : Apply(k)
      <3>1. PICK k \in Callers : Apply(k)
        BY <2>2
      <3>2. /\ current[k].call.w \in Workers
            /\ current[k].call.part \in Parts
            /\ current[k].call.version = last[current[k].call.part]
        BY <1>1, <3>1, CurrentTyped DEF Ordering, CallsCurrent, Apply
      <3>3. scorer'[w][p] = scorer[w][p] \/ scorer'[w][p] = last[p]
        BY <1>1, <3>1, <3>2 DEF Ordering, TypeOK, Apply
      <3>4. last[p] \in Int
        BY <1>1, IntFacts DEF Ordering
      <3> QED BY <1>1, <2>1, <3>3, <3>4 DEF Ordering, NothingNewer
    <2>3. CASE ~\E k \in Callers : Apply(k)
      <3>1. scorer'[w] = scorer[w]
        BY <1>1, <2>3
           DEF Next, Edit, Poll, Fetch, FetchMalformed, Compare, Callback, Enter, StartWorker,
               Subscribe, Unsubscribe, WorkerInit, BuildScorer, FlushPart,
               ClearPart, InitFails, workerVars, Ordering, TypeOK
      <3> QED BY <2>1, <3>1
    <2> QED BY <2>2, <2>3
  <1>2. Ordering /\ [Next]_vars =>
          [\A w \in Workers, p \in Parts :
             phase[w] = "run" => scorer'[w][p] >= scorer[w][p]]_vars
    BY <1>1
  <1> QED BY <1>2, OrderingInvariant, PTL DEF SafetySpec, NeverBackwards

-----------------------------------------------------------------------------
\* Where the scorer exists, and who is subscribed.
Phases ==
    \A w \in Workers :
        /\ phase[w] \in {"new", "init"} => ~built[w] /\ part[w] = 1
        /\ phase[w] \in {"flush", "clear", "run"} => built[w]
        /\ phase[w] = "new" => w \notin subs

\* A callback inside a worker that was not raced saw what is still so.
SawRight ==
    \A k \in Callers :
        current[k] # NoCall /\ current[k].call.w \notin raced =>
            /\ current[k].absent <=> ~built[current[k].call.w]
            /\ ~Flushing(current[k].call.w)

\* A callback of part p of w is under way, or about to be.
Owed(w, p) ==
    \E k \in Callers :
        \/ \E c \in calls[k] : c.w = w /\ c.part = p
        \/ /\ current[k] # NoCall
           /\ current[k].call.w = w /\ current[k].call.part = p

\* w's thread is past the buffer of part p.
Flushed(w, p) ==
    \/ phase[w] = "run"
    \/ phase[w] = "flush" /\ p < part[w]
    \/ phase[w] = "clear" /\ p <= part[w]

\* Part p of w is as fetched last: in the scorer, or in the buffer that is still
\* to be applied.
UpToDate(w, p) ==
    IF Flushed(w, p) THEN scorer[w][p] = last[p] ELSE pending[w][p] = last[p]

Reached ==
    \A w \in subs, p \in Parts :
        w \notin raced /\ phase[w] \in {"init", "flush", "clear", "run"}
            => Owed(w, p) \/ UpToDate(w, p)

Inv == Ordering /\ Phases /\ SawRight /\ Reached

LEMMA InitReached == Init => Phases /\ SawRight /\ Reached
  BY DEF Init, Phases, SawRight, Reached

\* Steps that leave the callbacks, the workers and the poller's memory alone.
LEMMA QuietReached ==
    ASSUME Inv, UNCHANGED <<last, subs, callVars, workerVars, raced>>
    PROVE  Phases' /\ SawRight' /\ Reached'
  BY DEF Inv, Phases, SawRight, Reached, Owed, UpToDate, Flushed, Flushing,
         callVars, workerVars

LEMMA CompareReached ==
    ASSUME Inv, Compare
    PROVE  Phases' /\ SawRight' /\ Reached'
  <1>1. /\ Quiet("poller") /\ Quiet("manager")
        /\ last' = fetched
        /\ UNCHANGED <<subs, current, workerVars, raced>>
        /\ \A p \in Parts : fetched[p] \in Versions
    BY DEF Inv, Ordering, Ordered, Compare, LockFree
  <1>2. Phases' /\ SawRight'
    BY <1>1 DEF Inv, Phases, SawRight, Flushing, workerVars
  <1>3. ASSUME NEW w \in subs, NEW p \in Parts, w \notin raced,
               phase[w] \in {"init", "flush", "clear", "run"}
        PROVE  Owed(w, p)' \/ UpToDate(w, p)'
    <2>1. CASE fetched[p] = last[p]
      <3>1. ~Owed(w, p)
        BY <1>1 DEF Owed, Quiet, Callers
      <3>2. UpToDate(w, p)
        BY <1>3, <3>1 DEF Inv, Reached
      <3> QED BY <2>1, <3>2, <1>1 DEF UpToDate, Flushed, workerVars
    <2>2. CASE fetched[p] # last[p]
      <3> DEFINE c == [w |-> w, part |-> p, version |-> fetched[p]]
      <3>1. c \in Calls
        BY <1>1 DEF Calls, Inv, Ordering, TypeOK
      <3>2. c \in calls'["poller"]
        BY <3>1, <2>2 DEF Compare, Inv, Ordering, TypeOK, Callers
      <3>3. "poller" \in Callers /\ c.w = w /\ c.part = p
        BY DEF Callers
      <3> HIDE DEF c
      <3> QED BY <3>2, <3>3 DEF Owed
    <2> QED BY <2>1, <2>2
  <1>4. Reached'
    BY <1>1, <1>3 DEF Reached, workerVars
  <1> QED BY <1>2, <1>4

LEMMA EnterReached ==
    ASSUME Inv, NEW k \in Callers, Enter(k)
    PROVE  Phases' /\ SawRight' /\ Reached'
  <1>1. PICK c \in calls[k] :
            /\ calls' = [calls EXCEPT ![k] = @ \ {c}]
            /\ current' = [current EXCEPT
                             ![k] = [call |-> c, absent |-> ~built[c.w]]]
            /\ raced' = IF Flushing(c.w) THEN raced \cup {c.w} ELSE raced
    BY DEF Enter
  <1>2. /\ UNCHANGED <<pollerVars, workerVars>> /\ current[k] = NoCall
        /\ calls \in [Callers -> SUBSET Calls] /\ c \in Calls
        /\ c.w \in Workers /\ built \in [Workers -> BOOLEAN]
        /\ current'[k] = [call |-> c, absent |-> ~built[c.w]]
        /\ current'[k] # NoCall
        /\ \A j \in Callers \ {k} : /\ current'[j] = current[j]
                                    /\ calls'[j] = calls[j]
        /\ calls'[k] = calls[k] \ {c}
    BY <1>1, CallFacts DEF Enter, Inv, Ordering, TypeOK
  <1>3. Phases'
    BY <1>2 DEF Inv, Phases, pollerVars, workerVars
  <1>4. SawRight'
    <2>1. ASSUME NEW j \in Callers, current'[j] # NoCall,
                 current'[j].call.w \notin raced'
          PROVE  /\ current'[j].absent <=> ~built[current'[j].call.w]
                 /\ ~Flushing(current'[j].call.w)
      <3>1. CASE j = k
        <4>1. /\ current'[j].call = c
              /\ current'[j].absent = ~built[c.w]
          BY <3>1, <1>2
        <4> QED BY <4>1, <1>1, <2>1
      <3>2. CASE j # k
        BY <3>2, <2>1, <1>1, <1>2 DEF Inv, SawRight
      <3> QED BY <3>1, <3>2
    <2> QED BY <2>1, <1>2 DEF SawRight, Flushing, workerVars
  <1>5. ASSUME NEW w \in subs, NEW p \in Parts, Owed(w, p)
        PROVE  Owed(w, p)'
    <2>1. PICK j \in Callers :
              \/ \E d \in calls[j] : d.w = w /\ d.part = p
              \/ /\ current[j] # NoCall
                 /\ current[j].call.w = w /\ current[j].call.part = p
      BY <1>5 DEF Owed
    <2>2. CASE j # k
      BY <2>1, <2>2, <1>2 DEF Owed
    <2>3. CASE j = k
      <3>1. PICK d \in calls[k] : d.w = w /\ d.part = p
        BY <2>1, <2>3, <1>2
      <3>2. CASE d = c
        <4>1. current'[k].call = c
          BY <1>2
        <4> QED BY <3>1, <3>2, <4>1, <1>2 DEF Owed
      <3>3. CASE d # c
        BY <3>1, <3>3, <1>2 DEF Owed
      <3> QED BY <3>2, <3>3
    <2> QED BY <2>2, <2>3
  <1>6. Reached'
    <2>1. \A w \in Workers, p \in Parts : UpToDate(w, p)' = UpToDate(w, p)
      BY <1>2 DEF UpToDate, Flushed, pollerVars, workerVars
    <2>2. subs' = subs /\ phase' = phase /\ raced \subseteq raced'
          /\ subs \subseteq Workers
      BY <1>1, <1>2 DEF pollerVars, workerVars, Inv, Ordering, TypeOK
    <2> QED BY <2>1, <2>2, <1>5 DEF Inv, Reached
  <1> QED BY <1>3, <1>4, <1>6

LEMMA ApplyReached ==
    ASSUME Inv, NEW k \in Callers, Apply(k)
    PROVE  Phases' /\ SawRight' /\ Reached'
  <1> DEFINE c == current[k].call
  <1>1. /\ c.w \in Workers /\ c.part \in Parts
        /\ c.version \in Versions \cup {Unset} /\ c.version = last[c.part]
        /\ current[k] # NoCall /\ current[k].absent \in BOOLEAN
    BY CurrentTyped DEF Inv, Ordering, CallsCurrent, Apply
  <1>2. /\ current' = [current EXCEPT ![k] = NoCall]
        /\ UNCHANGED <<pollerVars, calls, phase, part, built>>
        /\ IF current[k].absent
           THEN /\ pending' = [pending EXCEPT ![c.w][c.part] = c.version]
                /\ raced' = IF built[c.w] THEN raced \cup {c.w} ELSE raced
                /\ scorer' = scorer
           ELSE /\ scorer' = [scorer EXCEPT ![c.w][c.part] = c.version]
                /\ pending' = pending /\ raced' = raced
    BY DEF Apply
  <1>3. /\ scorer \in [Workers -> [Parts -> Versions \cup {Unset}]]
        /\ pending \in [Workers -> [Parts -> Versions \cup {Unset}]]
        /\ current'[k] = NoCall
        /\ \A j \in Callers \ {k} : current'[j] = current[j]
        /\ calls' = calls /\ raced \subseteq raced'
    BY <1>2 DEF Inv, Ordering, TypeOK
  <1>4. c.w \notin raced =>
            /\ current[k].absent <=> ~built[c.w]
            /\ ~Flushing(c.w)
    BY <1>1 DEF Inv, SawRight
  <1> HIDE DEF c
  <1>5. Phases'
    BY <1>2 DEF Inv, Phases, pollerVars
  <1>6. SawRight'
    BY <1>2, <1>3 DEF Inv, SawRight, Flushing
  <1>7. ASSUME NEW w \in subs, NEW p \in Parts, w \notin raced',
               phase[w] \in {"init", "flush", "clear", "run"}
        PROVE  Owed(w, p)' \/ UpToDate(w, p)'
    <2>1. w \in Workers /\ w \notin raced
      BY <1>3, <1>7 DEF Inv, Ordering, TypeOK
    <2>2. CASE c.w = w /\ c.part = p
      <3>1. CASE current[k].absent
        <4>1. ~built[w] /\ phase[w] = "init"
          BY <3>1, <2>1, <2>2, <1>4, <1>7 DEF Inv, Phases
        <4>2. pending'[w][p] = last[p]
          BY <3>1, <2>1, <2>2, <1>1, <1>2, <1>3, PartUpdate
        <4> QED BY <4>1, <4>2, <1>2 DEF UpToDate, Flushed, pollerVars
      <3>2. CASE ~current[k].absent
        <4>1. built[w] /\ phase[w] = "run"
          BY <3>2, <2>1, <2>2, <1>1, <1>4, <1>7 DEF Inv, Phases, Flushing
        <4>2. scorer'[w][p] = last[p]
          BY <3>2, <2>1, <2>2, <1>1, <1>2, <1>3, PartUpdate
        <4> QED BY <4>1, <4>2, <1>2 DEF UpToDate, Flushed, pollerVars
      <3> QED BY <3>1, <3>2
    <2>3. CASE ~(c.w = w /\ c.part = p)
      <3>1. scorer'[w][p] = scorer[w][p] /\ pending'[w][p] = pending[w][p]
        <4>1. /\ [scorer EXCEPT ![c.w][c.part] = c.version][w][p]
                    = scorer[w][p]
              /\ [pending EXCEPT ![c.w][c.part] = c.version][w][p]
                    = pending[w][p]
          BY <2>1, <2>3, <1>1, <1>3, PartUpdate
        <4> QED BY <4>1, <1>2
      <3>2. UpToDate(w, p) => UpToDate(w, p)'
        BY <3>1, <1>2 DEF UpToDate, Flushed, pollerVars
      <3>3. Owed(w, p) => Owed(w, p)'
        BY <2>3, <1>3 DEF Owed, c
      <3> QED BY <3>2, <3>3, <2>1, <1>7 DEF Inv, Reached
    <2> QED BY <2>2, <2>3
  <1>8. Reached'
    BY <1>7, <1>2 DEF Reached, pollerVars
  <1> QED BY <1>5, <1>6, <1>8

LEMMA SubscribeReached ==
    ASSUME Inv, NEW w \in Workers, Subscribe(w)
    PROVE  Phases' /\ SawRight' /\ Reached'
  <1>1. /\ Quiet("manager") /\ phase[w] # "new"
        /\ subs' = subs \cup {w}
        /\ calls'["poller"] = calls["poller"]
        /\ calls'["manager"] =
              {c \in Calls : c.w = w /\ c.version = last[c.part]}
        /\ UNCHANGED <<last, current, workerVars, raced>>
    BY DEF Subscribe, LockFree, Inv, Ordering, TypeOK, Callers
  <1>2. Phases' /\ SawRight'
    BY <1>1 DEF Inv, Phases, SawRight, Flushing, workerVars
  <1>3. ASSUME NEW v \in subs, NEW p \in Parts, Owed(v, p)
        PROVE  Owed(v, p)'
    BY <1>1, <1>3 DEF Owed, Quiet, Callers
  <1>4. ASSUME NEW v \in Workers, NEW p \in Parts
        PROVE  UpToDate(v, p)' = UpToDate(v, p)
    BY <1>1 DEF UpToDate, Flushed, workerVars
  <1>5. ASSUME NEW p \in Parts
        PROVE  Owed(w, p)' \/ UpToDate(w, p)'
    <2>1. CASE last[p] \in Versions
      <3> DEFINE c == [w |-> w, part |-> p, version |-> last[p]]
      <3>1. c \in Calls /\ c.w = w /\ c.part = p /\ c.version = last[c.part]
        BY <2>1 DEF Calls
      <3>2. c \in calls'["manager"] /\ "manager" \in Callers
        BY <3>1, <1>1 DEF Callers
      <3> HIDE DEF c
      <3> QED BY <3>1, <3>2 DEF Owed
    <2>2. CASE last[p] \notin Versions
      <3>1. last[p] = Unset
        BY <2>2 DEF Inv, Ordering, TypeOK
      <3>2. /\ scorer[w][p] \in Versions \cup {Unset}
            /\ pending[w][p] \in Versions \cup {Unset}
        BY DEF Inv, Ordering, TypeOK
      <3>3. scorer[w][p] = Unset /\ pending[w][p] = Unset
        BY <3>1, <3>2, DeliveryAssumption
           DEF Inv, Ordering, NothingNewer, Unset, Versions,
               DeliveryAssumption
      <3>4. UpToDate(w, p)
        BY <3>1, <3>3 DEF UpToDate
      <3> QED BY <3>4, <1>4
    <2> QED BY <2>1, <2>2
  <1>6. Reached'
    <2>1. subs \subseteq Workers
      BY DEF Inv, Ordering, TypeOK
    <2> QED BY <2>1, <1>1, <1>3, <1>4, <1>5 DEF Inv, Reached, workerVars
  <1> QED BY <1>2, <1>6

LEMMA StartReached ==
    ASSUME Inv, NEW w \in Workers,
           StartWorker(w) \/ Unsubscribe(w) \/ InitFails(w)
    PROVE  Phases' /\ SawRight' /\ Reached'
  <1>1. /\ UNCHANGED <<last, callVars, part, built, scorer, pending, raced>>
        /\ subs' \subseteq subs
        /\ \A v \in Workers \ {w} : phase'[v] = phase[v]
        /\ \/ phase[w] = "new" /\ phase'[w] = "init"
           \/ phase'[w] = "gone" /\ w \notin subs'
           \/ phase[w] # "new" /\ phase'[w] = "dead"
    BY DEF Inv, Ordering, TypeOK, StartWorker, Unsubscribe, InitFails,
           pollerVars
  <1>2. Phases'
    BY <1>1 DEF Inv, Phases
  <1>3. SawRight'
    <2>1. ASSUME NEW k \in Callers, current[k] # NoCall
          PROVE  current[k].call.w \in Workers
      BY <2>1, CurrentTyped DEF Inv, Ordering
    <2> QED BY <2>1, <1>1 DEF Inv, SawRight, Flushing, callVars
  <1>4. Reached'
    <2>1. ASSUME NEW v \in subs', NEW p \in Parts, v \notin raced,
                 phase'[v] \in {"init", "flush", "clear", "run"}
          PROVE  Owed(v, p)' \/ UpToDate(v, p)'
      <3>1. v \in subs /\ v \in Workers
        BY <1>1 DEF Inv, Ordering, TypeOK
      <3>2. v # w
        BY <2>1, <3>1, <1>1 DEF Inv, Phases
      <3>3. Owed(v, p) \/ UpToDate(v, p)
        BY <2>1, <3>1, <3>2, <1>1 DEF Inv, Reached
      <3>4. UpToDate(v, p)' = UpToDate(v, p)
        BY <3>1, <3>2, <1>1 DEF UpToDate, Flushed
      <3>5. Owed(v, p)' = Owed(v, p)
        BY <1>1 DEF Owed, callVars
      <3> QED BY <3>3, <3>4, <3>5
    <2> QED BY <2>1, <1>1 DEF Reached
  <1> QED BY <1>2, <1>3, <1>4

LEMMA BuildReached ==
    ASSUME Inv, NEW w \in Workers, BuildScorer(w)
    PROVE  Phases' /\ SawRight' /\ Reached'
  <1>1. /\ UNCHANGED <<last, subs, callVars, part, scorer, pending>>
        /\ phase[w] = "init"
        /\ phase' = [phase EXCEPT ![w] = "flush"]
        /\ built' = [built EXCEPT ![w] = TRUE]
        /\ raced \subseteq raced'
        /\ \A k \in Callers : current[k] # NoCall /\ current[k].call.w = w
              => w \in raced'
        /\ phase \in [Workers -> {"new", "init", "flush", "clear", "run",
                                  "dead", "gone"}]
        /\ built \in [Workers -> BOOLEAN]
    BY DEF BuildScorer, Inv, Ordering, TypeOK, pollerVars
  <1>2. Phases'
    BY <1>1 DEF Inv, Phases
  <1>3. SawRight'
    <2>1. ASSUME NEW k \in Callers, current[k] # NoCall
          PROVE  current[k].call.w \in Workers
      BY <2>1, CurrentTyped DEF Inv, Ordering
    <2> QED BY <2>1, <1>1 DEF Inv, SawRight, Flushing, callVars
  <1>4. Reached'
    <2>1. ASSUME NEW v \in subs, NEW p \in Parts, v \notin raced,
                 phase'[v] \in {"init", "flush", "clear", "run"}
          PROVE  Owed(v, p)' \/ UpToDate(v, p)'
      <3>1. v \in Workers
        BY DEF Inv, Ordering, TypeOK
      <3>2. Owed(v, p) \/ UpToDate(v, p)
        BY <2>1, <3>1, <1>1 DEF Inv, Reached
      <3>3. UpToDate(v, p) => UpToDate(v, p)'
        <4>1. CASE v = w
          <5>1. part'[w] = 1 /\ phase'[w] = "flush" /\ ~(p < 1)
            BY <1>1, DeliveryAssumption
               DEF Inv, Phases, Parts, DeliveryAssumption
          <5>2. ~Flushed(w, p) /\ ~Flushed(w, p)'
            BY <5>1, <1>1 DEF Flushed
          <5> QED BY <4>1, <5>2, <1>1 DEF UpToDate
        <4>2. CASE v # w
          BY <4>2, <3>1, <1>1 DEF UpToDate, Flushed
        <4> QED BY <4>1, <4>2
      <3>4. Owed(v, p)' = Owed(v, p)
        BY <1>1 DEF Owed, callVars
      <3> QED BY <3>2, <3>3, <3>4
    <2> QED BY <2>1, <1>1 DEF Reached
  <1> QED BY <1>2, <1>3, <1>4

\* A step that passes the buffer of part part[w].
LEMMA FlushReached ==
    ASSUME Inv, NEW w \in Workers, FlushPart(w) \/ ClearPart(w)
    PROVE  Phases' /\ SawRight' /\ Reached'
  <1> DEFINE q == part[w]
  <1>1. /\ UNCHANGED <<last, subs, callVars, built, raced>>
        /\ q \in Parts /\ NParts \in 1..3
        /\ phase[w] \in {"flush", "clear"}
        /\ pending[w][q] \in Versions \cup {Unset}
        /\ scorer \in [Workers -> [Parts -> Versions \cup {Unset}]]
        /\ pending \in [Workers -> [Parts -> Versions \cup {Unset}]]
        /\ part \in [Workers -> Parts]
        /\ phase \in [Workers -> {"new", "init", "flush", "clear", "run",
                                  "dead", "gone"}]
    BY CallFacts DEF FlushPart, ClearPart, Inv, Ordering, TypeOK, pollerVars
  <1>2. \/ phase'[w] = "clear" /\ part'[w] = q
        \/ phase'[w] = "flush" /\ part'[w] = q + 1
        \/ phase'[w] = "run" /\ q = NParts
    BY <1>1 DEF FlushPart, ClearPart, Advance, Parts
  <1>3. \A v \in Workers \ {w} : phase'[v] = phase[v] /\ part'[v] = part[v]
    BY <1>1 DEF FlushPart, ClearPart, Advance
  <1>4. Phases'
    BY <1>1, <1>2, <1>3 DEF Inv, Phases
  <1>5. SawRight'
    <2>1. ASSUME NEW k \in Callers, current[k] # NoCall
          PROVE  current[k].call.w \in Workers
      BY <2>1, CurrentTyped DEF Inv, Ordering
    <2>2. \A v \in Workers : ~Flushing(v) => ~Flushing(v)'
      BY <1>1, <1>3 DEF Flushing
    <2> QED BY <2>1, <2>2, <1>1 DEF Inv, SawRight, callVars
  <1>6. ASSUME NEW v \in Workers \ {w}, NEW p \in Parts
        PROVE  scorer'[v][p] = scorer[v][p] /\ pending'[v][p] = pending[v][p]
    BY <1>1 DEF FlushPart, ClearPart
  <1>7. ASSUME NEW p \in Parts, UpToDate(w, p)
        PROVE  UpToDate(w, p)'
    <2>1. CASE FlushPart(w)
      <3>1. pending' = pending /\ phase[w] = "flush"
        BY <2>1 DEF FlushPart
      <3>2. CASE pending[w][q] = Unset
        <4>1. /\ scorer' = scorer
              /\ \/ phase'[w] = "flush" /\ part'[w] = q + 1
                 \/ phase'[w] = "run" /\ q = NParts
          BY <2>1, <3>2, <1>1 DEF FlushPart, Advance, Parts
        <4>2. CASE p = q
          <5>1. last[p] = Unset
            BY <1>7, <3>1, <3>2, <4>2, <1>1 DEF UpToDate, Flushed, Parts
          <5>2. scorer[w][p] = Unset
            <6>1. scorer[w][p] \in Versions \cup {Unset}
              BY <1>1
            <6>2. scorer[w][p] <= Unset
              BY <5>1 DEF Inv, Ordering, NothingNewer
            <6> QED BY <6>1, <6>2, DeliveryAssumption
                       DEF Unset, Versions, DeliveryAssumption
          <5> QED BY <5>1, <5>2, <3>1, <3>2, <4>1, <4>2, <1>1 DEF UpToDate
        <4>3. CASE p # q
          <5>1. Flushed(w, p)' = Flushed(w, p)
            BY <3>1, <4>1, <4>3, <1>1 DEF Flushed, Parts
          <5> QED BY <5>1, <1>7, <3>1, <4>1, <1>1 DEF UpToDate
        <4> QED BY <4>2, <4>3
      <3>3. CASE pending[w][q] # Unset
        <4>1. /\ scorer' = [scorer EXCEPT ![w][q] = pending[w][q]]
              /\ phase'[w] = "clear" /\ part'[w] = q
          BY <2>1, <3>3, <1>1 DEF FlushPart
        <4>2. scorer'[w][p] = IF p = q THEN pending[w][q] ELSE scorer[w][p]
          BY <4>1, <1>1, PartUpdate
        <4>3. CASE p = q
          <5>1. ~Flushed(w, p) /\ Flushed(w, p)'
            BY <3>1, <4>1, <4>3, <1>1 DEF Flushed, Parts
          <5> QED BY <5>1, <4>2, <4>3, <1>7, <1>1 DEF UpToDate
        <4>4. CASE p # q
          <5>1. Flushed(w, p)' = Flushed(w, p)
            BY <3>1, <4>1, <4>4, <1>1 DEF Flushed, Parts
          <5> QED BY <5>1, <4>2, <4>4, <1>7, <3>1, <1>1 DEF UpToDate
        <4> QED BY <4>3, <4>4
      <3> QED BY <3>2, <3>3
    <2>2. CASE ClearPart(w)
      <3>1. /\ pending' = [pending EXCEPT ![w][q] = Unset]
            /\ scorer' = scorer /\ phase[w] = "clear"
            /\ \/ phase'[w] = "flush" /\ part'[w] = q + 1
               \/ phase'[w] = "run" /\ q = NParts
        BY <2>2, <1>1 DEF ClearPart, Advance, Parts
      <3>2. pending'[w][p] = IF p = q THEN Unset ELSE pending[w][p]
        BY <3>1, <1>1, PartUpdate
      <3>3. Flushed(w, p)' = Flushed(w, p)
        BY <3>1, <1>1 DEF Flushed, Parts
      <3>4. p = q => Flushed(w, p)
        BY <3>1, <1>1 DEF Flushed, Parts
      <3> QED BY <3>1, <3>2, <3>3, <3>4, <1>7, <1>1 DEF UpToDate
    <2> QED BY <2>1, <2>2
  <1>8. Reached'
    <2>1. ASSUME NEW v \in subs, NEW p \in Parts, v \notin raced,
                 phase'[v] \in {"init", "flush", "clear", "run"}
          PROVE  Owed(v, p)' \/ UpToDate(v, p)'
      <3>1. v \in Workers
        BY DEF Inv, Ordering, TypeOK
      <3>2. Owed(v, p) \/ UpToDate(v, p)
        BY <2>1, <3>1, <1>1, <1>3 DEF Inv, Reached
      <3>3. UpToDate(v, p) => UpToDate(v, p)'
        <4>1. CASE v = w
          BY <4>1, <1>7
        <4>2. CASE v # w
          BY <4>2, <3>1, <1>1, <1>3, <1>6 DEF UpToDate, Flushed
        <4> QED BY <4>1, <4>2
      <3>4. Owed(v, p)' = Owed(v, p)
        BY <1>1 DEF Owed, callVars
      <3> QED BY <3>2, <3>3, <3>4
    <2> QED BY <2>1, <1>1 DEF Reached
  <1> QED BY <1>4, <1>5, <1>8

LEMMA StepInv == Inv /\ [Next]_vars => Inv'
  <1> SUFFICES ASSUME Inv, [Next]_vars PROVE Inv'
    OBVIOUS
  <1>1. Ordering'
    BY StepOrdering DEF Inv
  <1>2. CASE \/ \E p \in Parts : Edit(p)
             \/ Fetch \/ FetchMalformed \/ UNCHANGED vars
    <2>1. UNCHANGED <<last, subs, callVars, workerVars, raced>>
      BY <1>2 DEF Edit, Fetch, FetchMalformed, vars, pollerVars
    <2> QED BY <2>1, <1>1, QuietReached DEF Inv
  <1>3. CASE Compare
    BY <1>3, <1>1, CompareReached DEF Inv
  <1>4. CASE \E k \in Callers : Callback(k)
    BY <1>4, <1>1, EnterReached, ApplyReached DEF Callback, Inv
  <1>5. CASE \E w \in Workers : StartWorker(w) \/ Subscribe(w)
                  \/ Unsubscribe(w) \/ WorkerInit(w) \/ InitFails(w)
    BY <1>5, <1>1, SubscribeReached, StartReached, BuildReached, FlushReached
       DEF WorkerInit, Inv
  <1> QED BY <1>2, <1>3, <1>4, <1>5 DEF Next, Poll

LEMMA Invariance == SafetySpec => []Inv
  <1>1. Init => Inv
    BY InitOrdering, InitReached DEF Inv
  <1> QED BY <1>1, StepInv, PTL DEF SafetySpec

\* Every subscribed worker that no callback raced runs on the config fetched
\* last, whenever no callback is under way.
THEOREM UnracedRunsOnLast == SafetySpec => []UnracedOnLast
  <1>1. Inv => UnracedOnLast
    <2> SUFFICES ASSUME Inv, Settled, NEW w \in subs,
                        phase[w] = "run", w \notin raced
                 PROVE  scorer[w] = last
      BY DEF UnracedOnLast
    <2>1. \A p \in Parts : ~Owed(w, p)
      BY DEF Settled, Quiet, Owed
    <2>2. \A p \in Parts : scorer[w][p] = last[p]
      BY <2>1 DEF Inv, Reached, UpToDate, Flushed
    <2>3. /\ scorer[w] \in [Parts -> Versions \cup {Unset}]
          /\ last \in [Parts -> Versions \cup {Unset}]
      BY DEF Inv, Ordering, TypeOK
    <2> QED BY <2>2, <2>3
  <1> QED BY <1>1, Invariance, PTL
=============================================================================
