----------------------------- MODULE StaffVotes -----------------------------
(***************************************************************************)
(* Who is staff, on one camera (live_worker/staff.py): sightings of the    *)
(* badge color are counted per track, a candidate is put to the VLM once,  *)
(* and the first of the VLM's answer and enough sightings decides.         *)
(*                                                                         *)
(* Three threads: the camera's own (observe, one track per step, and       *)
(* prune), the VLM gate's (_VlmGate._run), and the config poller, which    *)
(* sets the badge color.  A color change starts a new gate; the old gate's *)
(* thread lives on, but nothing reads its verdicts, so it leaves the model.*)
(***************************************************************************)
EXTENDS Integers, Sequences, FiniteSets

CONSTANTS Tracks, Colors,
          Off,            \* no badge color, or one that does not parse
          EveryN, MaxPerFrame, MinHits, ColorOnlyHits, MaxAttempts,
          QueueSize,      \* of the gate: 8
          MaxFrame        \* bound on the frames analysed

ASSUME VotesAssumption ==
    /\ Off \notin Colors
    /\ EveryN \in Nat \ {0} /\ MaxPerFrame \in Nat \ {0}
    /\ MinHits \in Nat \ {0}
    /\ ColorOnlyHits \in Nat /\ ColorOnlyHits >= MinHits
    /\ MaxAttempts \in Nat /\ QueueSize \in Nat /\ MaxFrame \in Nat
    /\ IsFiniteSet(Tracks)

Undecided == "undecided"
Staff     == "staff"
NotStaff  == "not staff"
Idle      == "idle"           \* the gate's thread waits for a question
None      == "none"

\* What a chest crop shows: no saturation, enough pixels of the color in effect, or
\* neither.
Sights == {"gray", "hit", "miss"}

\* The VLM's word on the badge, or none: it cannot be reached, or is not understood.
Badges == {None, Staff, NotStaff}

Never == 0 - EveryN           \* _TrackState.last_attempt_frame before the first

TrackState ==
    [hits : Nat, attempts : Nat, last : {Never} \cup 0..MaxFrame,
     locked : {Undecided, Staff, NotStaff}, asked : BOOLEAN]

\* A track without a state is in the state observe() would give it.
Fresh == [hits |-> 0, attempts |-> 0, last |-> Never, locked |-> Undecided,
          asked |-> FALSE]

VARIABLES
    spec,        \* what the configuration says: store_color or the central one
    color,       \* _color_spec and _hsv: the color in effect
    st,          \* _states
    frame,       \* _frames_processed
    view,        \* the tracks of the current frame
    todo,        \* due[:max_per_frame], what is left of it
    gate,        \* _gate: its color, queue, question in flight and verdicts
    basis,       \* history: per track, what decided it
    shown,       \* history: per track, the colors seen on it
    ahead        \* history: per track, those sampled since it was, in later frames

vars == <<spec, color, st, frame, view, todo, gate, basis, shown, ahead>>

NewGate(c) ==
    [color |-> c, queue |-> <<>>, asking |-> Idle, verdict |-> [t \in Tracks |-> None]]

TypeOK ==
    /\ spec \in Colors \cup {Off} /\ color \in Colors \cup {Off}
    /\ st \in [Tracks -> TrackState]
    /\ frame \in 0..MaxFrame
    /\ view \subseteq Tracks /\ todo \subseteq view
    /\ gate \in [color : Colors \cup {Off}, queue : Seq(Tracks),
                 asking : Tracks \cup {Idle},
                 verdict : [Tracks -> {None, Staff, NotStaff}]]
    /\ Len(gate.queue) <= QueueSize
    /\ basis \in [Tracks -> {None, "sight"} \cup (Colors \cup {Off})]
    /\ shown \in [Tracks -> SUBSET Colors]
    /\ ahead \in [Tracks -> SUBSET Tracks]

Init ==
    /\ spec \in Colors \cup {Off} /\ color = Off
    /\ st = [t \in Tracks |-> Fresh]
    /\ frame = 0 /\ view = {} /\ todo = {}
    /\ gate = NewGate(Off)
    /\ basis = [t \in Tracks |-> None]
    /\ shown = [t \in Tracks |-> {}]
    /\ ahead = [t \in Tracks |-> {}]

-----------------------------------------------------------------------------
(* The camera's thread.                                                    *)

Eligible(s) == s.locked = Undecided /\ s.attempts < MaxAttempts

Due(s, f) == Eligible(s) /\ f - s.last >= EveryN

\* Mutant of Chosen: without the sort, the first of the frame's detections.
ChosenInOrder(due, table, S) ==
    /\ S \subseteq due
    /\ Cardinality(S) <= MaxPerFrame
    /\ Cardinality(S) < MaxPerFrame => S = due

\* The sample of a frame: the due tracks longest not attempted.
Chosen(due, table, S) ==
    /\ ChosenInOrder(due, table, S)
    /\ \A t \in S, u \in due \ S : table[t].last <= table[u].last

\* Mutant of Polled: the verdict settles the track whatever settled it before.
PolledAnyway(v) ==
    {t \in v : st[t].asked /\ gate.color # Off /\ gate.verdict[t] # None}

\* Verdicts that have come in for tracks in view are taken.
Polled(v) ==
    {t \in v : /\ st[t].locked = Undecided /\ st[t].asked
               /\ gate.color # Off /\ gate.verdict[t] # None}

\* Mutant of GateFor: the gate in place keeps serving.
KeptGate(c) == IF gate.color = Off /\ c # Off THEN NewGate(c) ELSE gate

\* The gate after a change to color c; an inactive color leaves the old one.
GateFor(c) == IF c = Off THEN gate ELSE NewGate(c)

\* observe() finds another color configured: all votes go.
Resync(v) ==
    /\ spec # color
    /\ color' = spec
    /\ gate' = GateFor(spec)
    /\ st' = [t \in Tracks |-> Fresh]
    /\ \/ spec = Off /\ todo' = {}
       \/ spec # Off /\ \E S \in SUBSET v : Chosen(v, st', S) /\ todo' = S
    /\ basis' = [t \in Tracks |-> None]
    /\ shown' = [t \in Tracks |-> {}]
    /\ ahead' = [t \in Tracks |-> {}]

\* The color is as before: poll, then choose whom to sample.
Observe(v) ==
    /\ spec = color /\ color # Off
    /\ st' = [t \in Tracks |-> IF t \in Polled(v)
                               THEN [st[t] EXCEPT !.locked = gate.verdict[t]]
                               ELSE st[t]]
    /\ gate' = [gate EXCEPT !.verdict =
                    [t \in Tracks |-> IF t \in Polled(v) THEN None ELSE @[t]]]
    /\ basis' = [t \in Tracks |-> IF t \in Polled(v) THEN gate.color ELSE basis[t]]
    /\ LET due == {t \in v : Due(st'[t], frame + 1)}
       IN  \E S \in SUBSET due : Chosen(due, st', S) /\ todo' = S
    /\ ahead' = [t \in Tracks |-> IF t \in v THEN ahead[t] ELSE {}]
    /\ UNCHANGED <<color, shown>>

\* A frame with the tracks v begins, once the one before is through.
BeginFrame(v) ==
    /\ todo = {} /\ frame < MaxFrame
    /\ frame' = frame + 1
    /\ view' = v
    /\ \/ Resync(v)
       \/ Observe(v)
       \/ /\ spec = Off /\ color = Off
          /\ UNCHANGED <<color, st, todo, gate, basis, shown, ahead>>
    /\ UNCHANGED spec

\* Mutant of Room: the queue is not bounded.
RoomAlways == TRUE

\* put_nowait does not find the gate's queue full.
Room == Len(gate.queue) < QueueSize

\* Color evidence alone decides.
Confirmed(sight, hits) == sight = "hit" /\ hits >= ColorOnlyHits

\* The track is attempted: submitted to the gate once it is a candidate and there
\* is a picture and room, or else judged by its color.
Sample(t, sight, jpeg) ==
    LET s    == st[t]
        hits == IF sight = "miss" THEN s.hits ELSE s.hits + 1
        tried == [s EXCEPT !.hits = hits, !.attempts = s.attempts + 1,
                           !.last = frame]
        asks == /\ sight # "miss" /\ hits >= MinHits
                /\ gate.color # Off /\ ~s.asked
                /\ jpeg /\ Room
    IN  /\ t \in todo
        /\ \A u \in todo : s.last <= st[u].last
        /\ todo' = todo \ {t}
        /\ shown' = [shown EXCEPT ![t] = IF sight = "hit" THEN @ \cup {color} ELSE @]
        /\ ahead' = [u \in Tracks |-> IF u = t THEN {}
                                      ELSE IF u \in view /\ st[u].last < frame
                                           THEN ahead[u] \cup {t} ELSE ahead[u]]
        /\ \/ /\ asks
              /\ st' = [st EXCEPT ![t] = [tried EXCEPT !.asked = TRUE]]
              /\ gate' = [gate EXCEPT !.queue = Append(@, t)]
              /\ UNCHANGED basis
           \/ /\ ~asks /\ Confirmed(sight, hits)
              /\ st' = [st EXCEPT ![t] = [tried EXCEPT !.locked = Staff]]
              /\ basis' = [basis EXCEPT ![t] = "sight"]
              /\ UNCHANGED gate
           \/ /\ ~asks /\ ~Confirmed(sight, hits)
              /\ st' = [st EXCEPT ![t] = tried]
              /\ UNCHANGED <<gate, basis>>
        /\ UNCHANGED <<spec, color, frame, view>>

\* A track out of view for the TTL is forgotten (how long is left open); its
\* question and its verdict stay with the gate.
Prune(t) ==
    /\ todo = {} /\ t \notin view /\ st[t] # Fresh
    /\ st' = [st EXCEPT ![t] = Fresh]
    /\ basis' = [basis EXCEPT ![t] = None]
    /\ shown' = [shown EXCEPT ![t] = {}]
    /\ ahead' = [u \in Tracks |-> IF u = t THEN {} ELSE ahead[u] \ {t}]
    /\ UNCHANGED <<spec, color, frame, view, todo, gate>>

-----------------------------------------------------------------------------
(* The gate's thread and the poller.                                       *)

TakeQuestion ==
    /\ gate.asking = Idle /\ gate.queue # <<>>
    /\ gate' = [gate EXCEPT !.asking = Head(gate.queue), !.queue = Tail(@)]
    /\ UNCHANGED <<spec, color, st, frame, view, todo, basis, shown, ahead>>

\* The VLM answers or, with None, does not.
Reply(badge) ==
    /\ gate.asking # Idle
    /\ gate' = [gate EXCEPT !.asking = Idle,
                    !.verdict = IF badge = None THEN gate.verdict
                                ELSE [gate.verdict EXCEPT ![gate.asking] = badge]]
    /\ UNCHANGED <<spec, color, st, frame, view, todo, basis, shown, ahead>>

SetColor(c) ==
    /\ c # spec
    /\ spec' = c
    /\ UNCHANGED <<color, st, frame, view, todo, gate, basis, shown, ahead>>

Next ==
    \/ \E v \in SUBSET Tracks : BeginFrame(v)
    \/ \E t \in Tracks, sight \in Sights, jpeg \in BOOLEAN :
          Sample(t, sight, jpeg)
    \/ \E t \in Tracks : Prune(t)
    \/ TakeQuestion
    \/ \E badge \in Badges : Reply(badge)
    \/ \E c \in Colors \cup {Off} : SetColor(c)

Spec == Init /\ [][Next]_vars

-----------------------------------------------------------------------------
(* Properties.                                                             *)

\* Nobody is staff but on the VLM's word about the badge color in effect (a reply
\* about the color of before, however late, counts for nothing), or after enough
\* sightings of which one at least showed that color: grayscale frames alone never
\* make staff (staff.py observe, _sync_color).
StaffJustified ==
    \A t \in Tracks : st[t].locked = Staff =>
        \/ basis[t] = color
        \/ basis[t] = "sight" /\ color \in shown[t] /\ st[t].hits >= ColorOnlyHits

\* "Oldest-attempt-first so a busy frame round-robins fairly": while a track waits
\* in view, no other is sampled a second time before it is.
NobodyOvertaken ==
    \A t \in todo, u \in view :
        t \in ahead[u] /\ Eligible(st[u]) => u \in todo

\* A decision about a track in view is final until the badge color changes: a VLM
\* reply that comes after a lock, or a second one, turns nothing round.
DecisionFinal ==
    [][\A t \in Tracks :
         st[t].locked # Undecided =>
            \/ st'[t].locked = st[t].locked
            \/ color' # color
            \/ t \notin view]_vars
=============================================================================
