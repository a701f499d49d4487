-------------------------- MODULE StaffVotesProofs --------------------------
(***************************************************************************)
(* Proofs about StaffVotes for any tracks, colors and limits.              *)
(***************************************************************************)
EXTENDS StaffVotes, TLAPS

\* A sampled track in the state Sample gives it.
Tried(t, hits) ==
    [st[t] EXCEPT !.hits = hits, !.attempts = st[t].attempts + 1, !.last = frame]

HitsAfter(t, sight) == IF sight = "miss" THEN st[t].hits ELSE st[t].hits + 1

\* A state that Sample gives has the type.
LEMMA TriedTyped ==
    ASSUME TypeOK, NEW t \in Tracks, NEW sight \in Sights
    PROVE  /\ HitsAfter(t, sight) \in Nat
           /\ Tried(t, HitsAfter(t, sight)) \in TrackState
           /\ [Tried(t, HitsAfter(t, sight)) EXCEPT !.asked = TRUE] \in TrackState
           /\ [Tried(t, HitsAfter(t, sight)) EXCEPT !.locked = Staff] \in TrackState
<1>1. st[t] \in TrackState  BY DEF TypeOK
<1>2. st[t].hits \in Nat /\ st[t].attempts \in Nat  BY <1>1 DEF TrackState
<1>3. HitsAfter(t, sight) \in Nat  BY <1>2 DEF HitsAfter
<1>4. frame \in {Never} \cup 0..MaxFrame  BY DEF TypeOK
<1>5. st[t].attempts + 1 \in Nat  BY <1>2
<1>6. Tried(t, HitsAfter(t, sight)) \in TrackState
  BY <1>1, <1>3, <1>4, <1>5 DEF Tried, TrackState
<1>7. QED  BY <1>3, <1>6 DEF TrackState

LEMMA FreshTyped == Fresh \in TrackState
BY DEF Fresh, TrackState

LEMMA NewGateTyped ==
    ASSUME NEW c \in Colors \cup {Off}
    PROVE  /\ NewGate(c) \in [color : Colors \cup {Off}, queue : Seq(Tracks),
                              asking : Tracks \cup {Idle},
                              verdict : [Tracks -> {None, Staff, NotStaff}]]
           /\ NewGate(c).queue = <<>> /\ NewGate(c).color = c
           /\ NewGate(c).verdict = [t \in Tracks |-> None]
<1>1. <<>> \in Seq(Tracks)  OBVIOUS
<1>2. QED  BY <1>1 DEF NewGate

\* What Resync chooses the color to be is in effect in the gate, unless it is Off.
LEMMA GateTyped ==
    ASSUME TypeOK, NEW c \in Colors \cup {Off}
    PROVE  /\ GateFor(c) \in [color : Colors \cup {Off}, queue : Seq(Tracks),
                              asking : Tracks \cup {Idle},
                              verdict : [Tracks -> {None, Staff, NotStaff}]]
           /\ Len(GateFor(c).queue) <= QueueSize
           /\ c # Off => GateFor(c).color = c
<1>1. QueueSize \in Nat  BY VotesAssumption DEF VotesAssumption
<1>2. CASE c = Off  BY <1>2 DEF GateFor, TypeOK
<1>3. CASE c # Off
  <2>1. GateFor(c) = NewGate(c)  BY <1>3 DEF GateFor
  <2>2. Len(<<>>) = 0  OBVIOUS
  <2>3. QED  BY <2>1, <2>2, <1>1, NewGateTyped
<1>4. QED  BY <1>2, <1>3

-----------------------------------------------------------------------------
(* The inductive invariant.                                                *)

\* Nobody was attempted after the present frame.
LastInPast == \A t \in Tracks : st[t].last <= frame

\* Without a color nobody is sampled; with one, the gate asks about it.
ColorSynced ==
    /\ color = Off => todo = {}
    /\ color # Off => gate.color = color

\* Who waits to be sampled is undecided.
TodoUndecided == \A t \in todo : st[t].locked = Undecided

\* Those sampled since a track was have a later frame to show for it.
AheadIsLater == \A u \in Tracks : \A t \in ahead[u] : st[u].last < st[t].last

\* The sample is closed under longer waiting.
OldestFirst ==
    \A t \in todo, u \in view :
        Eligible(st[u]) /\ st[u].last < st[t].last => u \in todo

IInv ==
    /\ TypeOK
    /\ LastInPast /\ ColorSynced /\ TodoUndecided /\ AheadIsLater /\ OldestFirst
    /\ StaffJustified

\* What a track that is still to be sampled tells: neither it nor its lists are odd.
LEMMA LastIsInt ==
    ASSUME TypeOK, NEW t \in Tracks
    PROVE  st[t].last \in Int /\ Fresh.last \in Int /\ Fresh.last <= frame
<1>1. st[t].last \in {Never} \cup 0..MaxFrame  BY DEF TypeOK, TrackState
<1>2. EveryN \in Nat /\ MaxFrame \in Nat  BY VotesAssumption DEF VotesAssumption
<1>3. frame \in Nat  BY <1>2 DEF TypeOK
<1>4. QED  BY <1>1, <1>2, <1>3 DEF Never, Fresh

LEMMA InitInv == Init => IInv
<1> SUFFICES ASSUME Init PROVE IInv  OBVIOUS
<1>0. EveryN \in Nat /\ MaxFrame \in Nat /\ QueueSize \in Nat
  BY VotesAssumption DEF VotesAssumption
<1>1. TypeOK
  <2>1. Off \in Colors \cup {Off}  OBVIOUS
  <2>2. st \in [Tracks -> TrackState]  BY FreshTyped DEF Init
  <2>3. frame \in 0..MaxFrame /\ view = {} /\ todo = {}  BY <1>0 DEF Init
  <2>4. Len(<<>>) = 0  OBVIOUS
  <2>5. QED
    BY <1>0, <2>1, <2>2, <2>3, <2>4, NewGateTyped DEF Init, TypeOK
<1>2. \A t \in Tracks : st[t] = Fresh  BY DEF Init
<1>3. LastInPast  BY <1>1, <1>2, LastIsInt DEF LastInPast
<1>4. ColorSynced /\ TodoUndecided /\ AheadIsLater /\ OldestFirst
  BY DEF Init, ColorSynced, TodoUndecided, AheadIsLater, OldestFirst
<1>5. StaffJustified
  BY <1>2 DEF StaffJustified, Fresh, Undecided, Staff
<1>6. QED  BY <1>1, <1>3, <1>4, <1>5 DEF IInv

-----------------------------------------------------------------------------
(* One lemma per action.                                                   *)

\* The frame moves on and the view is the new one.
LEMMA FrameStep ==
    ASSUME TypeOK, NEW v \in SUBSET Tracks, BeginFrame(v)
    PROVE  /\ frame' = frame + 1 /\ frame \in Nat /\ frame' \in 0..MaxFrame
           /\ view' = v /\ view' \subseteq Tracks
           /\ spec' = spec /\ todo = {}
<1>1. MaxFrame \in Nat /\ frame \in 0..MaxFrame
  BY VotesAssumption DEF VotesAssumption, TypeOK
<1>2. QED  BY <1>1 DEF BeginFrame

LEMMA ResyncInv ==
    ASSUME IInv, NEW v \in SUBSET Tracks, BeginFrame(v), Resync(v)
    PROVE  IInv'
<1> USE DEF IInv
<1>0. /\ frame' = frame + 1 /\ frame \in Nat /\ frame' \in 0..MaxFrame
      /\ view' = v /\ view' \subseteq Tracks /\ spec' = spec
  BY FrameStep
<1>1. /\ color' = spec /\ spec \in Colors \cup {Off}
      /\ st' = [t \in Tracks |-> Fresh] /\ gate' = GateFor(spec)
      /\ basis' = [t \in Tracks |-> None] /\ shown' = [t \in Tracks |-> {}]
      /\ ahead' = [t \in Tracks |-> {}]
  BY DEF Resync, TypeOK
<1>2. todo' \subseteq v /\ (spec = Off => todo' = {})  BY DEF Resync
<1>3. TypeOK'
  <2>1. st' \in [Tracks -> TrackState]  BY <1>1, FreshTyped
  <2>2. /\ gate' \in [color : Colors \cup {Off}, queue : Seq(Tracks),
                       asking : Tracks \cup {Idle},
                       verdict : [Tracks -> {None, Staff, NotStaff}]]
        /\ Len(gate'.queue) <= QueueSize
    BY <1>1, GateTyped
  <2>3. QED  BY <1>0, <1>1, <1>2, <2>1, <2>2 DEF TypeOK
<1>4. \A t \in Tracks : st'[t] = Fresh /\ ahead'[t] = {}  BY <1>1
<1>5. LastInPast'
  <2> SUFFICES ASSUME NEW t \in Tracks PROVE st'[t].last <= frame'
    BY DEF LastInPast
  <2>1. Fresh.last \in Int /\ Fresh.last <= frame  BY LastIsInt
  <2>2. QED  BY <1>0, <1>4, <2>1
<1>6. ColorSynced'  BY <1>1, <1>2, GateTyped DEF ColorSynced
<1>7. TodoUndecided'  BY <1>2, <1>4 DEF TodoUndecided, Fresh
<1>8. AheadIsLater'  BY <1>4 DEF AheadIsLater
<1>9. OldestFirst'
  <2> SUFFICES ASSUME NEW t \in todo', NEW u \in view', st'[u].last < st'[t].last
               PROVE  FALSE
    BY DEF OldestFirst
  <2>1. st'[t] = Fresh /\ st'[u] = Fresh  BY <1>0, <1>2, <1>4
  <2>2. t \in Tracks  BY <1>2
  <2>3. Fresh.last \in Int  BY <2>2, LastIsInt
  <2>4. QED  BY <2>1, <2>3
<1>10. StaffJustified'
  BY <1>4 DEF StaffJustified, Fresh, Undecided, Staff
<1>11. QED  BY <1>3, <1>5, <1>6, <1>7, <1>8, <1>9, <1>10

\* What polling does to the state of a track.
LEMMA ObserveStates ==
    ASSUME TypeOK, NEW v \in SUBSET Tracks, Observe(v), NEW t \in Tracks
    PROVE  /\ t \notin Polled(v) => st'[t] = st[t] /\ basis'[t] = basis[t]
           /\ t \in Polled(v) =>
                /\ st'[t] = [st[t] EXCEPT !.locked = gate.verdict[t]]
                /\ st[t].locked = Undecided
                /\ gate.verdict[t] \in {Staff, NotStaff}
                /\ basis'[t] = gate.color
           /\ st'[t].last = st[t].last /\ st'[t].attempts = st[t].attempts
           /\ st'[t] \in TrackState
<1>1. st[t] \in TrackState /\ gate.verdict[t] \in {None, Staff, NotStaff}
  BY DEF TypeOK
<1>2. CASE t \notin Polled(v)  BY <1>1, <1>2 DEF Observe
<1>3. CASE t \in Polled(v)
  <2>1. st'[t] = [st[t] EXCEPT !.locked = gate.verdict[t]]
    BY <1>3 DEF Observe
  <2>2. st[t].locked = Undecided /\ gate.verdict[t] \in {Staff, NotStaff}
    BY <1>1, <1>3 DEF Polled
  <2>3. basis'[t] = gate.color  BY <1>3 DEF Observe
  <2>4. st'[t] \in TrackState  BY <1>1, <2>1, <2>2 DEF TrackState
  <2>5. st'[t].last = st[t].last /\ st'[t].attempts = st[t].attempts
    BY <1>1, <2>1 DEF TrackState
  <2>6. QED  BY <1>3, <2>1, <2>2, <2>3, <2>4, <2>5
<1>4. QED  BY <1>2, <1>3

LEMMA ObserveInv ==
    ASSUME IInv, NEW v \in SUBSET Tracks, BeginFrame(v), Observe(v)
    PROVE  IInv'
<1> USE DEF IInv
<1>0. /\ frame' = frame + 1 /\ frame \in Nat /\ frame' \in 0..MaxFrame
      /\ view' = v /\ view' \subseteq Tracks /\ spec' = spec
  BY FrameStep
<1>1. color' = color /\ shown' = shown /\ color # Off  BY DEF Observe
<1>2. gate.color = color /\ gate'.color = color
  BY <1>1 DEF ColorSynced, Observe, TypeOK
<1>3. PICK S \in SUBSET {t \in v : Due(st'[t], frame + 1)} :
        Chosen({t \in v : Due(st'[t], frame + 1)}, st', S) /\ todo' = S
  BY DEF Observe
<1>4. \A t \in todo' : t \in v /\ Due(st'[t], frame + 1)  BY <1>3
<1>5. TypeOK'
  <2>1. st' \in [Tracks -> TrackState]
    <3>1. \A t \in Tracks : st'[t] \in TrackState  BY ObserveStates
    <3>2. st' = [t \in Tracks |-> st'[t]]  BY DEF Observe
    <3>3. QED  BY <3>1, <3>2
  <2>2. basis' \in [Tracks -> {None, "sight"} \cup (Colors \cup {Off})]
    BY DEF Observe, TypeOK
  <2>3. /\ gate' \in [color : Colors \cup {Off}, queue : Seq(Tracks),
                       asking : Tracks \cup {Idle},
                       verdict : [Tracks -> {None, Staff, NotStaff}]]
        /\ Len(gate'.queue) <= QueueSize
    BY DEF Observe, TypeOK
  <2>4. ahead' \in [Tracks -> SUBSET Tracks]  BY DEF Observe, TypeOK
  <2>5. todo' \subseteq view'  BY <1>0, <1>4
  <2>6. QED  BY <1>0, <1>1, <2>1, <2>2, <2>3, <2>4, <2>5 DEF TypeOK
<1>6. \A t \in Tracks : st'[t].last = st[t].last /\ st[t].last \in Int
  BY ObserveStates, LastIsInt
<1>7. LastInPast'  BY <1>0, <1>6 DEF LastInPast
<1>8. ColorSynced'  BY <1>1, <1>2 DEF ColorSynced
<1>9. TodoUndecided'  BY <1>4 DEF TodoUndecided, Due, Eligible
<1>10. AheadIsLater'
  <2> SUFFICES ASSUME NEW u \in Tracks, NEW t \in ahead'[u]
               PROVE  st'[u].last < st'[t].last
    BY DEF AheadIsLater
  <2>1. t \in ahead[u]  BY DEF Observe
  <2>2. t \in Tracks  BY <2>1 DEF TypeOK
  <2>3. QED  BY <1>6, <2>1, <2>2 DEF AheadIsLater
<1>11. OldestFirst'
  <2> SUFFICES ASSUME NEW t \in todo', NEW u \in view', Eligible(st'[u]),
                      st'[u].last < st'[t].last, u \notin todo'
               PROVE  FALSE
    BY DEF OldestFirst
  <2>1. t \in Tracks /\ u \in Tracks /\ u \in v  BY <1>0, <1>4
  <2>2. st'[t].last \in Int /\ st'[u].last \in Int  BY <1>6, <2>1
  <2>3. EveryN \in Nat  BY VotesAssumption DEF VotesAssumption
  <2>4. (frame + 1) - st'[t].last >= EveryN  BY <1>4 DEF Due
  <2>5. (frame + 1) - st'[u].last >= EveryN  BY <1>0, <2>2, <2>3, <2>4
  <2>6. u \in {w \in v : Due(st'[w], frame + 1)} \ S
    BY <1>3, <2>1, <2>5 DEF Due
  <2>7. st'[t].last <= st'[u].last  BY <1>3, <2>6 DEF Chosen
  <2>8. QED  BY <2>2, <2>7
<1>12. StaffJustified'
  <2> SUFFICES ASSUME NEW t \in Tracks, st'[t].locked = Staff
               PROVE  \/ basis'[t] = color'
                      \/ /\ basis'[t] = "sight" /\ color' \in shown'[t]
                         /\ st'[t].hits >= ColorOnlyHits
    BY DEF StaffJustified
  <2>1. CASE t \in Polled(v)  BY <1>1, <1>2, <2>1, ObserveStates
  <2>2. CASE t \notin Polled(v)
    <3>1. st'[t] = st[t] /\ basis'[t] = basis[t]  BY <2>2, ObserveStates
    <3>2. QED  BY <1>1, <3>1 DEF StaffJustified
  <2>3. QED  BY <2>1, <2>2
<1>13. QED
  BY <1>5, <1>7, <1>8, <1>9, <1>10, <1>11, <1>12

\* The fallback of BeginFrame: there is no color, and was none.
LEMMA BlankInv ==
    ASSUME IInv, NEW v \in SUBSET Tracks, BeginFrame(v), spec = Off, color = Off,
           UNCHANGED <<color, st, todo, gate, basis, shown, ahead>>
    PROVE  IInv'
<1> USE DEF IInv
<1>0. /\ frame' = frame + 1 /\ frame \in Nat /\ frame' \in 0..MaxFrame
      /\ view' = v /\ view' \subseteq Tracks /\ spec' = spec /\ todo = {}
  BY FrameStep
<1>1. TypeOK'  BY <1>0 DEF TypeOK
<1>2. LastInPast'
  <2> SUFFICES ASSUME NEW t \in Tracks PROVE st'[t].last <= frame'
    BY DEF LastInPast
  <2>1. st[t].last \in Int /\ st[t].last <= frame  BY LastIsInt DEF LastInPast
  <2>2. QED  BY <1>0, <2>1
<1>3. ColorSynced' /\ TodoUndecided' /\ AheadIsLater' /\ OldestFirst'
  BY <1>0 DEF ColorSynced, TodoUndecided, AheadIsLater, OldestFirst
<1>4. StaffJustified'  BY DEF StaffJustified
<1>5. QED  BY <1>1, <1>2, <1>3, <1>4

\* What sampling does to the track sampled, and that the others keep their state.
LEMMA SampleStates ==
    ASSUME IInv, NEW t \in Tracks, NEW sight \in Sights, NEW jpeg \in BOOLEAN,
           Sample(t, sight, jpeg)
    PROVE  /\ t \in todo /\ todo' = todo \ {t} /\ color # Off
           /\ st'[t] \in TrackState /\ st'[t].last = frame
           /\ \/ st'[t].locked = Undecided /\ basis' = basis
              \/ /\ sight = "hit" /\ st'[t].hits >= ColorOnlyHits
                 /\ basis' = [basis EXCEPT ![t] = "sight"]
           /\ \A u \in Tracks : u # t => st'[u] = st[u]
           /\ st' \in [Tracks -> TrackState]
<1> USE DEF IInv
<1> DEFINE hits == HitsAfter(t, sight)
           tried == Tried(t, hits)
           asks == /\ sight # "miss" /\ hits >= MinHits
                   /\ gate.color # Off /\ ~st[t].asked
                   /\ jpeg /\ Room
<1>1. t \in todo /\ todo' = todo \ {t} /\ color # Off
  BY DEF Sample, ColorSynced
<1>2. st[t] \in TrackState /\ st[t].locked = Undecided /\ st \in [Tracks -> TrackState]
  BY <1>1 DEF TypeOK, TodoUndecided
<1>3. /\ hits \in Nat /\ tried \in TrackState
      /\ [tried EXCEPT !.asked = TRUE] \in TrackState
      /\ [tried EXCEPT !.locked = Staff] \in TrackState
  BY TriedTyped
<1>4. tried.hits = hits /\ tried.locked = Undecided /\ tried.last = frame
  BY <1>2 DEF TrackState, Tried
<1>5. \/ st' = [st EXCEPT ![t] = [tried EXCEPT !.asked = TRUE]] /\ basis' = basis
      \/ /\ Confirmed(sight, hits)
         /\ st' = [st EXCEPT ![t] = [tried EXCEPT !.locked = Staff]]
         /\ basis' = [basis EXCEPT ![t] = "sight"]
      \/ st' = [st EXCEPT ![t] = tried] /\ basis' = basis
  BY DEF Sample, Tried, HitsAfter
<1> HIDE DEF hits, tried
<1>6. CASE st' = [st EXCEPT ![t] = [tried EXCEPT !.asked = TRUE]] /\ basis' = basis
  <2>1. st'[t] = [tried EXCEPT !.asked = TRUE]  BY <1>2, <1>6
  <2>2. st'[t].last = frame /\ st'[t].locked = Undecided
    BY <1>3, <1>4, <2>1 DEF TrackState
  <2>3. QED  BY <1>1, <1>2, <1>3, <1>6, <2>1, <2>2
<1>7. CASE /\ Confirmed(sight, hits)
           /\ st' = [st EXCEPT ![t] = [tried EXCEPT !.locked = Staff]]
           /\ basis' = [basis EXCEPT ![t] = "sight"]
  <2>1. st'[t] = [tried EXCEPT !.locked = Staff]  BY <1>2, <1>7
  <2>2. st'[t].last = frame /\ st'[t].hits = hits
    BY <1>3, <1>4, <2>1 DEF TrackState
  <2>3. sight = "hit" /\ hits >= ColorOnlyHits  BY <1>7 DEF Confirmed
  <2>4. QED  BY <1>1, <1>2, <1>3, <1>7, <2>1, <2>2, <2>3
<1>8. CASE st' = [st EXCEPT ![t] = tried] /\ basis' = basis
  <2>1. st'[t] = tried  BY <1>2, <1>8
  <2>2. QED  BY <1>1, <1>2, <1>3, <1>4, <1>8, <2>1
<1>9. QED  BY <1>5, <1>6, <1>7, <1>8

\* The gate's queue grows by the track, when there is room.
LEMMA SampleGate ==
    ASSUME IInv, NEW t \in Tracks, NEW sight \in Sights, NEW jpeg \in BOOLEAN,
           Sample(t, sight, jpeg)
    PROVE  /\ gate' \in [color : Colors \cup {Off}, queue : Seq(Tracks),
                         asking : Tracks \cup {Idle},
                         verdict : [Tracks -> {None, Staff, NotStaff}]]
           /\ Len(gate'.queue) <= QueueSize
           /\ gate'.color = gate.color
<1>1. QueueSize \in Nat  BY VotesAssumption DEF VotesAssumption
<1>2. CASE gate' = gate  BY <1>2 DEF IInv, TypeOK
<1>3. CASE gate' = [gate EXCEPT !.queue = Append(@, t)] /\ Room
  <2>1. gate.queue \in Seq(Tracks) /\ Len(gate.queue) \in Nat
    BY DEF IInv, TypeOK
  <2>2. /\ Append(gate.queue, t) \in Seq(Tracks)
        /\ Len(Append(gate.queue, t)) = Len(gate.queue) + 1
    BY <2>1
  <2>3. Len(gate.queue) < QueueSize  BY <1>3 DEF Room
  <2>4. gate'.queue = Append(gate.queue, t)  BY <1>3 DEF IInv, TypeOK
  <2>5. Len(gate'.queue) <= QueueSize  BY <1>1, <2>1, <2>2, <2>3, <2>4
  <2>6. QED  BY <1>3, <2>2, <2>5 DEF IInv, TypeOK
<1>4. QED  BY <1>2, <1>3 DEF Sample

LEMMA SampleInv ==
    ASSUME IInv, NEW t \in Tracks, NEW sight \in Sights, NEW jpeg \in BOOLEAN,
           Sample(t, sight, jpeg)
    PROVE  IInv'
<1>0. /\ t \in todo /\ todo' = todo \ {t} /\ color # Off
      /\ st'[t] \in TrackState /\ st'[t].last = frame
      /\ \/ st'[t].locked = Undecided /\ basis' = basis
         \/ /\ sight = "hit" /\ st'[t].hits >= ColorOnlyHits
            /\ basis' = [basis EXCEPT ![t] = "sight"]
      /\ \A u \in Tracks : u # t => st'[u] = st[u]
      /\ st' \in [Tracks -> TrackState]
  BY SampleStates
<1> USE DEF IInv
<1>1. UNCHANGED <<spec, color, frame, view>>  BY DEF Sample
<1>2. shown' = [shown EXCEPT ![t] = IF sight = "hit" THEN @ \cup {color} ELSE @]
  BY DEF Sample
<1>3. ahead' = [u \in Tracks |-> IF u = t THEN {}
                                ELSE IF u \in view /\ st[u].last < frame
                                     THEN ahead[u] \cup {t} ELSE ahead[u]]
  BY DEF Sample
<1>4. frame \in Nat
  BY VotesAssumption DEF VotesAssumption, TypeOK
<1>5. \A u \in Tracks : st[u].last \in Int /\ st[u].last <= frame
  BY LastIsInt DEF LastInPast
<1>6. TypeOK'
  <2>1. shown' \in [Tracks -> SUBSET Colors]  BY <1>0, <1>2 DEF TypeOK
  <2>2. ahead' \in [Tracks -> SUBSET Tracks]  BY <1>3 DEF TypeOK
  <2>3. basis' \in [Tracks -> {None, "sight"} \cup (Colors \cup {Off})]
    BY <1>0 DEF TypeOK
  <2>4. QED  BY <1>0, <1>1, <2>1, <2>2, <2>3, SampleGate DEF TypeOK
<1>7. LastInPast'  BY <1>0, <1>1, <1>4, <1>5 DEF LastInPast
<1>8. ColorSynced'  BY <1>0, <1>1, SampleGate DEF ColorSynced
<1>9. TodoUndecided'  BY <1>0 DEF TodoUndecided, TypeOK
<1>10. AheadIsLater'
  <2> SUFFICES ASSUME NEW u \in Tracks, NEW x \in ahead'[u]
               PROVE  st'[u].last < st'[x].last
    BY DEF AheadIsLater
  <2>1. u # t  BY <1>3
  <2>2. st'[u] = st[u]  BY <1>0, <2>1
  <2>3. CASE x = t /\ x \notin ahead[u]
    <3>1. st[u].last < frame  BY <1>3, <2>1, <2>3
    <3>2. QED  BY <1>0, <2>2, <2>3, <3>1
  <2>4. CASE x = t /\ x \in ahead[u]
    <3>1. st[u].last < st[t].last  BY <2>4 DEF AheadIsLater
    <3>2. st[u].last < frame  BY <1>4, <1>5, <3>1
    <3>3. QED  BY <1>0, <2>2, <2>4, <3>2
  <2>5. CASE x # t
    <3>1. x \in ahead[u]  BY <1>3, <2>1, <2>5
    <3>2. x \in Tracks  BY <3>1 DEF TypeOK
    <3>3. st'[x] = st[x]  BY <1>0, <2>5, <3>2
    <3>4. QED  BY <2>2, <3>1, <3>3 DEF AheadIsLater
  <2>6. QED  BY <2>3, <2>4, <2>5
<1>11. OldestFirst'
  <2> SUFFICES ASSUME NEW x \in todo', NEW u \in view', Eligible(st'[u]),
                      st'[u].last < st'[x].last
               PROVE  u \in todo'
    BY DEF OldestFirst
  <2>1. x \in todo /\ x # t /\ x \in Tracks /\ u \in view /\ u \in Tracks
    BY <1>0, <1>1 DEF TypeOK
  <2>2. st'[x] = st[x] /\ st[x].last <= frame /\ st[x].last \in Int
    BY <1>0, <1>5, <2>1
  <2>3. u # t  BY <1>0, <1>4, <2>2
  <2>4. st'[u] = st[u]  BY <1>0, <2>1, <2>3
  <2>5. u \in todo  BY <2>1, <2>2, <2>4 DEF OldestFirst
  <2>6. QED  BY <1>0, <2>3, <2>5
<1>12. StaffJustified'
  <2> SUFFICES ASSUME NEW x \in Tracks, st'[x].locked = Staff
               PROVE  \/ basis'[x] = color'
                      \/ /\ basis'[x] = "sight" /\ color' \in shown'[x]
                         /\ st'[x].hits >= ColorOnlyHits
    BY DEF StaffJustified
  <2>1. CASE x = t
    <3>1. /\ sight = "hit" /\ st'[t].hits >= ColorOnlyHits
          /\ basis' = [basis EXCEPT ![t] = "sight"]
      BY <1>0, <2>1 DEF Undecided, Staff
    <3>2. basis'[t] = "sight" /\ color \in shown'[t]  BY <1>2, <3>1 DEF TypeOK
    <3>3. QED  BY <1>1, <2>1, <3>1, <3>2
  <2>2. CASE x # t
    <3>1. st'[x] = st[x] /\ basis'[x] = basis[x] /\ shown'[x] = shown[x]
      BY <1>0, <1>2, <2>2 DEF TypeOK
    <3>2. QED  BY <1>1, <3>1 DEF StaffJustified
  <2>3. QED  BY <2>1, <2>2
<1>13. QED
  BY <1>6, <1>7, <1>8, <1>9, <1>10, <1>11, <1>12

LEMMA PruneInv ==
    ASSUME IInv, NEW t \in Tracks, Prune(t)
    PROVE  IInv'
<1> USE DEF IInv
<1>1. /\ todo = {} /\ st' = [st EXCEPT ![t] = Fresh]
      /\ basis' = [basis EXCEPT ![t] = None] /\ shown' = [shown EXCEPT ![t] = {}]
      /\ ahead' = [u \in Tracks |-> IF u = t THEN {} ELSE ahead[u] \ {t}]
      /\ UNCHANGED <<spec, color, frame, view, todo, gate>>
  BY DEF Prune
<1>2. st'[t] = Fresh /\ \A u \in Tracks : u # t => st'[u] = st[u]
  BY <1>1 DEF TypeOK
<1>3. TypeOK'
  <2>1. st' \in [Tracks -> TrackState]  BY <1>1, FreshTyped DEF TypeOK
  <2>2. ahead' \in [Tracks -> SUBSET Tracks]  BY <1>1 DEF TypeOK
  <2>3. basis' \in [Tracks -> {None, "sight"} \cup (Colors \cup {Off})]
    BY <1>1 DEF TypeOK
  <2>4. shown' \in [Tracks -> SUBSET Colors]  BY <1>1 DEF TypeOK
  <2>5. QED  BY <1>1, <2>1, <2>2, <2>3, <2>4 DEF TypeOK
<1>4. LastInPast'  BY <1>1, <1>2, LastIsInt DEF LastInPast
<1>5. ColorSynced' /\ TodoUndecided' /\ OldestFirst'
  BY <1>1 DEF ColorSynced, TodoUndecided, OldestFirst
<1>6. AheadIsLater'
  <2> SUFFICES ASSUME NEW u \in Tracks, NEW x \in ahead'[u]
               PROVE  st'[u].last < st'[x].last
    BY DEF AheadIsLater
  <2>1. u # t /\ x # t /\ x \in ahead[u]  BY <1>1
  <2>2. x \in Tracks  BY <2>1 DEF TypeOK
  <2>3. QED  BY <1>2, <2>1, <2>2 DEF AheadIsLater
<1>7. StaffJustified'
  <2> SUFFICES ASSUME NEW x \in Tracks, st'[x].locked = Staff
               PROVE  \/ basis'[x] = color'
                      \/ /\ basis'[x] = "sight" /\ color' \in shown'[x]
                         /\ st'[x].hits >= ColorOnlyHits
    BY DEF StaffJustified
  <2>1. x # t  BY <1>2 DEF Fresh, Undecided, Staff
  <2>2. st'[x] = st[x] /\ basis'[x] = basis[x] /\ shown'[x] = shown[x]
    BY <1>1, <1>2, <2>1 DEF TypeOK
  <2>3. QED  BY <1>1, <2>2 DEF StaffJustified
<1>8. QED  BY <1>3, <1>4, <1>5, <1>6, <1>7

\* The gate's thread moves questions and verdicts and nothing else.
LEMMA GateThreadInv ==
    ASSUME IInv, TakeQuestion \/ \E badge \in Badges : Reply(badge)
    PROVE  IInv'
<1> USE DEF IInv
<1>1. UNCHANGED <<spec, color, st, frame, view, todo, basis, shown, ahead>>
  BY DEF TakeQuestion, Reply
<1>2. QueueSize \in Nat  BY VotesAssumption DEF VotesAssumption
<1>3. /\ gate' \in [color : Colors \cup {Off}, queue : Seq(Tracks),
                    asking : Tracks \cup {Idle},
                    verdict : [Tracks -> {None, Staff, NotStaff}]]
      /\ Len(gate'.queue) <= QueueSize /\ gate'.color = gate.color
  <2>1. CASE TakeQuestion
    <3>1. gate.queue \in Seq(Tracks) /\ gate.queue # <<>>
      BY <2>1 DEF TakeQuestion, TypeOK
    <3>2. /\ Head(gate.queue) \in Tracks /\ Tail(gate.queue) \in Seq(Tracks)
          /\ Len(Tail(gate.queue)) = Len(gate.queue) - 1
          /\ Len(gate.queue) \in Nat
      BY <3>1
    <3>3. /\ gate' = [gate EXCEPT !.asking = Head(gate.queue), !.queue = Tail(@)]
          /\ gate'.queue = Tail(gate.queue)
      BY <2>1 DEF TakeQuestion, TypeOK
    <3>4. Len(gate'.queue) <= QueueSize  BY <1>2, <3>2, <3>3 DEF TypeOK
    <3>5. QED  BY <3>2, <3>3, <3>4 DEF TypeOK
  <2>2. ASSUME NEW badge \in Badges, Reply(badge)
        PROVE  /\ gate' \in [color : Colors \cup {Off}, queue : Seq(Tracks),
                             asking : Tracks \cup {Idle},
                             verdict : [Tracks -> {None, Staff, NotStaff}]]
               /\ Len(gate'.queue) <= QueueSize /\ gate'.color = gate.color
    <3>1. gate.asking \in Tracks  BY <2>2 DEF Reply, TypeOK
    <3>2. CASE badge = None
      BY <2>2, <3>2 DEF Reply, TypeOK
    <3>3. CASE badge # None
      <4>1. [gate.verdict EXCEPT ![gate.asking] = badge]
                \in [Tracks -> {None, Staff, NotStaff}]
        BY <3>1 DEF TypeOK, Badges
      <4>2. gate' = [gate EXCEPT !.asking = Idle,
                         !.verdict = [gate.verdict EXCEPT ![gate.asking] = badge]]
        BY <2>2, <3>3 DEF Reply
      <4>3. QED  BY <4>1, <4>2 DEF TypeOK
    <3>4. QED  BY <3>2, <3>3
  <2>3. QED  BY <2>1, <2>2
<1>4. TypeOK'  BY <1>1, <1>3 DEF TypeOK
<1>5. LastInPast' /\ ColorSynced' /\ TodoUndecided' /\ AheadIsLater' /\ OldestFirst'
  BY <1>1, <1>3 DEF LastInPast, ColorSynced, TodoUndecided, AheadIsLater, OldestFirst
<1>6. StaffJustified'  BY <1>1 DEF StaffJustified
<1>7. QED  BY <1>4, <1>5, <1>6

\* Nothing but spec changes, which no part but the type mentions.
LEMMA SetColorInv ==
    ASSUME IInv, NEW c \in Colors \cup {Off}, SetColor(c)
    PROVE  IInv'
<1> USE DEF IInv
<1>1. spec' \in Colors \cup {Off}
      /\ UNCHANGED <<color, st, frame, view, todo, gate, basis, shown, ahead>>
  BY DEF SetColor
<1>2. TypeOK'  BY <1>1 DEF TypeOK
<1>3. LastInPast' /\ ColorSynced' /\ TodoUndecided' /\ AheadIsLater' /\ OldestFirst'
  BY <1>1 DEF LastInPast, ColorSynced, TodoUndecided, AheadIsLater, OldestFirst
<1>4. QED  BY <1>1, <1>2, <1>3 DEF StaffJustified

LEMMA StepInv == IInv /\ [Next]_vars => IInv'
<1> SUFFICES ASSUME IInv, [Next]_vars PROVE IInv'  OBVIOUS
<1>1. ASSUME NEW v \in SUBSET Tracks, BeginFrame(v) PROVE IInv'
  <2>1. CASE Resync(v)  BY <1>1, <2>1, ResyncInv
  <2>2. CASE Observe(v)  BY <1>1, <2>2, ObserveInv
  <2>3. CASE /\ spec = Off /\ color = Off
             /\ UNCHANGED <<color, st, todo, gate, basis, shown, ahead>>
    BY <1>1, <2>3, BlankInv
  <2>4. QED  BY <1>1, <2>1, <2>2, <2>3 DEF BeginFrame
<1>2. ASSUME NEW t \in Tracks, NEW sight \in Sights, NEW jpeg \in BOOLEAN,
             Sample(t, sight, jpeg)
      PROVE  IInv'
  BY <1>2, SampleInv
<1>3. ASSUME NEW t \in Tracks, Prune(t) PROVE IInv'  BY <1>3, PruneInv
<1>4. CASE TakeQuestion \/ \E badge \in Badges : Reply(badge)
  BY <1>4, GateThreadInv
<1>5. ASSUME NEW c \in Colors \cup {Off}, SetColor(c) PROVE IInv'
  BY <1>5, SetColorInv
<1>6. CASE UNCHANGED vars
  <2>1. UNCHANGED <<spec, color, st, frame, view, todo, gate, basis, shown, ahead>>
    BY <1>6 DEF vars
  <2>2. QED
    BY <2>1 DEF IInv, TypeOK, LastInPast, ColorSynced, TodoUndecided, AheadIsLater,
                OldestFirst, StaffJustified
<1>7. QED  BY <1>1, <1>2, <1>3, <1>4, <1>5, <1>6 DEF Next

\* The inductive invariant holds throughout.
THEOREM VotesInvariant == Spec => []IInv
<1>1. Init => IInv  BY InitInv
<1>2. IInv /\ [Next]_vars => IInv'  BY StepInv
<1>3. QED  BY <1>1, <1>2, PTL DEF Spec

-----------------------------------------------------------------------------
(* What follows from it.                                                   *)

\* Every variable keeps its type, and the gate's queue its bound (staff.py _VlmGate).
THEOREM VotesTypeCorrect == Spec => []TypeOK
<1>1. IInv => TypeOK  BY DEF IInv
<1>2. QED  BY <1>1, VotesInvariant, PTL

\* Nobody is staff but on the VLM's word about the color in effect or on enough
\* sightings of it (staff.py observe, _sync_color).
THEOREM StaffIsJustified == Spec => []StaffJustified
<1>1. IInv => StaffJustified  BY DEF IInv
<1>2. QED  BY <1>1, VotesInvariant, PTL

\* A track that waits is not overtaken by one sampled before it (staff.py observe,
\* the sort of due).
THEOREM NobodyIsOvertaken == Spec => []NobodyOvertaken
<1>1. IInv => NobodyOvertaken
  <2> SUFFICES ASSUME IInv, NEW t \in todo, NEW u \in view,
                      t \in ahead[u], Eligible(st[u])
               PROVE  u \in todo
    BY DEF NobodyOvertaken
  <2>1. u \in Tracks  BY DEF IInv, TypeOK
  <2>2. st[u].last < st[t].last  BY <2>1 DEF IInv, AheadIsLater
  <2>3. QED  BY <2>2 DEF IInv, OldestFirst
<1>2. QED  BY <1>1, VotesInvariant, PTL

\* A decision about a track in view stands until the color changes (staff.py observe,
\* poll before sample).
THEOREM DecisionsAreFinal == Spec => DecisionFinal
<1> DEFINE Final == \A t \in Tracks :
                      st[t].locked # Undecided =>
                         \/ st'[t].locked = st[t].locked
                         \/ color' # color
                         \/ t \notin view
<1>1. IInv /\ [Next]_vars => [Final]_vars
  <2> SUFFICES ASSUME IInv, Next, NEW t \in Tracks, st[t].locked # Undecided,
                      color' = color, t \in view
               PROVE  st'[t].locked = st[t].locked
    OBVIOUS
  <2>1. ASSUME NEW v \in SUBSET Tracks, BeginFrame(v)
        PROVE  st'[t].locked = st[t].locked
    <3>1. CASE Resync(v)  BY <3>1 DEF Resync
    <3>2. CASE Observe(v)
      BY <3>2, ObserveStates DEF IInv
    <3>3. CASE UNCHANGED st  BY <3>3
    <3>4. QED  BY <2>1, <3>1, <3>2, <3>3 DEF BeginFrame
  <2>2. ASSUME NEW x \in Tracks, NEW sight \in Sights, NEW jpeg \in BOOLEAN,
               Sample(x, sight, jpeg)
        PROVE  st'[t].locked = st[t].locked
    <3>1. x \in todo /\ \A u \in Tracks : u # x => st'[u] = st[u]
      BY <2>2, SampleStates
    <3>2. x # t  BY <3>1 DEF IInv, TodoUndecided
    <3>3. QED  BY <3>1, <3>2
  <2>3. ASSUME NEW x \in Tracks, Prune(x) PROVE st'[t].locked = st[t].locked
    BY <2>3 DEF Prune, IInv, TypeOK
  <2>4. ASSUME UNCHANGED st PROVE st'[t].locked = st[t].locked  BY <2>4
  <2>5. QED
    BY <2>1, <2>2, <2>3, <2>4 DEF Next, TakeQuestion, Reply, SetColor
<1>2. QED  BY <1>1, VotesInvariant, PTL DEF Spec, DecisionFinal
=============================================================================
