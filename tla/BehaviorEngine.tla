---------------------------- MODULE BehaviorEngine ----------------------------
(***************************************************************************)
(* BehaviorScorer of behavior.py for one track: the gates in front of each *)
(* criterion, the sequence engine, the episode ledger and the state        *)
(* machine.  Tracks share nothing but the lock, under which score() and    *)
(* cleanup_stale() run as a whole.                                         *)
(*                                                                         *)
(* What the geometry of a frame says is an observation.  Decay lowers the  *)
(* score and what is banked raises it, by amounts left open: no decay is   *)
(* above one and no weight is negative.  Time advances by one with every   *)
(* frame of the camera; 0 means "never".                                   *)
(***************************************************************************)
EXTENDS Naturals, Sequences, FiniteSets, SequencesExt

CONSTANTS Observations,     \* what a frame may show of the person
          ActiveRules,      \* sequence rules whose weight is not zero
          SmoothFrames, Cadence, HoldRelease,     \* counts of analyzed frames
          MinHold, Interval, MaxBanks,            \* the contact gate
          LoiterSeconds, SequenceWindow, StaleTrack,
          VisitsThreshold, EventCap,
          GreenMax, HighMax,        \* the cutoffs of the score
          MaxScore,                 \* what clamp_pct cuts it off at
          MaxTime           \* bound: frames of the camera

Smoothed == {"looking_around", "body_block", "crouch", "rapid_movement"}
Hiding == {"bag_interaction", "pocket_interaction"}
Concealing == Hiding \cup {"wrist_to_torso"}
Keys == Smoothed \cup Concealing
        \cup {"item_pickup", "loitering", "repeated_shelf_visit",
              "exit_after_concealment"}

\* DEFAULT_SEQUENCES, the meta-tokens replaced by what they stand for.
Rules ==
    [seq_look_pickup |-> <<{"looking_around"}, {"item_pickup"}>>,
     seq_pickup_wrist |-> <<{"item_pickup"}, {"wrist_to_torso"}>>,
     seq_pickup_bag |-> <<{"item_pickup"}, {"bag_interaction"}>>,
     seq_pickup_wrist_bag |->
        <<{"item_pickup"}, {"wrist_to_torso"}, {"bag_interaction"}>>,
     seq_loiter_pickup_conceal |->
        <<{"loitering"}, {"item_pickup"}, Concealing>>,
     concealment_sequence |->
        <<{"item_pickup"}, {"wrist_to_torso"}, Hiding>>]

Idle == 0
Suspicious == 1
ProductInteraction == 2
Concealment == 3
Alert == 5

\* keypoints: they are good enough to analyze the frame;  raw: the smoothed
\* dims it shows;  item: a wrist on an item;  hand: in the torso box, out of it,
\* or no shoulders seen;  hit: bag or pocket contact;  place: in the loitering
\* radius, out of it, or not seen;  zones: shelf (or fridge, mannequin), exit.
AllObservations ==
    [keypoints : BOOLEAN, raw : SUBSET Smoothed, item : BOOLEAN,
     hand : {"in", "out", "unseen"}, hit : SUBSET Hiding,
     place : {"moved", "stays", "unseen"}, zones : SUBSET {"shelf", "exit"}]

ASSUME EngineAssumption ==
    /\ Observations \subseteq AllObservations
    /\ ActiveRules \subseteq DOMAIN Rules
    /\ {SmoothFrames, Cadence, HoldRelease, EventCap} \subseteq Nat \ {0}
    /\ {MinHold, Interval, MaxBanks, LoiterSeconds, SequenceWindow,
        StaleTrack, MaxTime} \subseteq Nat
    /\ VisitsThreshold \in Nat /\ VisitsThreshold >= 2
    /\ {GreenMax, HighMax, MaxScore} \subseteq Nat

VARIABLES
    now,            \* the clock
    tracked,        \* the track has a TrackState
    lastSeen,
    streak,         \* per smoothed dim
    since, banks, lastBank,     \* the contact gate: contact_since, ...
    torso,          \* concealment_frames
    holding, noHold,
    loiterSince, loiterScored,
    inShelf, visits, shelfScored,
    score,          \* up to MaxScore, where clamp_pct cuts it off
    state,
    events,         \* the history the sequence engine looks at
    awarded,        \* rules awarded in this episode
    open,           \* episode_started_at is set
    ledger,         \* keys of episode_behaviors
    times,          \* history: when a gated criterion banked
    earned,         \* history: the points banked in this episode, cut off
                    \* like the score
    broken,         \* history: the last analyzed frame without contact
    handIn          \* history: analyzed frames in a row with the hand in the
                    \* torso box and no bank for it

gateVars == <<streak, since, banks, lastBank, holding, noHold, loiterSince,
              loiterScored, inShelf, visits, shelfScored>>
episodeVars == <<torso, score, earned, state, events, awarded, open, ledger>>
historyVars == <<times, broken, handIn>>
vars == <<now, tracked, lastSeen, gateVars, episodeVars, historyVars>>

Gated == Hiding \cup {"repeated_shelf_visit"}
Time == 0..MaxTime

TypeOK ==
    /\ now \in Time /\ lastSeen \in Time /\ tracked \in BOOLEAN
    /\ streak \in [Smoothed -> Nat]
    /\ since \in [Hiding -> Time] /\ lastBank \in [Hiding -> Time]
    /\ banks \in [Hiding -> 0..MaxBanks]
    /\ torso \in Nat /\ noHold \in 0..HoldRelease - 1
    /\ holding \in BOOLEAN
    /\ loiterSince \in Time /\ loiterScored \in BOOLEAN
    /\ visits \in Nat /\ inShelf \in BOOLEAN /\ shelfScored \in BOOLEAN
    /\ score \in 0..MaxScore /\ earned \in 0..MaxScore
    /\ state \in {Idle, Suspicious, ProductInteraction, Concealment, Alert}
    /\ events \in Seq([key : Keys, at : Time]) /\ Len(events) <= EventCap
    /\ awarded \subseteq ActiveRules
    /\ open \in BOOLEAN
    /\ ledger \subseteq Keys \cup ActiveRules
    /\ times \in [Gated -> SUBSET Time] /\ broken \in [Hiding -> Time]
    /\ handIn \in Nat

Init ==
    /\ now = 0 /\ tracked = FALSE /\ lastSeen = 0
    /\ streak = [k \in Smoothed |-> 0]
    /\ since = [k \in Hiding |-> 0]
    /\ banks = [k \in Hiding |-> 0]
    /\ lastBank = [k \in Hiding |-> 0]
    /\ torso = 0 /\ holding = FALSE /\ noHold = 0
    /\ loiterSince = 0 /\ loiterScored = FALSE
    /\ inShelf = FALSE /\ visits = 0 /\ shelfScored = FALSE
    /\ score = 0 /\ earned = 0 /\ state = Idle
    /\ events = <<>> /\ awarded = {} /\ open = FALSE /\ ledger = {}
    /\ times = [k \in Gated |-> {}]
    /\ broken = [k \in Hiding |-> 0]
    /\ handIn = 0

-----------------------------------------------------------------------------
(* One frame of the track: _analyze.  At is the time of the frame.         *)

At == now + 1

\* The hand is on an item, now or since a frame that has not released it.
Holds(o) == holding \/ o.item

\* Rapid movement counts only while holding.
Shown(o) == {k \in o.raw : k = "rapid_movement" => Holds(o)}

\* _smoothed: once per window of consecutive analyzed frames.
Streak(o) == [k \in Smoothed |-> IF k \in Shown(o) THEN streak[k] + 1 ELSE 0]
SmoothedFires(o) == {k \in Shown(o) : Streak(o)[k] % SmoothFrames = 0}

PickupFires(o) == {k \in {"item_pickup"} : o.item /\ ~holding}

\* The hand at the torso: a counter that goes up and down.
Torso(o) ==
    CASE o.hand = "in" -> torso + 1
      [] o.hand = "out" -> IF torso > 0 THEN torso - 1 ELSE 0
      [] o.hand = "unseen" -> torso

TorsoFires(o) ==
    {k \in {"wrist_to_torso"} : o.hand = "in" /\ Torso(o) % Cadence = 0}

\* _contact_gate: where the contact stint began, and whether it banks now.
Since(o) ==
    [k \in Hiding |-> IF k \notin o.hit THEN 0
                      ELSE IF since[k] = 0 THEN At ELSE since[k]]

\* Mutant of ContactFires: the interval is not kept across stints.
ContactFiresPerStint(o) ==
    {k \in o.hit : /\ At - Since(o)[k] >= MinHold
                   /\ banks[k] < MaxBanks
                   /\ banks[k] > 0 => At - lastBank[k] >= Interval}

ContactFires(o) ==
    {k \in o.hit : /\ At - Since(o)[k] >= MinHold
                   /\ banks[k] < MaxBanks
                   /\ lastBank[k] # 0 => At - lastBank[k] >= Interval}

\* Mutant of Banks: the count of the stint starts over with every bank.
BanksForgotten(o) == [k \in Hiding |-> 0]

Banks(o) ==
    [k \in Hiding |-> IF k \notin o.hit THEN 0
                      ELSE IF k \in ContactFires(o) THEN banks[k] + 1
                      ELSE banks[k]]

\* Loitering: the anchor moves with the person, or the dwell is scored once.
Settles(o) == o.place = "moved" \/ (o.place = "stays" /\ loiterSince = 0)

LoiterFires(o) ==
    {k \in {"loitering"} : /\ o.place = "stays" /\ loiterSince # 0
                           /\ ~loiterScored
                           /\ At - loiterSince >= LoiterSeconds}

\* A shelf is entered from outside; the criterion banks once in a track's life.
Enters(o) == "shelf" \in o.zones /\ ~inShelf

\* Mutant of ShelfFires: it banks once per episode.
ShelfFiresPerEpisode(o) ==
    {k \in {"repeated_shelf_visit"} : /\ Enters(o) /\ k \notin ledger
                                      /\ visits + 1 >= VisitsThreshold}

ShelfFires(o) ==
    {k \in {"repeated_shelf_visit"} : /\ Enters(o) /\ ~shelfScored
                                      /\ visits + 1 >= VisitsThreshold}

BodyFires(o) == SmoothedFires(o) \cup PickupFires(o) \cup TorsoFires(o)
                \cup ContactFires(o) \cup LoiterFires(o)

\* Mutant of ExitFires: any criterion of the episode will do.
ExitFiresAfterAny(o) ==
    {k \in {"exit_after_concealment"} :
        /\ "exit" \in o.zones
        /\ ledger \cup BodyFires(o) # {}
        /\ k \notin ledger}

\* An exit counts after a concealment of the same episode, and once.
ExitFires(o) ==
    {k \in {"exit_after_concealment"} :
        /\ "exit" \in o.zones
        /\ (ledger \cup BodyFires(o)) \cap Concealing # {}
        /\ k \notin ledger}

Fired(o) ==
    IF o.keypoints THEN BodyFires(o) \cup ShelfFires(o) \cup ExitFires(o)
    ELSE {}

\* The hold latch: released after so many analyzed frames without contact.
Supported(o) == o.item \/ BodyFires(o) \cap Concealing # {}
Released(o) == Holds(o) /\ ~Supported(o) /\ noHold + 1 >= HoldRelease
HoldingAfter(o) == IF o.keypoints THEN Holds(o) /\ ~Released(o) ELSE holding
StreakAfter(o) == IF o.keypoints THEN Streak(o) ELSE streak

TorsoAfter(o) ==
    IF ~o.keypoints THEN torso ELSE IF Released(o) THEN 0 ELSE Torso(o)

Analyze(o) ==
    /\ streak' = Streak(o)
    /\ since' = Since(o)
    /\ banks' = Banks(o)
    /\ lastBank' = [k \in Hiding |-> IF k \in ContactFires(o) THEN At
                                     ELSE lastBank[k]]
    /\ holding' = HoldingAfter(o)
    /\ noHold' = IF ~Holds(o) THEN noHold
                 ELSE IF Supported(o) \/ Released(o) THEN 0
                 ELSE noHold + 1
    /\ loiterSince' = IF Settles(o) THEN At ELSE loiterSince
    /\ loiterScored' = (~Settles(o) /\ (loiterScored \/ LoiterFires(o) # {}))
    /\ visits' = IF Enters(o) THEN visits + 1 ELSE visits
    /\ shelfScored' = (shelfScored \/ ShelfFires(o) # {})
    /\ inShelf' = ("shelf" \in o.zones)

-----------------------------------------------------------------------------
(* The sequence engine.                                                    *)

\* Mutant of Newest: nothing makes room.
NewestUncapped(s) == s

\* deque(maxlen): the oldest events make room.
Newest(s) == IF Len(s) <= EventCap THEN s
             ELSE SubSeq(s, Len(s) - EventCap + 1, Len(s))

\* Events are popped from the front while they are older than the window.
Recent(s) ==
    LET old == {i \in DOMAIN s :
                  \A j \in 1..i : s[j].at + SequenceWindow < At}
    IN  SubSeq(s, Cardinality(old) + 1, Len(s))

\* The history after the frame: the fired keys come in the order in which a
\* Python set yields them.
Histories(o) ==
    {Recent(Newest(events \o [i \in DOMAIN keys |-> [key |-> keys[i],
                                                     at |-> At]])) :
        keys \in SetToSeqs(Fired(o))}

\* _pattern_present: the pattern is an ordered subsequence of the history.
Present(pattern, s) ==
    \E f \in [DOMAIN pattern -> DOMAIN s] :
        /\ \A i, j \in DOMAIN pattern : i < j => f[i] < f[j]
        /\ \A i \in DOMAIN pattern : s[f[i]].key \in pattern[i]

Completed(s) == {r \in ActiveRules \ awarded : Present(Rules[r], s)}

-----------------------------------------------------------------------------
(* The state machine: _advance_state.                                      *)

\* The states this frame's evidence calls for, and the present one.
Reached(o, pct) ==
    {state}
    \cup {s \in {Suspicious} :
            pct > GreenMax \/ Fired(o) \cap {"looking_around", "loitering",
                                    "rapid_movement"} # {}}
    \cup {s \in {ProductInteraction} :
            HoldingAfter(o) \/ "item_pickup" \in Fired(o)}
    \cup {s \in {Concealment} :
            TorsoAfter(o) > 0 \/ Fired(o) \cap Concealing # {}}

\* Mutant of Critical: a completed sequence only adds to the score.
CriticalByScore(o, pct, rules) ==
    "exit_after_concealment" \in Fired(o) \/ pct > HighMax

Critical(o, pct, rules) ==
    \/ "exit_after_concealment" \in Fired(o)
    \/ "concealment_sequence" \in rules
    \/ pct > HighMax

\* Mutant of Calm: it is calm up to the red band.
CalmBelowRed(o, pct) ==
    /\ pct <= HighMax /\ ~HoldingAfter(o) /\ Fired(o) = {}
    /\ \A k \in Smoothed : StreakAfter(o)[k] = 0

Calm(o, pct) ==
    /\ pct <= GreenMax /\ ~HoldingAfter(o) /\ Fired(o) = {}
    /\ \A k \in Smoothed : StreakAfter(o)[k] = 0

\* The episode ends; the score, the contact gate and the shelf counts are kept.
Reset ==
    /\ state' = Idle /\ events' = <<>> /\ torso' = 0 /\ open' = FALSE
    /\ awarded' = {} /\ ledger' = {}

\* Mutant of Advance: the state follows this frame's evidence down as well.
AdvanceDown(o, pct, s, rules) ==
    /\ IF Critical(o, pct, rules) THEN state' = Alert
       ELSE \E t \in Reached(o, pct) :
               /\ \A r \in Reached(o, pct) \ {state} : r <= t
               /\ state' = t
    /\ torso' = TorsoAfter(o)
    /\ events' = s
    /\ awarded' = awarded \cup rules
    /\ ledger' = ledger \cup Fired(o) \cup rules
    /\ open' = (open \/ Fired(o) # {})

\* The highest of the states called for, but Alert at once if it is critical.
Advance(o, pct, s, rules) ==
    /\ IF Critical(o, pct, rules) THEN state' = Alert
       ELSE \E t \in Reached(o, pct) :
               (\A r \in Reached(o, pct) : r <= t) /\ state' = t
    /\ torso' = TorsoAfter(o)
    /\ events' = s
    /\ awarded' = awarded \cup rules
    /\ ledger' = ledger \cup Fired(o) \cup rules
    /\ open' = (open \/ Fired(o) # {})

-----------------------------------------------------------------------------
Capped(n) == IF n > MaxScore THEN MaxScore ELSE n

\* What the frame and the rules it completes may add.
Gains(o, rules) == IF Fired(o) \cup rules = {} THEN {0} ELSE 0..MaxScore

\* What is left of the score after its decay, and what is banked on top of it.
Rescore(o, rules, pct) ==
    \E left \in 0..score, gain \in Gains(o, rules) :
        /\ pct = Capped(left + gain)
        /\ earned' = IF Calm(o, pct) THEN 0 ELSE Capped(earned + gain)

Observe(o) ==
    /\ times' = [k \in Gated |-> IF k \in Fired(o) THEN times[k] \cup {At}
                                 ELSE times[k]]
    /\ broken' = [k \in Hiding |-> IF o.keypoints /\ k \notin o.hit THEN At
                                   ELSE broken[k]]
    /\ handIn' = IF ~o.keypoints THEN handIn
                 ELSE IF o.hand = "in" /\ TorsoFires(o) = {} THEN handIn + 1
                 ELSE 0

\* score(): one frame of the person.
Score(o) ==
    /\ now < MaxTime
    /\ now' = At /\ lastSeen' = At /\ tracked' = TRUE
    /\ IF o.keypoints THEN Analyze(o) ELSE UNCHANGED gateVars
    /\ \E s \in Histories(o), pct \in 0..MaxScore :
          /\ Rescore(o, Completed(s), pct)
          /\ score' = pct
          /\ IF Calm(o, pct) THEN Reset ELSE Advance(o, pct, s, Completed(s))
    /\ Observe(o)

\* A frame of the camera that does not show the person.
Unseen ==
    /\ now < MaxTime /\ tracked
    /\ now' = At
    /\ UNCHANGED <<tracked, lastSeen, gateVars, episodeVars, historyVars>>

\* cleanup_stale drops the track; what is seen next has a fresh TrackState.
CleanupStale ==
    /\ tracked /\ now - lastSeen > StaleTrack
    /\ tracked' = FALSE
    /\ streak' = [k \in Smoothed |-> 0]
    /\ since' = [k \in Hiding |-> 0]
    /\ banks' = [k \in Hiding |-> 0]
    /\ lastBank' = [k \in Hiding |-> 0]
    /\ torso' = 0 /\ holding' = FALSE /\ noHold' = 0
    /\ loiterSince' = 0 /\ loiterScored' = FALSE
    /\ inShelf' = FALSE /\ visits' = 0 /\ shelfScored' = FALSE
    /\ score' = 0 /\ earned' = 0 /\ state' = Idle
    /\ events' = <<>> /\ awarded' = {} /\ open' = FALSE /\ ledger' = {}
    /\ times' = [k \in Gated |-> {}]
    /\ broken' = [k \in Hiding |-> 0]
    /\ handIn' = 0
    /\ UNCHANGED <<now, lastSeen>>

Next == (\E o \in Observations : Score(o)) \/ Unseen \/ CleanupStale

Spec == Init /\ [][Next]_vars

-----------------------------------------------------------------------------
(* Properties.                                                             *)

\* behavior.py: "The state never regresses except a full reset back to IDLE when
\* the person calms down": a lower state comes with an empty episode.
NeverRegresses ==
    [][state' < state =>
         /\ state' = Idle /\ ~open' /\ torso' = 0
         /\ events' = <<>> /\ awarded' = {} /\ ledger' = {}]_vars

\* "a completed concealment sequence jumps straight to ALERT": whenever the
\* history holds one, or the ledger an exit after concealment, the state is Alert.
ConcealmentAlerts ==
    \/ /\ "concealment_sequence" \in ActiveRules
       /\ Present(Rules["concealment_sequence"], events)
    \/ "exit_after_concealment" \in ledger
    => state = Alert

\* An alert rests on its own episode: a reset keeps up to green_max of the score,
\* so an alert without an exit or a concealment sequence takes the rest of the way
\* past high_max in points banked since; no event or award is carried over.
AlertHasEvidence ==
    /\ state = Alert =>
          \/ earned > HighMax - GreenMax
          \/ {"exit_after_concealment", "concealment_sequence"} \cap ledger # {}
    /\ open <=> ledger # {}
    /\ events # <<>> => open
    /\ awarded \subseteq ledger

\* An exit is held against a person only with a concealment of the same episode.
ExitNeedsConcealment ==
    "exit_after_concealment" \in ledger => ledger \cap Concealing # {}

\* "a flickering hit can't re-bank instantly": two banks of bag or pocket contact
\* are Interval apart, whatever contact did in between.
BanksSpaced ==
    \A k \in Hiding : \A t, u \in times[k] : t < u => u - t >= Interval

\* "a person standing with a hand resting at the hip tops out": between two
\* analyzed frames without contact, a criterion banks at most MaxBanks times.
RestingHandTopsOut ==
    \A k \in Hiding :
        Cardinality({t \in times[k] : t > broken[k]}) <= MaxBanks

\* "bank ONCE per track": a person who keeps returning to a shelf is scored for it
\* once, although episodes close in between.
ShelfBanksOnce == Cardinality(times["repeated_shelf_visit"]) <= 1

\* "a hand deliberately brought between the shoulders is itself the signal" and is
\* "NOT gated on holding": Cadence analyzed frames of it in a row bank it.
SustainedHandBanks == handIn < Cadence
=============================================================================
