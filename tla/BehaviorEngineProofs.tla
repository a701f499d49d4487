------------------------- MODULE BehaviorEngineProofs -------------------------
(***************************************************************************)
(* Proofs about the behavior engine, for all settings and all frames.      *)
(***************************************************************************)
EXTENDS BehaviorEngine, FiniteSetTheorems, SequenceTheorems, TLAPS

Event == [key : Keys, at : Time]

LEMMA Constants ==
    /\ SmoothFrames \in Nat \ {0} /\ Cadence \in Nat \ {0}
    /\ HoldRelease \in Nat \ {0} /\ EventCap \in Nat \ {0}
    /\ MinHold \in Nat /\ Interval \in Nat /\ MaxBanks \in Nat
    /\ SequenceWindow \in Nat /\ MaxTime \in Nat /\ 0 \in Time
    /\ GreenMax \in Nat /\ HighMax \in Nat /\ MaxScore \in Nat
  BY EngineAssumption DEF EngineAssumption, Time

LEMMA Levels ==
    /\ Idle = 0 /\ Suspicious = 1 /\ ProductInteraction = 2
    /\ Concealment = 3 /\ Alert = 5
  BY DEF Idle, Suspicious, ProductInteraction, Concealment, Alert

-----------------------------------------------------------------------------
(* What fires, and the history it leaves.                                  *)

LEMMA ObservationTyped ==
    ASSUME NEW o \in Observations
    PROVE  /\ o.keypoints \in BOOLEAN /\ o.item \in BOOLEAN
           /\ o.raw \subseteq Smoothed /\ o.hit \subseteq Hiding
           /\ o.hand \in {"in", "out", "unseen"}
           /\ o.place \in {"moved", "stays", "unseen"}
           /\ o.zones \subseteq {"shelf", "exit"}
  BY EngineAssumption DEF EngineAssumption, AllObservations

LEMMA BodyFiresKeys ==
    ASSUME NEW o \in Observations
    PROVE  BodyFires(o) \subseteq Keys
  <1>1. SmoothedFires(o) \subseteq Smoothed /\ ContactFires(o) \subseteq Hiding
    BY ObservationTyped DEF SmoothedFires, Shown, ContactFires
  <1>2. /\ PickupFires(o) \subseteq Keys /\ TorsoFires(o) \subseteq Keys
        /\ LoiterFires(o) \subseteq Keys
    BY DEF PickupFires, TorsoFires, LoiterFires, Keys, Concealing
  <1>3. Smoothed \subseteq Keys /\ Hiding \subseteq Keys
    BY DEF Keys, Concealing
  <1> QED BY <1>1, <1>2, <1>3 DEF BodyFires

LEMMA FiredKeys ==
    ASSUME NEW o \in Observations
    PROVE  Fired(o) \subseteq Keys
  <1>1. ShelfFires(o) \subseteq Keys /\ ExitFires(o) \subseteq Keys
    BY DEF ShelfFires, ExitFires, Keys
  <1> QED BY <1>1, BodyFiresKeys DEF Fired

LEMMA KeysFinite == IsFiniteSet(Keys)
  <1>1. Keys = (((((((((({"looking_around"} \cup {"body_block"})
                \cup {"crouch"}) \cup {"rapid_movement"})
                \cup {"bag_interaction"}) \cup {"pocket_interaction"})
                \cup {"wrist_to_torso"}) \cup {"item_pickup"})
                \cup {"loitering"}) \cup {"repeated_shelf_visit"})
                \cup {"exit_after_concealment"})
    BY DEF Keys, Smoothed, Concealing, Hiding
  <1>2. \A x : IsFiniteSet({x})
    BY FS_Singleton
  <1> QED BY <1>1, <1>2, FS_AddElement

\* The window leaves a tail of the history.
LEMMA RecentTyped ==
    ASSUME TypeOK, NEW s \in Seq(Event)
    PROVE  /\ Recent(s) \in Seq(Event)
           /\ Len(Recent(s)) <= Len(s)
           /\ s = <<>> => Recent(s) = <<>>
  <1> DEFINE old == {i \in DOMAIN s : \A j \in 1..i :
                                         s[j].at + SequenceWindow < At}
  <1>1. /\ Len(s) \in Nat /\ DOMAIN s = 1..Len(s)
        /\ \A i \in 1..Len(s) : s[i] \in Event
    BY LenProperties, ElementOfSeq
  <1>2. IsFiniteSet(1..Len(s))
    BY <1>1, FS_Interval
  <1>3. IsFiniteSet(old) /\ Cardinality(old) \in Nat
    BY <1>1, <1>2, FS_Subset, FS_CardinalityType
  <1> DEFINE n == Cardinality(old)
  <1>4. Recent(s) = SubSeq(s, n + 1, Len(s))
    BY DEF Recent
  <1> HIDE DEF n
  <1>5. n \in Nat
    BY <1>3 DEF n
  <1>6. \A i \in (n + 1)..Len(s) : s[i] \in Event
    BY <1>1, <1>5
  <1>7. /\ SubSeq(s, n + 1, Len(s)) \in Seq(Event)
        /\ Len(SubSeq(s, n + 1, Len(s)))
              = IF n + 1 <= Len(s) THEN Len(s) - (n + 1) + 1 ELSE 0
    BY <1>1, <1>5, <1>6, SubSeqProperties
  <1>8. s = <<>> => Recent(s) = <<>>
    <2> SUFFICES ASSUME s = <<>> PROVE Recent(s) = <<>>
      OBVIOUS
    <2>1. Len(s) = 0
      BY EmptySeq
    <2> QED BY <2>1, <1>4, <1>5, SubSeqEmpty
  <1> QED BY <1>1, <1>4, <1>5, <1>7, <1>8

LEMMA NewestTyped ==
    ASSUME NEW s \in Seq(Event)
    PROVE  /\ Newest(s) \in Seq(Event)
           /\ Len(Newest(s)) <= EventCap
           /\ s = <<>> => Newest(s) = <<>>
  <1>1. /\ Len(s) \in Nat /\ \A i \in 1..Len(s) : s[i] \in Event
    BY LenProperties, ElementOfSeq
  <1>2. EventCap \in Nat \ {0}
    BY Constants
  <1>3. CASE Len(s) <= EventCap
    BY <1>1, <1>3 DEF Newest
  <1>4. CASE ~(Len(s) <= EventCap)
    <2>1. \A i \in (Len(s) - EventCap + 1)..Len(s) : s[i] \in Event
      BY <1>1, <1>2, <1>4
    <2>2. /\ SubSeq(s, Len(s) - EventCap + 1, Len(s)) \in Seq(Event)
          /\ Len(SubSeq(s, Len(s) - EventCap + 1, Len(s)))
                = IF Len(s) - EventCap + 1 <= Len(s)
                  THEN Len(s) - (Len(s) - EventCap + 1) + 1 ELSE 0
      BY <1>1, <1>2, <2>1, SubSeqProperties
    <2>3. s # <<>>
      BY <1>2, <1>4, EmptySeq
    <2> QED BY <1>1, <1>2, <1>4, <2>2, <2>3 DEF Newest
  <1> QED BY <1>3, <1>4

LEMMA HistoryTyped ==
    ASSUME TypeOK, now < MaxTime, NEW o \in Observations,
           NEW s \in Histories(o)
    PROVE  /\ s \in Seq(Event) /\ Len(s) <= EventCap
           /\ events = <<>> /\ Fired(o) = {} => s = <<>>
  <1> DEFINE D == 1..Cardinality(Fired(o))
  <1>1. PICK keys \in SetToSeqs(Fired(o)) :
           s = Recent(Newest(events \o [i \in DOMAIN keys |->
                                          [key |-> keys[i], at |-> At]]))
    BY DEF Histories
  <1> DEFINE new == [i \in DOMAIN keys |-> [key |-> keys[i], at |-> At]]
  <1>2. IsFiniteSet(Fired(o)) /\ Cardinality(Fired(o)) \in Nat
    BY FiredKeys, KeysFinite, FS_Subset, FS_CardinalityType
  <1>3. keys \in [D -> Fired(o)] /\ DOMAIN keys = D
    BY <1>1 DEF SetToSeqs
  <1>4. At \in Time
    BY Constants DEF TypeOK, Time, At
  <1>5. \A i \in D : [key |-> keys[i], at |-> At] \in Event
    BY <1>3, <1>4, FiredKeys DEF Event
  <1>6. new \in [1..Cardinality(Fired(o)) -> Event]
    BY <1>3, <1>5
  <1>7. new \in Seq(Event)
    BY <1>2, <1>6, IsASeq
  <1>8. events \in Seq(Event)
    BY DEF TypeOK, Event
  <1>9. events \o new \in Seq(Event)
    BY <1>7, <1>8, ConcatProperties
  <1>10. Fired(o) = {} => new = <<>>
    <2> SUFFICES ASSUME Fired(o) = {} PROVE new = <<>>
      OBVIOUS
    <2>1. D = {}
      BY FS_EmptySet
    <2>2. DOMAIN new = {}
      BY <2>1, <1>3
    <2> HIDE DEF new
    <2>3. new \in Seq(Event) /\ Len(new) \in Nat /\ DOMAIN new = 1..Len(new)
      BY <1>7, LenProperties
    <2>4. Len(new) = 0
      BY <2>2, <2>3
    <2> QED BY <2>3, <2>4, EmptySeq
  <1> HIDE DEF new
  <1>11. events = <<>> /\ Fired(o) = {} => events \o new = <<>>
    BY <1>10
  <1>12. /\ Newest(events \o new) \in Seq(Event)
         /\ Len(Newest(events \o new)) <= EventCap
         /\ events \o new = <<>> => Newest(events \o new) = <<>>
    BY <1>9, NewestTyped
  <1>13. s = Recent(Newest(events \o new))
    BY <1>1 DEF new
  <1>14. /\ s \in Seq(Event) /\ Len(s) <= Len(Newest(events \o new))
         /\ Newest(events \o new) = <<>> => s = <<>>
    BY <1>12, <1>13, RecentTyped
  <1>15. Len(s) \in Nat /\ Len(Newest(events \o new)) \in Nat
    BY <1>12, <1>14, LenProperties
  <1> QED BY <1>11, <1>12, <1>14, <1>15, Constants

-----------------------------------------------------------------------------
(* Types.                                                                  *)

LEMMA NoEvents ==
    <<>> \in Seq(Event) /\ Len(<<>>) = 0 /\ Len(<<>>) <= EventCap
  <1>1. <<>> \in Seq(Event) /\ Len(<<>>) = 0
    BY EmptySeq
  <1> QED BY <1>1, Constants

GateTypes ==
    /\ streak \in [Smoothed -> Nat]
    /\ since \in [Hiding -> Time] /\ lastBank \in [Hiding -> Time]
    /\ banks \in [Hiding -> 0..MaxBanks]
    /\ noHold \in 0..HoldRelease - 1 /\ holding \in BOOLEAN
    /\ loiterSince \in Time /\ loiterScored \in BOOLEAN
    /\ visits \in Nat /\ inShelf \in BOOLEAN /\ shelfScored \in BOOLEAN

LEMMA FrameTime ==
    ASSUME TypeOK, now < MaxTime
    PROVE  At \in Time /\ At > now /\ At = now + 1
  BY Constants DEF TypeOK, Time, At

LEMMA AnalyzeTyped ==
    ASSUME TypeOK, now < MaxTime, NEW o \in Observations, Analyze(o)
    PROVE  GateTypes'
  <1>1. streak' \in [Smoothed -> Nat]
    BY DEF Analyze, Streak, TypeOK
  <1>2. since' \in [Hiding -> Time] /\ lastBank' \in [Hiding -> Time]
    BY FrameTime, Constants DEF Analyze, Since, TypeOK
  <1>3. banks' \in [Hiding -> 0..MaxBanks]
    <2>1. \A k \in ContactFires(o) : banks[k] < MaxBanks
      BY DEF ContactFires
    <2> QED BY <2>1, Constants DEF Analyze, Banks, TypeOK
  <1>4. noHold' \in 0..HoldRelease - 1
    <2>1. Holds(o) /\ ~Supported(o) /\ ~Released(o) =>
             noHold + 1 < HoldRelease
      BY Constants DEF Released, TypeOK
    <2> QED BY <2>1, Constants DEF Analyze, TypeOK
  <1>5. holding' \in BOOLEAN
    BY ObservationTyped DEF Analyze, HoldingAfter, Holds, TypeOK
  <1>6. /\ loiterSince' \in Time /\ loiterScored' \in BOOLEAN
        /\ visits' \in Nat /\ inShelf' \in BOOLEAN /\ shelfScored' \in BOOLEAN
    BY FrameTime DEF Analyze, TypeOK
  <1> QED BY <1>1, <1>2, <1>3, <1>4, <1>5, <1>6 DEF GateTypes

\* What a frame does to the episode: it is closed, or it goes on with history s.
LEMMA ScoreFacts ==
    ASSUME TypeOK, NEW o \in Observations, Score(o)
    PROVE  /\ now < MaxTime /\ now' = At /\ lastSeen' = At /\ tracked' = TRUE
           /\ IF o.keypoints THEN Analyze(o) ELSE UNCHANGED gateVars
           /\ Observe(o)
           /\ \E s \in Histories(o) : \E b \in 0..MaxScore :
                 /\ Rescore(o, Completed(s), b) /\ score' = b
                 /\ \/ Calm(o, b) /\ Reset
                    \/ ~Calm(o, b) /\ Advance(o, b, s, Completed(s))
  BY DEF Score

LEMMA TorsoTyped ==
    ASSUME TypeOK, NEW o \in Observations
    PROVE  TorsoAfter(o) \in Nat
  BY ObservationTyped DEF TorsoAfter, Torso, TypeOK

LEMMA ReachedTyped ==
    ASSUME TypeOK, NEW o \in Observations, NEW b, NEW t \in Reached(o, b)
    PROVE  t \in {Idle, Suspicious, ProductInteraction, Concealment, Alert}
  BY DEF Reached, TypeOK

LEMMA CappedTyped ==
    ASSUME NEW m \in 0..MaxScore, NEW n \in 0..MaxScore
    PROVE  /\ Capped(m + n) \in 0..MaxScore
           /\ Capped(m + n) <= m + n
           /\ Capped(m + n) = m + n \/ Capped(m + n) = MaxScore
           /\ m <= Capped(m + n)
  BY Constants DEF Capped

\* What is banked goes to the score and to the points of the episode.
LEMMA RescoreTyped ==
    ASSUME TypeOK, NEW o, NEW rules, NEW b \in 0..MaxScore,
           Rescore(o, rules, b)
    PROVE  /\ earned' \in 0..MaxScore
           /\ Calm(o, b) => earned' = 0
           /\ ~Calm(o, b) =>
                 /\ earned <= earned'
                 /\ \/ earned' = MaxScore
                    \/ b - score <= earned' - earned
  <1>1. PICK left \in 0..score, gain \in Gains(o, rules) :
           /\ b = Capped(left + gain)
           /\ earned' = IF Calm(o, b) THEN 0 ELSE Capped(earned + gain)
    BY DEF Rescore
  <1>2. /\ gain \in 0..MaxScore /\ left \in 0..MaxScore
        /\ earned \in 0..MaxScore /\ score \in 0..MaxScore /\ left <= score
    BY <1>1, Constants DEF Gains, TypeOK
  <1>3. /\ Capped(earned + gain) \in 0..MaxScore
        /\ Capped(earned + gain) = earned + gain
           \/ Capped(earned + gain) = MaxScore
        /\ earned <= Capped(earned + gain)
        /\ b <= left + gain
    BY <1>1, <1>2, CappedTyped
  <1> QED BY <1>1, <1>2, <1>3, Constants

LEMMA EpisodeTyped ==
    ASSUME TypeOK, now < MaxTime, NEW o \in Observations,
           NEW s \in Histories(o), NEW b \in 0..MaxScore,
           Rescore(o, Completed(s), b), score' = b,
           Reset \/ Advance(o, b, s, Completed(s))
    PROVE  /\ torso' \in Nat /\ score' \in 0..MaxScore
           /\ earned' \in 0..MaxScore
           /\ state' \in {Idle, Suspicious, ProductInteraction, Concealment,
                          Alert}
           /\ events' \in Seq(Event) /\ Len(events') <= EventCap
           /\ awarded' \subseteq ActiveRules /\ open' \in BOOLEAN
           /\ ledger' \subseteq Keys \cup ActiveRules
  <1>1. score' \in 0..MaxScore /\ earned' \in 0..MaxScore
    BY RescoreTyped
  <1>2. CASE Reset
    <2>1. torso' = 0 /\ state' = Idle /\ events' = <<>> /\ open' = FALSE
      BY <1>2 DEF Reset
    <2>2. awarded' = {} /\ ledger' = {}
      BY <1>2 DEF Reset
    <2> QED BY <1>1, <2>1, <2>2, NoEvents
  <1>3. CASE Advance(o, b, s, Completed(s))
    <2>1. Completed(s) \subseteq ActiveRules
      BY DEF Completed
    <2>2. torso' \in Nat
      BY <1>3, TorsoTyped DEF Advance
    <2>3. state' \in {Idle, Suspicious, ProductInteraction, Concealment,
                      Alert}
      BY <1>3, ReachedTyped DEF Advance
    <2>4. events' \in Seq(Event) /\ Len(events') <= EventCap
      BY <1>3, HistoryTyped DEF Advance
    <2> QED BY <1>1, <1>3, <2>1, <2>2, <2>3, <2>4, FiredKeys
               DEF Advance, TypeOK
  <1> QED BY <1>2, <1>3

LEMMA ObserveTyped ==
    ASSUME TypeOK, now < MaxTime, NEW o \in Observations, Observe(o)
    PROVE  /\ times' \in [Gated -> SUBSET Time]
           /\ broken' \in [Hiding -> Time] /\ handIn' \in Nat
  <1>1. \A k \in Gated : times[k] \cup {At} \in SUBSET Time
    BY FrameTime DEF TypeOK
  <1> QED BY <1>1, FrameTime DEF Observe, TypeOK

LEMMA ScoreTyped ==
    ASSUME TypeOK, NEW o \in Observations, Score(o)
    PROVE  TypeOK'
  <1>1. /\ now < MaxTime /\ now' = At /\ lastSeen' = At /\ tracked' = TRUE
        /\ IF o.keypoints THEN Analyze(o) ELSE UNCHANGED gateVars
        /\ Observe(o)
    BY ScoreFacts
  <1>2. PICK s \in Histories(o) : \E b \in 0..MaxScore :
                 /\ Rescore(o, Completed(s), b) /\ score' = b
                 /\ \/ Calm(o, b) /\ Reset
                    \/ ~Calm(o, b) /\ Advance(o, b, s, Completed(s))
    BY ScoreFacts
  <1>3. PICK b \in 0..MaxScore :
                 /\ Rescore(o, Completed(s), b) /\ score' = b
                 /\ \/ Calm(o, b) /\ Reset
                    \/ ~Calm(o, b) /\ Advance(o, b, s, Completed(s))
    BY <1>2
  <1>4. GateTypes'
    <2>1. CASE o.keypoints
      BY <1>1, <2>1, AnalyzeTyped
    <2>2. CASE ~o.keypoints
      BY <1>1, <2>2 DEF GateTypes, gateVars, TypeOK
    <2> QED BY <2>1, <2>2
  <1>5. /\ torso' \in Nat /\ score' \in 0..MaxScore
        /\ earned' \in 0..MaxScore
        /\ state' \in {Idle, Suspicious, ProductInteraction, Concealment,
                       Alert}
        /\ events' \in Seq(Event) /\ Len(events') <= EventCap
        /\ awarded' \subseteq ActiveRules /\ open' \in BOOLEAN
        /\ ledger' \subseteq Keys \cup ActiveRules
    BY <1>1, <1>3, EpisodeTyped
  <1>6. /\ times' \in [Gated -> SUBSET Time]
        /\ broken' \in [Hiding -> Time] /\ handIn' \in Nat
    BY <1>1, ObserveTyped
  <1>7. now' \in Time /\ lastSeen' \in Time /\ tracked' \in BOOLEAN
    BY <1>1, FrameTime
  <1> QED BY <1>4, <1>5, <1>6, <1>7 DEF TypeOK, GateTypes, Event

\* The values of a TrackState that has just been created.
LEMMA FreshTyped ==
    /\ 0 \in 0..MaxScore /\ 0 \in 0..MaxBanks /\ 0 \in 0..HoldRelease - 1
    /\ 0 \in Time /\ 0 \in Nat
    /\ [k \in Smoothed |-> 0] \in [Smoothed -> Nat]
    /\ [k \in Hiding |-> 0] \in [Hiding -> Time]
    /\ [k \in Hiding |-> 0] \in [Hiding -> 0..MaxBanks]
    /\ [k \in Gated |-> {}] \in [Gated -> SUBSET Time]
  <1>1. /\ 0 \in 0..MaxScore /\ 0 \in 0..MaxBanks /\ 0 \in 0..HoldRelease - 1
        /\ 0 \in Time /\ 0 \in Nat
    BY Constants
  <1> QED BY <1>1

LEMMA InitTyped == Init => TypeOK
  BY FreshTyped, NoEvents DEF Init, TypeOK, Event

LEMMA CleanupTyped == ASSUME TypeOK, CleanupStale PROVE TypeOK'
  <1>1. GateTypes'
    BY FreshTyped DEF CleanupStale, GateTypes
  <1>2. events' \in Seq(Event) /\ Len(events') <= EventCap
    BY NoEvents DEF CleanupStale
  <1>3. /\ times' \in [Gated -> SUBSET Time]
        /\ broken' \in [Hiding -> Time] /\ handIn' \in Nat
    BY FreshTyped DEF CleanupStale
  <1>4. now' \in Time /\ lastSeen' \in Time /\ tracked' \in BOOLEAN
    BY DEF CleanupStale, TypeOK
  <1>5. /\ torso' \in Nat /\ score' \in 0..MaxScore
        /\ earned' \in 0..MaxScore
        /\ state' \in {Idle, Suspicious, ProductInteraction, Concealment,
                       Alert}
        /\ awarded' \subseteq ActiveRules /\ open' \in BOOLEAN
        /\ ledger' \subseteq Keys \cup ActiveRules
    <2>1. /\ torso' = 0 /\ score' = 0 /\ earned' = 0
          /\ state' = Idle /\ open' = FALSE
      BY DEF CleanupStale
    <2>2. awarded' = {} /\ ledger' = {}
      BY DEF CleanupStale
    <2>3. torso' \in Nat /\ score' \in 0..MaxScore /\ earned' \in 0..MaxScore
      BY <2>1, FreshTyped
    <2>4. state' \in {Idle, Suspicious, ProductInteraction, Concealment,
                      Alert} /\ open' \in BOOLEAN
      BY <2>1
    <2>5. awarded' \subseteq ActiveRules /\ ledger' \subseteq Keys \cup ActiveRules
      BY <2>2
    <2> QED BY <2>3, <2>4, <2>5
  <1> QED BY <1>1, <1>2, <1>3, <1>4, <1>5 DEF TypeOK, GateTypes, Event

LEMMA UnseenTyped == ASSUME TypeOK, Unseen PROVE TypeOK'
  <1>1. now' \in Time
    BY FrameTime DEF Unseen
  <1> QED BY <1>1
             DEF Unseen, gateVars, episodeVars, historyVars, TypeOK

LEMMA TypeStep == TypeOK /\ [Next]_vars => TypeOK'
  <1> SUFFICES ASSUME TypeOK, [Next]_vars PROVE TypeOK'
    OBVIOUS
  <1>1. CASE UNCHANGED vars
    BY <1>1 DEF vars, gateVars, episodeVars, historyVars, TypeOK
  <1> QED BY <1>1, ScoreTyped, CleanupTyped, UnseenTyped DEF Next

\* The types of the engine's variables.
THEOREM EngineTypeCorrect == Spec => []TypeOK
  BY InitTyped, TypeStep, PTL DEF Spec

-----------------------------------------------------------------------------
(* What an alert, an episode and an award rest on.                         *)

SequenceAlerts == "concealment_sequence" \in awarded => state = Alert

\* A reset leaves up to GreenMax of the score; the rest is of the open episode.
ScoreEarned == score <= GreenMax + earned

EngineInv ==
    TypeOK /\ AlertHasEvidence /\ ScoreEarned /\ ExitNeedsConcealment
    /\ SequenceAlerts /\ ConcealmentAlerts

\* Which criterion a key in Fired comes from.
LEMMA FiredBy ==
    ASSUME NEW o \in Observations
    PROVE  /\ \A k \in Hiding :
                 k \in Fired(o) <=> (o.keypoints /\ k \in ContactFires(o))
           /\ "repeated_shelf_visit" \in Fired(o) <=>
                 (o.keypoints /\ "repeated_shelf_visit" \in ShelfFires(o))
           /\ "exit_after_concealment" \in Fired(o) =>
                 (ledger \cup Fired(o)) \cap Concealing # {}
  <1>1. /\ SmoothedFires(o) \subseteq Smoothed
        /\ ContactFires(o) \subseteq Hiding
    BY ObservationTyped DEF SmoothedFires, Shown, ContactFires
  <1>2. /\ PickupFires(o) \subseteq {"item_pickup"}
        /\ TorsoFires(o) \subseteq {"wrist_to_torso"}
        /\ LoiterFires(o) \subseteq {"loitering"}
        /\ ShelfFires(o) \subseteq {"repeated_shelf_visit"}
        /\ ExitFires(o) \subseteq {"exit_after_concealment"}
    BY DEF PickupFires, TorsoFires, LoiterFires, ShelfFires, ExitFires
  <1>3. \A k \in BodyFires(o) :
           /\ k # "repeated_shelf_visit" /\ k # "exit_after_concealment"
           /\ k \in Hiding => k \in ContactFires(o)
    BY <1>1, <1>2 DEF BodyFires, Smoothed, Hiding
  <1>4. \A k \in Hiding : /\ k # "repeated_shelf_visit"
                          /\ k # "exit_after_concealment"
    BY DEF Hiding
  <1>5. ContactFires(o) \subseteq BodyFires(o)
    BY DEF BodyFires
  <1>6. "exit_after_concealment" \in Fired(o) =>
           (ledger \cup Fired(o)) \cap Concealing # {}
    <2> SUFFICES ASSUME "exit_after_concealment" \in Fired(o)
                 PROVE  (ledger \cup Fired(o)) \cap Concealing # {}
      OBVIOUS
    <2>1. /\ "exit_after_concealment" \in ExitFires(o)
          /\ BodyFires(o) \subseteq Fired(o)
      BY <1>2, <1>3 DEF Fired
    <2> QED BY <2>1 DEF ExitFires
  <1> QED BY <1>2, <1>3, <1>4, <1>5, <1>6 DEF Fired

\* Every pattern asks for an event.
LEMMA EmptyHistory ==
    /\ Completed(<<>>) = {}
    /\ ~Present(Rules["concealment_sequence"], <<>>)
  <1>1. \A r \in DOMAIN Rules : 1 \in DOMAIN Rules[r]
    BY DEF Rules
  <1>2. ASSUME NEW pattern, 1 \in DOMAIN pattern
        PROVE  ~Present(pattern, <<>>)
    BY <1>2 DEF Present
  <1>3. \A r \in DOMAIN Rules : ~Present(Rules[r], <<>>)
    BY <1>1, <1>2
  <1>4. "concealment_sequence" \in DOMAIN Rules
    BY DEF Rules
  <1> QED BY <1>3, <1>4, EngineAssumption DEF EngineAssumption, Completed

\* With no open episode, a frame that fires nothing leaves nothing to score.
LEMMA Quiet ==
    ASSUME TypeOK, AlertHasEvidence, now < MaxTime, NEW o \in Observations,
           NEW s \in Histories(o), ~open, Fired(o) = {}
    PROVE  s = <<>> /\ Completed(s) = {}
  <1>1. events = <<>>
    BY DEF AlertHasEvidence
  <1>2. s = <<>>
    BY <1>1, HistoryTyped
  <1>3. Completed(s) = {}
    BY <1>2, EmptyHistory
  <1> QED BY <1>2, <1>3

\* The state that the evidence of a frame leads to.
LEMMA AdvanceState ==
    ASSUME TypeOK, NEW o \in Observations, NEW b, NEW s, NEW rules,
           Advance(o, b, s, rules)
    PROVE  /\ Critical(o, b, rules) => state' = Alert
           /\ state' >= state
           /\ state = Alert => state' = Alert
           /\ state' = Alert => state = Alert \/ Critical(o, b, rules)
  <1>1. CASE Critical(o, b, rules)
    <2>1. state' = Alert
      BY <1>1 DEF Advance
    <2> QED BY <1>1, <2>1, Levels DEF TypeOK
  <1>2. CASE ~Critical(o, b, rules)
    <2>1. PICK t \in Reached(o, b) :
             (\A r \in Reached(o, b) : r <= t) /\ state' = t
      BY <1>2 DEF Advance
    <2>2. state <= t
      BY <2>1 DEF Reached
    <2>3. t = state \/ t \in {Suspicious, ProductInteraction, Concealment}
      BY DEF Reached
    <2> QED BY <1>2, <2>1, <2>2, <2>3, Levels DEF TypeOK
  <1> QED BY <1>1, <1>2

LEMMA EarnedSince ==
    ASSUME NEW old \in 0..MaxScore, NEW e \in 0..MaxScore,
           NEW new \in 0..MaxScore, NEW f \in 0..MaxScore,
           old <= GreenMax + e, f = MaxScore \/ new - old <= f - e
    PROVE  /\ new <= GreenMax + f
           /\ new > HighMax => f > HighMax - GreenMax
  BY Constants

LEMMA AdvanceEvidence ==
    ASSUME EngineInv, now < MaxTime, NEW o \in Observations,
           NEW s \in Histories(o), NEW b \in 0..MaxScore,
           Rescore(o, Completed(s), b), score' = b, ~Calm(o, b),
           Advance(o, b, s, Completed(s))
    PROVE  AlertHasEvidence' /\ ScoreEarned'
  <1> DEFINE rules == Completed(s)
  <1> DEFINE Proof == {"exit_after_concealment", "concealment_sequence"}
  <1>1. /\ open' = (open \/ Fired(o) # {})
        /\ ledger' = ledger \cup Fired(o) \cup rules
        /\ awarded' = awarded \cup rules /\ events' = s
    BY DEF Advance
  <1>2. TypeOK /\ AlertHasEvidence /\ ScoreEarned
    BY DEF EngineInv
  <1>3. ~open' => s = <<>> /\ rules = {}
    BY <1>1, <1>2, Quiet
  <1>4. /\ earned \in 0..MaxScore /\ earned' \in 0..MaxScore
        /\ score \in 0..MaxScore /\ earned <= earned'
        /\ earned' = MaxScore \/ b - score <= earned' - earned
    BY <1>2, RescoreTyped DEF TypeOK
  <1>5. /\ b <= GreenMax + earned'
        /\ b > HighMax => earned' > HighMax - GreenMax
    <2>1. score <= GreenMax + earned
      BY <1>2 DEF ScoreEarned
    <2> QED BY <2>1, <1>4, EarnedSince
  <1>6. state' = Alert => earned' > HighMax - GreenMax \/ Proof \cap ledger' # {}
    <2>1. CASE state = Alert
      BY <1>1, <1>2, <1>4, <2>1, Constants DEF AlertHasEvidence
    <2>2. CASE "exit_after_concealment" \in Fired(o)
               \/ "concealment_sequence" \in rules
      BY <1>1, <2>2
    <2>3. CASE b > HighMax
      BY <1>5, <2>3
    <2>4. state' = Alert => state = Alert \/ Critical(o, b, rules)
      BY <1>2, AdvanceState
    <2> QED BY <2>1, <2>2, <2>3, <2>4 DEF Critical
  <1>7. open' <=> ledger' # {}
    <2>1. open <=> ledger # {}
      BY <1>2 DEF AlertHasEvidence
    <2>2. CASE open'
      BY <1>1, <2>1, <2>2
    <2>3. CASE ~open'
      <3>1. rules = {} /\ ~open /\ Fired(o) = {}
        BY <1>1, <1>3, <2>3
      <3> QED BY <1>1, <2>1, <2>3, <3>1
    <2> QED BY <2>2, <2>3
  <1>8. awarded' \subseteq ledger' /\ (events' # <<>> => open')
    BY <1>1, <1>2, <1>3 DEF AlertHasEvidence
  <1> QED BY <1>5, <1>6, <1>7, <1>8 DEF AlertHasEvidence, ScoreEarned

LEMMA AdvanceAlerts ==
    ASSUME EngineInv, NEW o \in Observations, NEW s, NEW b,
           Advance(o, b, s, Completed(s))
    PROVE  (ExitNeedsConcealment /\ SequenceAlerts /\ ConcealmentAlerts)'
  <1> DEFINE rules == Completed(s)
  <1>1. /\ ledger' = ledger \cup Fired(o) \cup rules
        /\ awarded' = awarded \cup rules /\ events' = s
    BY DEF Advance
  <1>2. /\ TypeOK /\ ExitNeedsConcealment /\ SequenceAlerts
        /\ ConcealmentAlerts
    BY DEF EngineInv
  <1>3. "exit_after_concealment" \notin rules
    <2>1. "exit_after_concealment" \notin DOMAIN Rules
      BY DEF Rules
    <2> QED BY <2>1, EngineAssumption DEF EngineAssumption, Completed
  <1>4. "exit_after_concealment" \in ledger' =>
           \/ "exit_after_concealment" \in ledger
           \/ "exit_after_concealment" \in Fired(o)
    BY <1>1, <1>3
  <1>5. ExitNeedsConcealment'
    BY <1>1, <1>2, <1>4, FiredBy DEF ExitNeedsConcealment
  <1>6. "exit_after_concealment" \in ledger' => state' = Alert
    <2>1. "exit_after_concealment" \in ledger => state = Alert
      BY <1>2 DEF ConcealmentAlerts
    <2>2. "exit_after_concealment" \in Fired(o) => Critical(o, b, rules)
      BY DEF Critical
    <2> QED BY <1>2, <1>4, <2>1, <2>2, AdvanceState
  <1>7. "concealment_sequence" \in awarded' => state' = Alert
    <2>1. "concealment_sequence" \in rules => Critical(o, b, rules)
      BY DEF Critical
    <2> QED BY <1>1, <1>2, <2>1, AdvanceState DEF SequenceAlerts
  <1>8. ASSUME "concealment_sequence" \in ActiveRules,
               Present(Rules["concealment_sequence"], events')
        PROVE  state' = Alert
    <2>1. "concealment_sequence" \in awarded \cup rules
      BY <1>1, <1>8 DEF Completed
    <2> QED BY <1>1, <1>7, <2>1
  <1> QED BY <1>5, <1>6, <1>7, <1>8 DEF SequenceAlerts, ConcealmentAlerts

\* An episode that is closed leaves nothing behind.
LEMMA ClosedInv ==
    ASSUME state' = Idle, open' = FALSE, events' = <<>>, awarded' = {},
           ledger' = {}
    PROVE  (AlertHasEvidence /\ ExitNeedsConcealment /\ SequenceAlerts
            /\ ConcealmentAlerts)'
  <1>1. Idle # Alert
    BY Levels
  <1> QED BY <1>1, EmptyHistory DEF AlertHasEvidence, ExitNeedsConcealment,
                                    SequenceAlerts, ConcealmentAlerts

LEMMA ScoreInv ==
    ASSUME EngineInv, NEW o \in Observations, Score(o)
    PROVE  EngineInv'
  <1>1. TypeOK /\ now < MaxTime
    BY ScoreFacts DEF EngineInv
  <1>2. PICK s \in Histories(o) : \E b \in 0..MaxScore :
                 /\ Rescore(o, Completed(s), b) /\ score' = b
                 /\ \/ Calm(o, b) /\ Reset
                    \/ ~Calm(o, b) /\ Advance(o, b, s, Completed(s))
    BY <1>1, ScoreFacts
  <1>3. PICK b \in 0..MaxScore :
                 /\ Rescore(o, Completed(s), b) /\ score' = b
                 /\ \/ Calm(o, b) /\ Reset
                    \/ ~Calm(o, b) /\ Advance(o, b, s, Completed(s))
    BY <1>2
  <1>4. TypeOK'
    BY <1>1, ScoreTyped
  <1>5. CASE Calm(o, b) /\ Reset
    <2>1. /\ state' = Idle /\ open' = FALSE /\ events' = <<>>
          /\ awarded' = {} /\ ledger' = {}
      BY <1>5 DEF Reset
    <2>2. score' <= GreenMax /\ earned' = 0
      BY <1>1, <1>3, <1>5, RescoreTyped DEF Calm
    <2>3. ScoreEarned'
      BY <2>2, Constants DEF ScoreEarned
    <2> QED BY <1>4, <2>1, <2>3, ClosedInv DEF EngineInv
  <1>6. CASE ~Calm(o, b) /\ Advance(o, b, s, Completed(s))
    BY <1>1, <1>3, <1>4, <1>6, AdvanceEvidence, AdvanceAlerts DEF EngineInv
  <1> QED BY <1>3, <1>5, <1>6

LEMMA EngineInit == Init => EngineInv
  BY InitTyped, EmptyHistory, Levels, Constants
     DEF Init, EngineInv, AlertHasEvidence, ScoreEarned, ExitNeedsConcealment,
         SequenceAlerts, ConcealmentAlerts

LEMMA EngineStep == EngineInv /\ [Next]_vars => EngineInv'
  <1> SUFFICES ASSUME EngineInv, [Next]_vars PROVE EngineInv'
    OBVIOUS
  <1>1. TypeOK'
    BY TypeStep DEF EngineInv
  <1>2. CASE UNCHANGED episodeVars
    BY <1>1, <1>2 DEF episodeVars, EngineInv, AlertHasEvidence, ScoreEarned,
       ExitNeedsConcealment, SequenceAlerts, ConcealmentAlerts
  <1>3. CASE CleanupStale
    <2>1. ScoreEarned'
      BY <1>3, Constants DEF CleanupStale, ScoreEarned
    <2> QED BY <1>1, <1>3, <2>1, ClosedInv DEF CleanupStale, EngineInv
  <1>4. UNCHANGED vars \/ Unseen => UNCHANGED episodeVars
    BY DEF vars, Unseen
  <1> QED BY <1>2, <1>3, <1>4, ScoreInv DEF Next

\* An alert, an open episode and an award rest on their own episode, whatever
\* part of the score was left by the one before.
THEOREM AlertsHaveEvidence == Spec => []AlertHasEvidence
  <1>1. EngineInv => AlertHasEvidence
    BY DEF EngineInv
  <1> QED BY <1>1, EngineInit, EngineStep, PTL DEF Spec

\* No exit is held against a person without a concealment of the same episode.
THEOREM ExitsNeedConcealment == Spec => []ExitNeedsConcealment
  <1>1. EngineInv => ExitNeedsConcealment
    BY DEF EngineInv
  <1> QED BY <1>1, EngineInit, EngineStep, PTL DEF Spec

\* A concealment sequence in the history, or an exit after one, is an alert.
THEOREM ConcealmentsAlert == Spec => []ConcealmentAlerts
  <1>1. EngineInv => ConcealmentAlerts
    BY DEF EngineInv
  <1> QED BY <1>1, EngineInit, EngineStep, PTL DEF Spec

\* The state falls only when the episode is closed.
THEOREM StateNeverRegresses == Spec => NeverRegresses
  <1> DEFINE Falls == state' < state =>
                /\ state' = Idle /\ ~open' /\ torso' = 0
                /\ events' = <<>> /\ awarded' = {} /\ ledger' = {}
  <1>1. ASSUME TypeOK, NEW o \in Observations, Score(o) PROVE Falls
    <2>1. PICK s \in Histories(o) : \E b \in 0..MaxScore :
                   /\ Rescore(o, Completed(s), b) /\ score' = b
                   /\ \/ Calm(o, b) /\ Reset
                      \/ ~Calm(o, b) /\ Advance(o, b, s, Completed(s))
      BY <1>1, ScoreFacts
    <2>2. PICK b \in 0..MaxScore :
                   \/ Calm(o, b) /\ Reset
                   \/ ~Calm(o, b) /\ Advance(o, b, s, Completed(s))
      BY <2>1
    <2>3. CASE Reset
      BY <2>3 DEF Reset
    <2>4. CASE Advance(o, b, s, Completed(s))
      <3>1. state' >= state
        BY <1>1, <2>4, AdvanceState
      <3>2. TypeOK'
        BY <1>1, ScoreTyped
      <3>3. state \in Nat
        BY <1>1, Levels DEF TypeOK
      <3>4. state' \in Nat
        BY <3>2, Levels DEF TypeOK
      <3> QED BY <3>1, <3>3, <3>4
    <2> QED BY <2>2, <2>3, <2>4
  <1>2. CleanupStale => Falls
    BY DEF CleanupStale
  <1>3. TypeOK /\ UNCHANGED episodeVars => Falls
    BY Levels DEF TypeOK, episodeVars
  <1>4. UNCHANGED vars \/ Unseen => UNCHANGED episodeVars
    BY DEF vars, Unseen
  <1>5. TypeOK /\ [Next]_vars => [Falls]_vars
    BY <1>1, <1>2, <1>3, <1>4 DEF Next
  <1> QED BY <1>5, InitTyped, TypeStep, PTL DEF Spec, NeverRegresses

-----------------------------------------------------------------------------
(* How often the gated criteria bank.  A bank is remembered by lastBank,   *)
(* and those of the present stint by banks.                                *)

GateInv ==
    /\ TypeOK
    /\ \A k \in Hiding : \A t \in times[k] : 0 < t /\ t <= lastBank[k]
    /\ \A k \in Hiding : lastBank[k] <= now /\ broken[k] <= now
    /\ BanksSpaced
    /\ \A k \in Hiding :
          Cardinality({t \in times[k] : t > broken[k]}) = banks[k]
    /\ \A t \in times["repeated_shelf_visit"] : shelfScored
    /\ ShelfBanksOnce

\* A frame that does not touch one of the criteria of contact, breaks the
\* contact or banks.
LEMMA GateFrame ==
    ASSUME TypeOK, NEW o \in Observations, Score(o), NEW k \in Hiding
    PROVE  \/ UNCHANGED <<times[k], lastBank[k], broken[k], banks[k]>>
           \/ /\ UNCHANGED <<times[k], lastBank[k]>>
              /\ broken'[k] = At /\ banks'[k] = 0
           \/ /\ k \in ContactFires(o)
              /\ times'[k] = times[k] \cup {At} /\ lastBank'[k] = At
              /\ broken'[k] = broken[k] /\ banks'[k] = banks[k] + 1
  <1>1. /\ IF o.keypoints THEN Analyze(o) ELSE UNCHANGED gateVars
        /\ Observe(o)
    BY ScoreFacts
  <1>2. k \in Gated
    BY DEF Gated
  <1>3. k \in Fired(o) <=> (o.keypoints /\ k \in ContactFires(o))
    BY FiredBy
  <1>4. /\ times'[k] = IF k \in Fired(o) THEN times[k] \cup {At} ELSE times[k]
        /\ broken'[k] = IF o.keypoints /\ k \notin o.hit THEN At ELSE broken[k]
    BY <1>1, <1>2 DEF Observe
  <1>5. ContactFires(o) \subseteq o.hit
    BY DEF ContactFires
  <1>6. CASE ~o.keypoints
    BY <1>1, <1>3, <1>4, <1>6 DEF gateVars
  <1>7. CASE o.keypoints
    <2>1. /\ lastBank'[k] = IF k \in ContactFires(o) THEN At ELSE lastBank[k]
          /\ banks'[k] = IF k \notin o.hit THEN 0
                         ELSE IF k \in ContactFires(o) THEN banks[k] + 1
                         ELSE banks[k]
      BY <1>1, <1>7 DEF Analyze, Banks
    <2> QED BY <1>3, <1>4, <1>5, <1>7, <2>1
  <1> QED BY <1>6, <1>7

LEMMA TimesFinite ==
    ASSUME TypeOK, NEW k \in Gated
    PROVE  IsFiniteSet(times[k]) /\ times[k] \subseteq Time
  <1>1. times[k] \subseteq Time
    BY DEF TypeOK
  <1>2. IsFiniteSet(Time)
    BY Constants, FS_Interval DEF Time
  <1> QED BY <1>1, <1>2, FS_Subset

LEMMA GateScore ==
    ASSUME GateInv, NEW o \in Observations, Score(o)
    PROVE  GateInv'
  <1>1. /\ TypeOK /\ TypeOK' /\ now < MaxTime /\ now' = At /\ At = now + 1
        /\ At \in Nat /\ now \in Nat
    <2>1. TypeOK
      BY DEF GateInv
    <2>2. TypeOK' /\ now < MaxTime /\ now' = At
      BY <2>1, ScoreFacts, ScoreTyped
    <2>3. now \in Nat /\ At = now + 1 /\ At \in Nat
      BY <2>1, Constants DEF TypeOK, Time, At
    <2> QED BY <2>1, <2>2, <2>3
  <1>2. ASSUME NEW k \in Hiding
        PROVE  /\ \A t \in times'[k] : 0 < t /\ t <= lastBank'[k]
               /\ lastBank'[k] <= now' /\ broken'[k] <= now'
               /\ \A t, u \in times'[k] : t < u => u - t >= Interval
               /\ Cardinality({t \in times'[k] : t > broken'[k]}) = banks'[k]
    <2>1. /\ lastBank[k] \in Nat /\ broken[k] \in Nat /\ banks[k] \in Nat
          /\ times[k] \subseteq Nat /\ IsFiniteSet(times[k])
      <3>1. /\ lastBank[k] \in Time /\ broken[k] \in Time
            /\ banks[k] \in 0..MaxBanks
        BY <1>1, <1>2 DEF TypeOK
      <3>2. times[k] \subseteq Time /\ IsFiniteSet(times[k])
        BY <1>1, <1>2, TimesFinite DEF Gated
      <3>3. Time \subseteq Nat
        BY Constants DEF Time
      <3>4. 0..MaxBanks \subseteq Nat
        BY Constants
      <3>5. times[k] \subseteq Nat
        BY <3>2, <3>3
      <3>6. lastBank[k] \in Nat /\ broken[k] \in Nat /\ banks[k] \in Nat
        BY <3>1, <3>3, <3>4
      <3> QED BY <3>2, <3>5, <3>6
    <2>2. /\ \A t \in times[k] : 0 < t /\ t <= lastBank[k]
          /\ lastBank[k] <= now /\ broken[k] <= now
          /\ \A t, u \in times[k] : t < u => u - t >= Interval
          /\ Cardinality({t \in times[k] : t > broken[k]}) = banks[k]
      BY <1>2 DEF GateInv, BanksSpaced
    <2>3. CASE UNCHANGED <<times[k], lastBank[k], broken[k], banks[k]>>
      BY <1>1, <2>1, <2>2, <2>3
    <2>4. CASE /\ UNCHANGED <<times[k], lastBank[k]>>
               /\ broken'[k] = At /\ banks'[k] = 0
      <3>1. {t \in times'[k] : t > broken'[k]} = {}
        BY <1>1, <2>1, <2>2, <2>4
      <3>2. Cardinality({t \in times'[k] : t > broken'[k]}) = banks'[k]
        BY <2>4, <3>1, FS_EmptySet
      <3> QED BY <1>1, <2>1, <2>2, <2>4, <3>2
    <2>5. CASE /\ k \in ContactFires(o)
               /\ times'[k] = times[k] \cup {At} /\ lastBank'[k] = At
               /\ broken'[k] = broken[k] /\ banks'[k] = banks[k] + 1
      <3>1. lastBank[k] # 0 => At - lastBank[k] >= Interval
        BY <2>5 DEF ContactFires
      <3>2. \A t, u \in times'[k] : t < u => u - t >= Interval
        BY <1>1, <2>1, <2>2, <2>5, <3>1, Constants
      <3> DEFINE stint == {t \in times[k] : t > broken[k]}
      <3>3. {t \in times'[k] : t > broken'[k]} = stint \cup {At}
        BY <1>1, <2>1, <2>2, <2>5
      <3>4. At \notin stint
        BY <1>1, <2>1, <2>2
      <3>5. IsFiniteSet(stint)
        BY <2>1, FS_Subset
      <3>6. Cardinality(stint \cup {At}) = Cardinality(stint) + 1
        BY <3>4, <3>5, FS_AddElement
      <3>7. Cardinality({t \in times'[k] : t > broken'[k]}) = banks'[k]
        BY <2>2, <2>5, <3>3, <3>6
      <3>8. \A t \in times'[k] : 0 < t /\ t <= lastBank'[k]
        BY <1>1, <2>1, <2>2, <2>5
      <3>9. lastBank'[k] <= now' /\ broken'[k] <= now'
        BY <1>1, <2>1, <2>2, <2>5
      <3> QED BY <3>2, <3>7, <3>8, <3>9
    <2> QED BY <1>1, <1>2, <2>3, <2>4, <2>5, GateFrame
  <1>3. /\ \A t \in times'["repeated_shelf_visit"] : shelfScored'
        /\ Cardinality(times'["repeated_shelf_visit"]) <= 1
    <2> DEFINE k == "repeated_shelf_visit"
    <2>1. /\ IF o.keypoints THEN Analyze(o) ELSE UNCHANGED gateVars
          /\ Observe(o)
      BY <1>1, ScoreFacts
    <2>2. k \in Gated
      BY DEF Gated
    <2>3. times'[k] = IF k \in Fired(o) THEN times[k] \cup {At} ELSE times[k]
      BY <2>1, <2>2 DEF Observe
    <2>4. k \in Fired(o) <=> (o.keypoints /\ k \in ShelfFires(o))
      BY FiredBy
    <2>5. /\ \A t \in times[k] : shelfScored
          /\ Cardinality(times[k]) <= 1
      BY DEF GateInv, ShelfBanksOnce
    <2>6. shelfScored => shelfScored'
      BY <2>1 DEF Analyze, gateVars
    <2>7. CASE k \in Fired(o)
      <3>1. ~shelfScored /\ shelfScored'
        BY <2>1, <2>4, <2>7 DEF ShelfFires, Analyze
      <3>2. times'[k] = {At}
        BY <2>3, <2>5, <2>7, <3>1
      <3>3. Cardinality(times'[k]) = 1
        BY <3>2, FS_Singleton
      <3> QED BY <3>1, <3>3
    <2>8. CASE k \notin Fired(o)
      BY <2>3, <2>5, <2>6, <2>8
    <2> QED BY <2>7, <2>8
  <1> QED BY <1>1, <1>2, <1>3 DEF GateInv, BanksSpaced, ShelfBanksOnce

\* The gate of a track without history.
LEMMA GateFresh ==
    /\ \A k \in Hiding : [j \in Gated |-> {}][k] = {}
    /\ [j \in Gated |-> {}]["repeated_shelf_visit"] = {}
    /\ Cardinality({}) = 0
  BY FS_EmptySet DEF Gated

LEMMA GateInit == Init => GateInv
  <1> SUFFICES ASSUME Init PROVE GateInv
    OBVIOUS
  <1>1. /\ \A k \in Hiding : times[k] = {} /\ banks[k] = 0 /\ lastBank[k] = 0
                            /\ broken[k] = 0
        /\ times["repeated_shelf_visit"] = {} /\ now = 0
    BY GateFresh DEF Init
  <1>2. \A k \in Hiding : {t \in times[k] : t > broken[k]} = {}
    BY <1>1
  <1> QED BY <1>1, <1>2, InitTyped, FS_EmptySet
             DEF GateInv, BanksSpaced, ShelfBanksOnce

LEMMA GateCleanup == ASSUME GateInv, CleanupStale PROVE GateInv'
  <1>1. TypeOK'
    BY CleanupTyped DEF GateInv
  <1>2. /\ \A k \in Hiding : times'[k] = {} /\ banks'[k] = 0
                            /\ lastBank'[k] = 0 /\ broken'[k] = 0
        /\ times'["repeated_shelf_visit"] = {}
    BY GateFresh DEF CleanupStale
  <1>3. \A k \in Hiding : {t \in times'[k] : t > broken'[k]} = {}
    BY <1>2
  <1>4. now' \in Nat
    BY <1>1, Constants DEF TypeOK, Time
  <1>5. /\ \A k \in Hiding : lastBank'[k] <= now' /\ broken'[k] <= now'
        /\ \A k \in Hiding :
              Cardinality({t \in times'[k] : t > broken'[k]}) = banks'[k]
        /\ Cardinality(times'["repeated_shelf_visit"]) <= 1
    <2>1. Cardinality(times'["repeated_shelf_visit"]) = 0
      BY <1>2, FS_EmptySet
    <2>2. \A k \in Hiding :
             Cardinality({t \in times'[k] : t > broken'[k]}) = banks'[k]
      <3>1. Cardinality({}) = 0
        BY FS_EmptySet
      <3> QED BY <1>2, <1>3, <3>1
    <2>3. \A k \in Hiding : lastBank'[k] <= now' /\ broken'[k] <= now'
      BY <1>2, <1>4
    <2> QED BY <2>1, <2>2, <2>3
  <1>6. /\ \A k \in Hiding : \A t \in times'[k] : 0 < t /\ t <= lastBank'[k]
        /\ \A k \in Hiding :
              \A t, u \in times'[k] : t < u => u - t >= Interval
        /\ \A t \in times'["repeated_shelf_visit"] : shelfScored'
    BY <1>2
  <1> QED BY <1>1, <1>5, <1>6 DEF GateInv, BanksSpaced, ShelfBanksOnce

LEMMA GateStep == GateInv /\ [Next]_vars => GateInv'
  <1> SUFFICES ASSUME GateInv, [Next]_vars PROVE GateInv'
    OBVIOUS
  <1>1. TypeOK'
    BY TypeStep DEF GateInv
  <1>2. CASE Unseen
    <2>1. \A k \in Hiding : lastBank[k] \in Nat /\ broken[k] \in Nat
      BY Constants DEF GateInv, TypeOK, Time
    <2>2. now' = now + 1 /\ now \in Nat
      BY <1>2, Constants DEF Unseen, At, GateInv, TypeOK, Time
    <2>3. UNCHANGED <<times, lastBank, broken, banks, shelfScored>>
      BY <1>2 DEF Unseen, gateVars, historyVars
    <2> QED BY <1>1, <2>1, <2>2, <2>3
               DEF GateInv, BanksSpaced, ShelfBanksOnce
  <1>3. CASE UNCHANGED vars
    BY <1>1, <1>3 DEF vars, gateVars, historyVars, GateInv, BanksSpaced,
                      ShelfBanksOnce
  <1> QED BY <1>2, <1>3, GateScore, GateCleanup DEF Next

\* Two banks of bag or pocket contact are Interval apart.
THEOREM BanksAreSpaced == Spec => []BanksSpaced
  <1>1. GateInv => BanksSpaced
    BY DEF GateInv
  <1> QED BY <1>1, GateInit, GateStep, PTL DEF Spec

\* A hand that rests on a bag or pocket banks at most MaxBanks times.
THEOREM RestingHandsTopOut == Spec => []RestingHandTopsOut
  <1>1. GateInv => RestingHandTopsOut
    BY Constants DEF GateInv, RestingHandTopsOut, TypeOK
  <1> QED BY <1>1, GateInit, GateStep, PTL DEF Spec

\* The visits to a shelf are scored once.
THEOREM ShelvesBankOnce == Spec => []ShelfBanksOnce
  <1>1. GateInv => ShelfBanksOnce
    BY DEF GateInv
  <1> QED BY <1>1, GateInit, GateStep, PTL DEF Spec
=============================================================================
