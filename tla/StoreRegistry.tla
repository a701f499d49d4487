--------------------------- MODULE StoreRegistry ---------------------------
(***************************************************************************)
(* The persons of one store (StorePersonRegistry, live_worker/reid.py) and *)
(* the camera threads that identify their tracks in it, bank the rise of   *)
(* the track's risk on the person and share the staff mark                 *)
(* (_process_frame, live_worker/camera_worker.py).                         *)
(*                                                                         *)
(* The registry locks each call; between the calls of one frame the other  *)
(* cameras run.  A tick is a half-life of the score; a person counts as    *)
(* active elsewhere within a tick (coexist_sec is far shorter).  Time      *)
(* stamps are kept as ages, which stop growing where they stop mattering.  *)
(* How alike a picture and a person are is left open, and with it which of *)
(* the candidates is the best one over its threshold, if any is.           *)
(***************************************************************************)
EXTENDS CameraSet, Integers

CONSTANTS Tracks,
          Cam,          \* the camera of a track
          Window,       \* window_sec: a person unseen for longer is forgotten
          MaxId,        \* bound on the persons created
          MaxRaw,       \* bound on a track's raw score
          MaxRisen,     \* bound on what a track's raw score gains in all
          MaxScore      \* bound on a person's score

ASSUME RegistryAssumption ==
    /\ Cam \in [Tracks -> Cameras]
    /\ Window \in Nat /\ MaxId \in Nat /\ MaxRaw \in Nat /\ MaxRisen \in Nat
    /\ MaxScore \in Nat

Ids    == 1..MaxId
Old    == Window + 1    \* the age at which a sighting no longer counts
Nobody == [id |-> 0]    \* no such person
NoId   == 0

\* One person: the score and the age of its last change, the time since and the
\* camera of the last sighting, and the staff mark.
Person == [score : 0..MaxScore, scoreAge : 0..MaxScore, seenAge : 0..Old,
           camera : Cameras, staff : BOOLEAN]

VARIABLES
    people,     \* _people
    nextId,     \* _next_id
    step,       \* per track: where its camera thread is with it
    pid,        \* per track: store_person_id
    raw,        \* per track: result.raw_score
    prev,       \* per track: _prev_raw
    matched,    \* history: the time since a camera identified a person
    decayed,    \* history: the score halved at every tick
    risen,      \* history: what the track's raw score gained in all
    banked      \* history: what was handed to add_score for the track

registryVars == <<people, nextId, step, pid, raw, prev, matched, decayed, risen, banked>>

RegistryTypeOK ==
    /\ people \in [Ids -> Person \cup {Nobody}]
    /\ nextId \in 1..(MaxId + 1)
    /\ step \in [Tracks -> {"frame", "bank", "flag"}]
    /\ pid \in [Tracks -> Ids \cup {NoId}]
    /\ \A t \in Tracks : step[t] # "frame" => pid[t] \in Ids
    /\ raw \in [Tracks -> 0..MaxRaw] /\ prev \in [Tracks -> 0..MaxRaw]
    /\ risen \in [Tracks -> 0..MaxRisen] /\ banked \in [Tracks -> Int]
    /\ matched \in [Cameras -> [Ids -> 0..Old]]
    /\ decayed \in [Ids -> 0..MaxScore]

RegistryInit ==
    /\ people = [p \in Ids |-> Nobody] /\ nextId = 1
    /\ step = [t \in Tracks |-> "frame"] /\ pid = [t \in Tracks |-> NoId]
    /\ raw = [t \in Tracks |-> 0] /\ prev = [t \in Tracks |-> 0]
    /\ risen = [t \in Tracks |-> 0] /\ banked = [t \in Tracks |-> 0]
    /\ matched = [c \in Cameras |-> [p \in Ids |-> Old]]
    /\ decayed = [p \in Ids |-> 0]

-----------------------------------------------------------------------------
(* The registry.                                                           *)

\* Mutant of Stale: expiry by the score's clock.
StaleByScore(p) == people[p] # Nobody /\ people[p].scoreAge > Window

\* A person nobody has seen for the window.
Stale(p) == people[p] # Nobody /\ people[p].seenAge > Window

\* The registry without the stale.
Live == [p \in Ids |-> IF Stale(p) THEN Nobody ELSE people[p]]

\* Person p is on another camera right now.
Elsewhere(p, c) == people[p].camera # c /\ people[p].seenAge < 1

\* Mutant of Matches: the person found stays on the camera of before.
MatchesInPlace(t, p) ==
    /\ Live[p] # Nobody /\ ~Elsewhere(p, Cam[t])
    /\ people' = [Live EXCEPT ![p] = [@ EXCEPT !.seenAge = 0]]
    /\ pid' = [pid EXCEPT ![t] = p]
    /\ matched' = [matched EXCEPT ![Cam[t]][p] = 0]
    /\ UNCHANGED <<nextId, decayed>>

\* match_or_create finds p, a person who is not elsewhere.
Matches(t, p) ==
    /\ Live[p] # Nobody /\ ~Elsewhere(p, Cam[t])
    /\ people' = [Live EXCEPT ![p] = [@ EXCEPT !.seenAge = 0, !.camera = Cam[t]]]
    /\ pid' = [pid EXCEPT ![t] = p]
    /\ matched' = [matched EXCEPT ![Cam[t]][p] = 0]
    /\ UNCHANGED <<nextId, decayed>>

\* match_or_create finds nobody alike enough.
Creates(t) ==
    /\ nextId <= MaxId
    /\ people' = [Live EXCEPT ![nextId] =
                     [score |-> 0, scoreAge |-> 0, seenAge |-> 0,
                      camera |-> Cam[t], staff |-> FALSE]]
    /\ nextId' = nextId + 1
    /\ pid' = [pid EXCEPT ![t] = nextId]
    /\ matched' = [matched EXCEPT ![Cam[t]][nextId] = 0]
    /\ decayed' = [decayed EXCEPT ![nextId] = 0]

\* Mutant of Faded: the decay is timed off last_seen.
FadedSinceSeen(p) == people[p].score \div 2 ^ people[p].seenAge

\* The score of p, halved for every half-life since it last changed.
Faded(p) == people[p].score \div 2 ^ people[p].scoreAge

\* add_score; a person forgotten meanwhile gets nothing.
AddScore(p, delta) ==
    \/ /\ people[p] # Nobody
       /\ Faded(p) + delta <= MaxScore
       /\ people' = [people EXCEPT ![p] = [@ EXCEPT !.score = Faded(p) + delta,
                                                    !.scoreAge = 0, !.seenAge = 0]]
       /\ decayed' = [decayed EXCEPT ![p] = @ + delta]
    \/ people[p] = Nobody /\ UNCHANGED <<people, decayed>>

-----------------------------------------------------------------------------
(* The camera threads.                                                     *)

\* The camera of t is done with the frame before.
BetweenFrames(t) == \A u \in Tracks : Cam[u] = Cam[t] => step[u] = "frame"

\* The engine's score of t on a new frame.
Scored(t, r) ==
    LET rise == IF r > raw[t] THEN r - raw[t] ELSE 0 IN
    /\ BetweenFrames(t)
    /\ risen[t] + rise <= MaxRisen
    /\ raw' = [raw EXCEPT ![t] = r]
    /\ risen' = [risen EXCEPT ![t] = @ + rise]

\* A frame not clear enough to identify the person: the rise stays unbanked.
Unclear(t, r) ==
    /\ Scored(t, r)
    /\ UNCHANGED <<people, nextId, step, pid, prev, matched, decayed, banked>>

Identify(t, r) ==
    /\ Scored(t, r)
    /\ \/ \E p \in Ids : Matches(t, p)
       \/ Creates(t)
    /\ step' = [step EXCEPT ![t] = "bank"]
    /\ UNCHANGED <<prev, banked>>

\* Mutant of Rise: a fall is taken off again.
RiseSigned(t) == raw[t] - prev[t]

\* Mutant of Rise: a fall counts as well.
RiseEitherWay(t) == IF raw[t] > prev[t] THEN raw[t] - prev[t] ELSE prev[t] - raw[t]

\* The increment: what the track rose since the last one.
Rise(t) == IF raw[t] > prev[t] THEN raw[t] - prev[t] ELSE 0

Bank(t) ==
    /\ step[t] = "bank"
    /\ AddScore(pid[t], Rise(t))
    /\ banked' = [banked EXCEPT ![t] = @ + Rise(t)]
    /\ prev' = [prev EXCEPT ![t] = raw[t]]
    /\ step' = [step EXCEPT ![t] = "flag"]
    /\ UNCHANGED <<nextId, pid, raw, risen, matched>>

\* The track's own vote marks the person as staff; otherwise the person's mark is
\* read, which changes nothing here.
Flag(t, lock) ==
    /\ step[t] = "flag"
    /\ people' = IF lock /\ people[pid[t]] # Nobody
                 THEN [people EXCEPT ![pid[t]] = [@ EXCEPT !.staff = TRUE]]
                 ELSE people
    /\ step' = [step EXCEPT ![t] = "frame"]
    /\ pid' = [pid EXCEPT ![t] = NoId]
    /\ UNCHANGED <<nextId, raw, prev, matched, decayed, risen, banked>>

\* The engine drops the track as stale and _prev_raw follows it.
Forget(t) ==
    /\ BetweenFrames(t)
    /\ raw' = [raw EXCEPT ![t] = 0] /\ prev' = [prev EXCEPT ![t] = 0]
    /\ risen' = [risen EXCEPT ![t] = 0] /\ banked' = [banked EXCEPT ![t] = 0]
    /\ UNCHANGED <<people, nextId, step, pid, matched, decayed>>

Older(age, max) == IF age < max THEN age + 1 ELSE max

\* A half-life passes; a score of at most MaxScore is gone after MaxScore of them.
HalfLife ==
    /\ people' = [p \in Ids |->
         IF people[p] = Nobody THEN Nobody
         ELSE [people[p] EXCEPT !.scoreAge = Older(@, MaxScore),
                                !.seenAge = Older(@, Old)]]
    /\ decayed' = [p \in Ids |-> decayed[p] \div 2]
    /\ matched' = [c \in Cameras |-> [p \in Ids |-> Older(matched[c][p], Old)]]
    /\ UNCHANGED <<nextId, step, pid, raw, prev, risen, banked>>

RegistryNext ==
    \/ \E t \in Tracks, r \in 0..MaxRaw : Unclear(t, r) \/ Identify(t, r)
    \/ \E t \in Tracks : Bank(t) \/ Forget(t)
    \/ \E t \in Tracks, lock \in BOOLEAN : Flag(t, lock)
    \/ HalfLife

RegistrySpec == RegistryInit /\ [][RegistryNext]_registryVars

-----------------------------------------------------------------------------
(* Properties.                                                             *)

\* "One physical person can't be in two places at once": two cameras never
\* identify one person within coexist_sec of each other, whichever calls of other
\* cameras come between a camera's match and its add_score.
NowhereTwice ==
    [][\A c, e \in Cameras, p \in Ids :
         c # e /\ matched'[c][p] < matched[c][p] => matched[e][p] >= 1]_registryVars

\* The score fades with every half-life and by nothing else, however often the
\* person is seen meanwhile: what add_score computes when it is called equals what
\* halving at every tick would have left.
FadesByHalfLife ==
    \A p \in Ids : people[p] # Nobody => Faded(p) = decayed[p]

\* A person some camera identified within the window is not forgotten and stays
\* staff.
RememberedWhileSeen ==
    [][\A c \in Cameras, p \in Ids :
         matched[c][p] <= Window =>
            /\ people'[p] # Nobody
            /\ people[p].staff => people'[p].staff]_registryVars

\* Risk built up on frames too poor to identify anybody is banked later, and no
\* rise of a track is banked twice.
RiseBankedOnce ==
    \A t \in Tracks : prev[t] <= banked[t] /\ banked[t] <= risen[t]
=============================================================================
