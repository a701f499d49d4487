---------------------------- MODULE FrameProofs ----------------------------
(***************************************************************************)
(* Proofs about what one frame of a camera goes through, for every number  *)
(* of cameras, persons and frames: the detector and its batcher, the       *)
(* persons of the store, the scan scheduling and the emitter's queue.      *)
(***************************************************************************)
EXTENDS Detection, StoreRegistry, ScanScheduler, MetadataEmitter,
        FiniteSetTheorems, TLAPS

(***************************************************************************)
(* I. The detector under the cameras (Detection).                          *)
(***************************************************************************)

\* An element of a sequence has a place in it.
LEMMA AtPlace ==
    ASSUME NEW S, NEW s \in Seq(S)
    PROVE  /\ DOMAIN s = 1..Len(s) /\ Len(s) \in Nat
           /\ \A i \in 1..Len(s) : s[i] \in S /\ s[i] \in ToSet(s)
           /\ \A x \in ToSet(s) : \E i \in 1..Len(s) : x = s[i]
           /\ ToSet(s) \subseteq S
BY DEF ToSet

-----------------------------------------------------------------------------
(* The batcher's two sequences.                                            *)

\* Nothing comes twice.
NoRepeat(s) == \A i, j \in DOMAIN s : s[i] = s[j] => i = j

\* What Append adds to a sequence that repeats nothing, it repeats nothing still.
LEMMA OneMore ==
    ASSUME NEW S, NEW s \in Seq(S), NoRepeat(s), NEW x \in S, x \notin ToSet(s)
    PROVE  /\ Append(s, x) \in Seq(S) /\ NoRepeat(Append(s, x))
           /\ ToSet(Append(s, x)) = ToSet(s) \cup {x}
<1> DEFINE v == Append(s, x)
<1>1. /\ v \in Seq(S) /\ Len(v) = Len(s) + 1 /\ v[Len(s) + 1] = x
      /\ \A i \in 1..Len(s) : v[i] = s[i]
      /\ Len(s) \in Nat
  OBVIOUS
<1> HIDE DEF v
<1>2. \A i \in 1..Len(s) : s[i] \in ToSet(s) /\ s[i] # x  BY AtPlace
<1>3. DOMAIN v = 1..(Len(s) + 1) /\ DOMAIN s = 1..Len(s)  BY <1>1, AtPlace
<1>4. ASSUME NEW i \in DOMAIN v, NEW j \in DOMAIN v, v[i] = v[j] PROVE i = j
  <2>1. CASE i = Len(s) + 1 /\ j # Len(s) + 1
    <3>1. j \in 1..Len(s)  BY <1>1, <1>3, <2>1
    <3>2. QED  BY <1>1, <1>2, <1>4, <2>1, <3>1
  <2>2. CASE j = Len(s) + 1 /\ i # Len(s) + 1
    <3>1. i \in 1..Len(s)  BY <1>1, <1>3, <2>2
    <3>2. QED  BY <1>1, <1>2, <1>4, <2>2, <3>1
  <2>3. CASE i # Len(s) + 1 /\ j # Len(s) + 1
    <3>1. i \in 1..Len(s) /\ j \in 1..Len(s)  BY <1>1, <1>3, <2>3
    <3>2. QED  BY <1>1, <1>3, <1>4, <3>1 DEF NoRepeat
  <2>4. QED  BY <2>1, <2>2, <2>3
<1>5. ToSet(v) = ToSet(s) \cup {x}
  <2>1. ASSUME NEW y \in ToSet(v) PROVE y \in ToSet(s) \cup {x}
    <3>1. PICK i \in 1..(Len(s) + 1) : y = v[i]  BY <1>1, AtPlace
    <3>2. CASE i \in 1..Len(s)  BY <1>1, <1>2, <3>1, <3>2
    <3>3. CASE i = Len(s) + 1  BY <1>1, <3>1, <3>3
    <3>4. QED  BY <1>1, <3>1, <3>2, <3>3
  <2>2. ASSUME NEW y \in ToSet(s) PROVE y \in ToSet(v)
    <3>1. PICK i \in 1..Len(s) : y = s[i]  BY AtPlace
    <3>2. i \in 1..Len(v) /\ y = v[i]  BY <1>1, <3>1
    <3>3. QED  BY <1>1, <3>2, AtPlace
  <2>3. x \in ToSet(v)
    <3>1. Len(s) + 1 \in 1..Len(v)  BY <1>1
    <3>2. QED  BY <1>1, <3>1, AtPlace
  <2>4. QED  BY <2>1, <2>2, <2>3
<1>6. QED  BY <1>1, <1>4, <1>5 DEF NoRepeat, v

\* Taking the first of a sequence that repeats nothing leaves the others.
LEMMA OneLess ==
    ASSUME NEW S, NEW s \in Seq(S), NoRepeat(s), s # <<>>
    PROVE  /\ Tail(s) \in Seq(S) /\ NoRepeat(Tail(s))
           /\ Head(s) \in S /\ Head(s) \in ToSet(s)
           /\ ToSet(Tail(s)) = ToSet(s) \ {Head(s)}
<1> DEFINE v == Tail(s)
<1>1. /\ v \in Seq(S) /\ Len(v) = Len(s) - 1 /\ Len(s) \in Nat /\ Len(s) > 0
      /\ Head(s) = s[1]
      /\ \A i \in 1..(Len(s) - 1) : v[i] = s[i + 1]
  OBVIOUS
<1> HIDE DEF v
<1>2. DOMAIN v = 1..(Len(s) - 1) /\ DOMAIN s = 1..Len(s) /\ 1 \in 1..Len(s)
  BY <1>1, AtPlace
<1>3. Head(s) \in S /\ Head(s) \in ToSet(s)  BY <1>1, <1>2, AtPlace
<1>4. ASSUME NEW i \in DOMAIN v, NEW j \in DOMAIN v, v[i] = v[j] PROVE i = j
  <2>1. i + 1 \in DOMAIN s /\ j + 1 \in DOMAIN s /\ s[i + 1] = s[j + 1]
    BY <1>1, <1>2, <1>4
  <2>2. i + 1 = j + 1  BY <2>1 DEF NoRepeat
  <2>3. QED  BY <1>2, <2>2
<1>5. ASSUME NEW y \in ToSet(v) PROVE y \in ToSet(s) \ {Head(s)}
  <2>1. PICK i \in 1..(Len(s) - 1) : y = v[i]  BY <1>1, AtPlace
  <2>2. y = s[i + 1] /\ i + 1 \in 1..Len(s) /\ i + 1 # 1  BY <1>1, <2>1
  <2>3. y # s[1]  BY <1>2, <2>2 DEF NoRepeat
  <2>4. QED  BY <1>1, <2>2, <2>3, AtPlace
<1>6. ASSUME NEW y \in ToSet(s) \ {Head(s)} PROVE y \in ToSet(v)
  <2>1. PICK j \in 1..Len(s) : y = s[j]  BY AtPlace
  <2>2. j # 1  BY <1>1, <2>1
  <2>3. j - 1 \in 1..Len(v) /\ v[j - 1] = s[j]  BY <1>1, <2>1, <2>2
  <2>4. QED  BY <1>1, <2>1, <2>3, AtPlace
<1>7. QED  BY <1>1, <1>3, <1>4, <1>5, <1>6 DEF NoRepeat, v

\* How often an element comes in two such sequences that share none.
LEMMA HowOften ==
    ASSUME NEW S, NEW s \in Seq(S), NEW u \in Seq(S), NoRepeat(s), NoRepeat(u),
           ToSet(s) \cap ToSet(u) = {}, NEW x \in S
    PROVE  Cardinality({i \in DOMAIN (s \o u) : (s \o u)[i] = x}) =
              IF x \in ToSet(s) \cup ToSet(u) THEN 1 ELSE 0
<1> DEFINE w == s \o u
           I == {i \in DOMAIN w : w[i] = x}
           k == Len(s)
<1>1. /\ w \in Seq(S) /\ Len(w) = k + Len(u) /\ k \in Nat /\ Len(u) \in Nat
      /\ \A i \in 1..k : w[i] = s[i]
      /\ \A i \in 1..(k + Len(u)) :
            ~(i \in 1..k) => i - k \in 1..Len(u) /\ w[i] = u[i - k]
  OBVIOUS
<1>2. \A i \in 1..Len(u) : w[k + i] = u[i]  OBVIOUS
<1> HIDE DEF w
<1>3. DOMAIN w = 1..(k + Len(u)) /\ DOMAIN s = 1..k /\ DOMAIN u = 1..Len(u)
  BY <1>1, AtPlace
<1>4. ASSUME NEW i \in DOMAIN w, w[i] = x
      PROVE  x \in ToSet(s) \cup ToSet(u)
  <2>1. CASE i \in 1..k  BY <1>1, <1>4, <2>1, AtPlace
  <2>2. CASE ~(i \in 1..k)  BY <1>1, <1>3, <1>4, <2>2, AtPlace
  <2>3. QED  BY <2>1, <2>2
<1>5. CASE x \notin ToSet(s) \cup ToSet(u)
  <2>1. I = {}  BY <1>4, <1>5
  <2>2. QED  BY <1>5, <2>1, FS_EmptySet DEF w
<1>6. CASE x \in ToSet(s)
  <2>1. PICK j \in 1..k : x = s[j]  BY <1>6, AtPlace
  <2>2. j \in DOMAIN w /\ w[j] = x  BY <1>1, <1>3, <2>1
  <2>3. ASSUME NEW i \in DOMAIN w, w[i] = x PROVE i = j
    <3>1. CASE i \in 1..k  BY <1>1, <1>3, <2>1, <2>3, <3>1 DEF NoRepeat
    <3>2. CASE ~(i \in 1..k)
      <4>1. x \in ToSet(u)  BY <1>1, <1>3, <2>3, <3>2, AtPlace
      <4>2. QED  BY <1>6, <4>1
    <3>3. QED  BY <3>1, <3>2
  <2>4. I = {j}  BY <2>2, <2>3
  <2>5. QED  BY <1>6, <2>4, FS_Singleton DEF w
<1>7. CASE x \in ToSet(u)
  <2>1. PICK j \in 1..Len(u) : x = u[j]  BY <1>7, AtPlace
  <2>2. k + j \in DOMAIN w /\ w[k + j] = x  BY <1>1, <1>2, <1>3, <2>1
  <2>3. ASSUME NEW i \in DOMAIN w, w[i] = x PROVE i = k + j
    <3>1. CASE i \in 1..k
      <4>1. x \in ToSet(s)  BY <1>1, <2>3, <3>1, AtPlace
      <4>2. QED  BY <1>7, <4>1
    <3>2. CASE ~(i \in 1..k)
      <4>1. i - k \in 1..Len(u) /\ u[i - k] = u[j]  BY <1>1, <1>3, <2>1, <2>3, <3>2
      <4>2. i - k = j  BY <1>3, <2>1, <4>1 DEF NoRepeat
      <4>3. i \in Int /\ j \in Int /\ k \in Int  BY <1>1, <1>3
      <4>4. QED  BY <4>2, <4>3
    <3>3. QED  BY <3>1, <3>2
  <2>4. I = {k + j}  BY <2>2, <2>3
  <2>5. QED  BY <1>7, <2>4, FS_Singleton DEF w
<1>8. QED  BY <1>5, <1>6, <1>7

-----------------------------------------------------------------------------
(* The invariant.                                                          *)

\* The gate's counter counts the frames left out, and only in a quiet scene.
GateCounts ==
    \A c \in Cameras :
        skipped[c] = idle[c] /\ (idle[c] # 0 => streak[c] = QuietAfter)

\* The batcher has the frames of the cameras that wait for it, each once, and the
\* answers are about their own frames.
BatchedOnce ==
    /\ NoRepeat(inbox) /\ NoRepeat(collected) /\ ToSet(inbox) \cap ToSet(collected) = {}
    /\ \A c \in Cameras :
          /\ answer[c] \in {None, c, Failed, Short}
          /\ c \in ToSet(inbox) \cup ToSet(collected) <=>
                pc[c] = "wait" /\ answer[c] = None

DetectionInv == DetectionTypeOK /\ GateCounts /\ BatchedOnce

\* The assumption on the constants, and that an answer differs from no answer.
LEMMA DetectionConstants ==
    /\ Default \in Confs
    /\ \A c \in Cameras : c # None /\ c # Failed /\ c # Short
    /\ None # Failed /\ None # Short /\ Failed # Short
    /\ QuietAfter \in Nat \ {0} /\ IdleStride \in Nat \ {0, 1}
    /\ MaxEdits \in Nat /\ MaxRestarts \in Nat
BY DetectionAssumption DEF DetectionAssumption, Failed, Short

\* The invariant implies the two properties of the run.
LEMMA DetectionInvMeans ==
    ASSUME DetectionInv
    PROVE  OwnAnswer /\ NeverBlind
<1>1. ASSUME NEW c \in Cameras
      PROVE  Cardinality({i \in DOMAIN InBatcher : InBatcher[i] = c}) =
                (IF pc[c] = "wait" /\ answer[c] = None THEN 1 ELSE 0)
  <2>1. /\ inbox \in Seq(Cameras) /\ collected \in Seq(Cameras)
        /\ NoRepeat(inbox) /\ NoRepeat(collected)
        /\ ToSet(inbox) \cap ToSet(collected) = {}
    BY DEF DetectionInv, DetectionTypeOK, BatchedOnce
  <2>2. Cardinality({i \in DOMAIN InBatcher : InBatcher[i] = c}) =
           IF c \in ToSet(inbox) \cup ToSet(collected) THEN 1 ELSE 0
    BY <2>1, HowOften DEF InBatcher
  <2>3. c \in ToSet(inbox) \cup ToSet(collected) <=> pc[c] = "wait" /\ answer[c] = None
    BY DEF DetectionInv, BatchedOnce
  <2>4. QED  BY <2>2, <2>3
<1>2. OwnAnswer  BY <1>1 DEF OwnAnswer, DetectionInv, BatchedOnce
<1>3. NeverBlind
  <2>1. ASSUME NEW c \in Cameras PROVE skipped[c] < IdleStride
    <3>1. skipped[c] = idle[c] /\ idle[c] \in 0..(IdleStride - 1)
      BY DEF DetectionInv, GateCounts, DetectionTypeOK
    <3>2. QED  BY <3>1, DetectionConstants
  <2>2. QED  BY <2>1 DEF NeverBlind
<1>4. QED  BY <1>2, <1>3

\* Nobody waits when the node starts.
LEMMA DetectionInitInv == DetectionInit => DetectionInv
<1> SUFFICES ASSUME DetectionInit PROVE DetectionInv  OBVIOUS
<1>1. DetectionTypeOK
  <2>1. <<>> \in Seq(Cameras)  OBVIOUS
  <2>2. /\ streak \in [Cameras -> 0..QuietAfter]
        /\ idle \in [Cameras -> 0..(IdleStride - 1)]
        /\ skipped \in [Cameras -> 0..IdleStride]
        /\ edits \in 0..MaxEdits /\ restarts \in 0..MaxRestarts
    BY DetectionConstants DEF DetectionInit
  <2>3. answer \in [Cameras -> Answers]  BY DEF DetectionInit, Answers
  <2>4. QED  BY <2>1, <2>2, <2>3, DetectionConstants DEF DetectionInit, DetectionTypeOK
<1>2. GateCounts  BY DEF DetectionInit, GateCounts
<1>3. BatchedOnce
  <2>1. inbox = <<>> /\ collected = <<>>  BY DEF DetectionInit
  <2>2. ToSet(<<>>) = {}  BY DEF ToSet
  <2>3. NoRepeat(<<>>)  BY DEF NoRepeat
  <2>4. QED  BY <2>1, <2>2, <2>3 DEF DetectionInit, BatchedOnce
<1>4. QED  BY <1>1, <1>2, <1>3 DEF DetectionInv

-----------------------------------------------------------------------------
(* Each step.                                                              *)

\* The gate: what it decides and what it counts fit together.
LEMMA GateDecides ==
    ASSUME DetectionInv, NEW c \in Cameras, NEW moving \in BOOLEAN, NEW gate,
           gate = IF moving \/ tracked[c] THEN Moving ELSE Still(c)
    PROVE  /\ gate.infer \in BOOLEAN
           /\ gate.streak \in 0..QuietAfter /\ gate.idle \in 0..(IdleStride - 1)
           /\ gate.idle # 0 => gate.streak = QuietAfter
           /\ gate.infer => gate.idle = 0
           /\ ~gate.infer => gate.idle = skipped[c] + 1
<1>1. /\ QuietAfter \in Nat \ {0} /\ IdleStride \in Nat \ {0, 1}
      /\ streak[c] \in 0..QuietAfter /\ idle[c] \in 0..(IdleStride - 1)
      /\ skipped[c] = idle[c] /\ (idle[c] # 0 => streak[c] = QuietAfter)
  BY DetectionConstants DEF DetectionInv, DetectionTypeOK, GateCounts
<1>2. CASE moving \/ tracked[c]
  <2>1. gate = Moving  BY <1>2
  <2>2. gate.infer = TRUE /\ gate.streak = 0 /\ gate.idle = 0  BY <2>1 DEF Moving
  <2>3. gate.infer \in BOOLEAN /\ gate.infer  BY <2>2
  <2>4. 0 \in 0..QuietAfter /\ 0 \in 0..(IdleStride - 1)  BY <1>1
  <2>5. QED  BY <2>2, <2>3, <2>4
<1>3. CASE ~(moving \/ tracked[c])
  <2> DEFINE next == (idle[c] + 1) % IdleStride
  <2>1. next = IF idle[c] + 1 = IdleStride THEN 0 ELSE idle[c] + 1
    <3>1. CASE idle[c] + 1 = IdleStride  BY <1>1, <3>1
    <3>2. CASE idle[c] + 1 # IdleStride
      <4>1. idle[c] + 1 \in 0..(IdleStride - 1)  BY <1>1, <3>2
      <4>2. QED  BY <1>1, <3>2, <4>1
    <3>3. QED  BY <3>1, <3>2
  <2> HIDE DEF next
  <2>2. gate.infer = (~(streak[c] + 1 >= QuietAfter) \/ next = 0)
    BY <1>3 DEF Still, next
  <2>3. gate.streak = IF streak[c] + 1 >= QuietAfter THEN QuietAfter ELSE streak[c] + 1
    BY <1>3 DEF Still
  <2>4. gate.idle = IF streak[c] + 1 >= QuietAfter THEN next ELSE idle[c]
    BY <1>3 DEF Still, next
  <2>5. CASE streak[c] + 1 >= QuietAfter
    <3>1. gate.streak = QuietAfter /\ gate.idle = next  BY <2>3, <2>4, <2>5
    <3>2. gate.infer \in BOOLEAN /\ (gate.infer <=> next = 0)  BY <2>2, <2>5
    <3>3. next \in 0..(IdleStride - 1) /\ (next # 0 => next = skipped[c] + 1)
      BY <1>1, <2>1
    <3>4. QED  BY <1>1, <3>1, <3>2, <3>3
  <2>6. CASE ~(streak[c] + 1 >= QuietAfter)
    <3>1. gate.streak = streak[c] + 1 /\ gate.idle = idle[c] /\ gate.infer
      BY <2>2, <2>3, <2>4, <2>6
    <3>2. idle[c] = 0  BY <1>1, <2>6
    <3>3. gate.infer \in BOOLEAN  BY <2>2
    <3>4. QED  BY <1>1, <2>6, <3>1, <3>2, <3>3
  <2>7. QED  BY <2>5, <2>6
<1>4. QED  BY <1>2, <1>3

\* process_frame up to the detector: the motion gate counts a frame it leaves out.
LEMMA ReadFrameInv ==
    ASSUME DetectionInv, NEW c \in Cameras, NEW moving \in BOOLEAN, ReadFrame(c, moving)
    PROVE  DetectionInv'
<1> DEFINE gate == IF moving \/ tracked[c] THEN Moving ELSE Still(c)
<1>1. /\ pc[c] = "read"
      /\ conf' = [conf EXCEPT ![c] = Synced(c)]
      /\ streak' = [streak EXCEPT ![c] = gate.streak]
      /\ idle' = [idle EXCEPT ![c] = gate.idle]
      /\ skipped' = [skipped EXCEPT ![c] =
                        IF gate.infer THEN 0
                        ELSE IF skipped[c] < IdleStride THEN skipped[c] + 1
                        ELSE skipped[c]]
      /\ pc' = [pc EXCEPT ![c] = IF gate.infer THEN "set" ELSE "read"]
      /\ UNCHANGED <<tracked, answer, central, shared, inbox, collected, edits, restarts>>
  BY DEF ReadFrame, batcher, bounds
<1>2. /\ gate.infer \in BOOLEAN
      /\ gate.streak \in 0..QuietAfter /\ gate.idle \in 0..(IdleStride - 1)
      /\ gate.idle # 0 => gate.streak = QuietAfter
      /\ gate.infer => gate.idle = 0
      /\ ~gate.infer => gate.idle = skipped[c] + 1
  BY GateDecides
<1> HIDE DEF gate
<1>3. Synced(c) \in Confs  BY DEF Synced, DetectionInv, DetectionTypeOK
<1>4. (IF gate.infer THEN 0
       ELSE IF skipped[c] < IdleStride THEN skipped[c] + 1 ELSE skipped[c]) = gate.idle
  <2>1. skipped[c] = idle[c] /\ idle[c] \in 0..(IdleStride - 1)
    BY DEF DetectionInv, GateCounts, DetectionTypeOK
  <2>2. QED  BY <1>2, <2>1, DetectionConstants
<1>5. skipped' = [skipped EXCEPT ![c] = gate.idle]  BY <1>1, <1>4
<1>6. gate.idle \in 0..IdleStride  BY <1>2, DetectionConstants
<1>7. DetectionTypeOK'
  BY <1>1, <1>2, <1>3, <1>5, <1>6 DEF DetectionInv, DetectionTypeOK
<1>8. GateCounts'
  BY <1>1, <1>2, <1>5 DEF DetectionInv, DetectionTypeOK, GateCounts
<1>9. BatchedOnce'
  BY <1>1 DEF DetectionInv, DetectionTypeOK, BatchedOnce
<1>10. QED  BY <1>7, <1>8, <1>9 DEF DetectionInv

\* A camera joins the queue, where it was not, and waits.
LEMMA InferInv ==
    ASSUME DetectionInv, NEW c \in Cameras, Infer(c)
    PROVE  DetectionInv'
<1>1. /\ pc[c] = "put" /\ inbox' = Append(inbox, c)
      /\ answer' = [answer EXCEPT ![c] = None] /\ pc' = [pc EXCEPT ![c] = "wait"]
      /\ UNCHANGED <<conf, tracked, streak, idle, central, shared, collected, skipped,
                     edits, restarts>>
  BY DEF Infer, bounds
<1>2. inbox \in Seq(Cameras) /\ NoRepeat(inbox)
      /\ c \notin ToSet(inbox) /\ c \notin ToSet(collected)
  BY <1>1 DEF DetectionInv, DetectionTypeOK, BatchedOnce
<1>3. /\ inbox' \in Seq(Cameras) /\ NoRepeat(inbox')
      /\ ToSet(inbox') = ToSet(inbox) \cup {c}
  BY <1>1, <1>2, OneMore
<1>4. DetectionTypeOK'
  BY <1>1, <1>3 DEF DetectionInv, DetectionTypeOK, Answers
<1>5. GateCounts'  BY <1>1 DEF DetectionInv, GateCounts
<1>6. BatchedOnce'
  BY <1>1, <1>2, <1>3 DEF DetectionInv, DetectionTypeOK, BatchedOnce
<1>7. QED  BY <1>4, <1>5, <1>6 DEF DetectionInv

\* The steps of a camera that leave the batcher and the gate's counter alone.
LEMMA OtherCameraInv ==
    ASSUME DetectionInv, NEW c \in Cameras,
           SetParams(c) \/ (\E found \in BOOLEAN : Return(c, found)) \/ Restart(c)
    PROVE  DetectionInv'
<1>1. CASE SetParams(c)
  BY <1>1 DEF SetParams, bounds, DetectionInv, DetectionTypeOK, GateCounts, BatchedOnce
<1>2. ASSUME NEW found \in BOOLEAN, Return(c, found) PROVE DetectionInv'
  <2>1. DetectionTypeOK'
    BY <1>2 DEF Return, batcher, bounds, DetectionInv, DetectionTypeOK, Answers
  <2>2. GateCounts'  BY <1>2 DEF Return, DetectionInv, GateCounts
  <2>3. BatchedOnce'
    BY <1>2 DEF Return, batcher, DetectionInv, DetectionTypeOK, BatchedOnce
  <2>4. QED  BY <2>1, <2>2, <2>3 DEF DetectionInv
<1>3. CASE Restart(c)
  <2>1. DetectionTypeOK'
    BY <1>3, DetectionConstants DEF Restart, batcher, DetectionInv, DetectionTypeOK
  <2>2. GateCounts'  BY <1>3 DEF Restart, DetectionInv, DetectionTypeOK, GateCounts
  <2>3. BatchedOnce'  BY <1>3 DEF Restart, batcher, DetectionInv, BatchedOnce
  <2>4. QED  BY <2>1, <2>2, <2>3 DEF DetectionInv
<1>4. QED  BY <1>1, <1>2, <1>3

\* The batcher's thread moves the head of the queue to its batch.
LEMMA CollectInv ==
    ASSUME DetectionInv, Collect
    PROVE  DetectionInv'
<1>1. /\ inbox # <<>> /\ collected' = Append(collected, Head(inbox))
      /\ inbox' = Tail(inbox)
      /\ UNCHANGED <<cams, central, shared, bounds>>
  BY DEF Collect
<1>2. /\ inbox \in Seq(Cameras) /\ collected \in Seq(Cameras)
      /\ NoRepeat(inbox) /\ NoRepeat(collected)
      /\ ToSet(inbox) \cap ToSet(collected) = {}
  BY DEF DetectionInv, DetectionTypeOK, BatchedOnce
<1>3. /\ inbox' \in Seq(Cameras) /\ NoRepeat(inbox')
      /\ Head(inbox) \in Cameras /\ Head(inbox) \in ToSet(inbox)
      /\ ToSet(inbox') = ToSet(inbox) \ {Head(inbox)}
  BY <1>1, <1>2, OneLess
<1>4. /\ collected' \in Seq(Cameras) /\ NoRepeat(collected')
      /\ ToSet(collected') = ToSet(collected) \cup {Head(inbox)}
  BY <1>1, <1>2, <1>3, OneMore
<1>5. DetectionTypeOK'
  BY <1>1, <1>3, <1>4 DEF cams, bounds, DetectionInv, DetectionTypeOK
<1>6. GateCounts'  BY <1>1 DEF cams, DetectionInv, GateCounts
<1>7. BatchedOnce'
  <2>1. ToSet(inbox') \cup ToSet(collected') = ToSet(inbox) \cup ToSet(collected)
    BY <1>3, <1>4
  <2>2. ToSet(inbox') \cap ToSet(collected') = {}  BY <1>2, <1>3, <1>4
  <2>3. pc' = pc /\ answer' = answer  BY <1>1 DEF cams
  <2>4. QED  BY <1>3, <1>4, <2>1, <2>2, <2>3 DEF DetectionInv, BatchedOnce
<1>8. QED  BY <1>5, <1>6, <1>7 DEF DetectionInv

\* The batch is answered: those in it with something, the others not at all.
LEMMA AnsweredInv ==
    ASSUME DetectionInv, BatchDone, answer' \in [Cameras -> Answers],
           \A c \in Cameras :
               answer'[c] \in (IF c \in ToSet(collected) THEN {c, Failed, Short}
                               ELSE {answer[c]}),
           UNCHANGED <<pc, conf, tracked, streak, idle, skipped, central, shared, inbox,
                       edits, restarts>>
    PROVE  DetectionInv'
<1>1. collected' = <<>> /\ <<>> \in Seq(Cameras)  BY DEF BatchDone
<1>2. ToSet(collected') = {} /\ NoRepeat(collected')  BY <1>1 DEF ToSet, NoRepeat
<1>3. DetectionTypeOK'  BY <1>1 DEF DetectionInv, DetectionTypeOK
<1>4. GateCounts'  BY DEF DetectionInv, GateCounts
<1>5. BatchedOnce'
  <2>1. ASSUME NEW c \in Cameras
        PROVE  /\ answer'[c] \in {None, c, Failed, Short}
               /\ c \in ToSet(inbox) <=> pc[c] = "wait" /\ answer'[c] = None
    <3>1. /\ answer[c] \in {None, c, Failed, Short}
          /\ c \in ToSet(inbox) \cup ToSet(collected) <=>
                pc[c] = "wait" /\ answer[c] = None
          /\ ToSet(inbox) \cap ToSet(collected) = {}
      BY DEF DetectionInv, BatchedOnce
    <3>2. CASE c \in ToSet(collected)
      <4>1. answer'[c] \in {c, Failed, Short} /\ answer'[c] # None
        BY <3>2, DetectionConstants
      <4>2. QED  BY <3>1, <3>2, <4>1
    <3>3. CASE c \notin ToSet(collected)
      <4>1. answer'[c] = answer[c]  BY <3>3
      <4>2. QED  BY <3>1, <3>3, <4>1
    <3>4. QED  BY <3>2, <3>3
  <2>2. QED  BY <1>2, <2>1 DEF DetectionInv, BatchedOnce
<1>6. QED  BY <1>3, <1>4, <1>5 DEF DetectionInv

\* The model answers the batch, the first n of it with their own results.
LEMMA PredictInv ==
    ASSUME DetectionInv, NEW n \in 0..Len(collected), Predict(n)
    PROVE  DetectionInv'
<1>1. collected \in Seq(Cameras)  BY DEF DetectionInv, DetectionTypeOK
<1>2. ASSUME NEW c \in Cameras
      PROVE  answer'[c] \in (IF c \in ToSet(collected) THEN {c, Failed, Short}
                             ELSE {answer[c]})
  <2>1. c \in ToSet(collected) <=> \E i \in DOMAIN collected : collected[i] = c
    BY DEF ToSet
  <2>2. CASE c \in ToSet(collected)
    <3> DEFINE k == CHOOSE i \in DOMAIN collected : collected[i] = c
    <3>1. k \in DOMAIN collected /\ collected[k] = c  BY <2>1, <2>2
    <3>2. answer'[c] = ResultOf(k, n)  BY <2>1, <2>2 DEF Predict
    <3> HIDE DEF k
    <3>3. QED  BY <2>2, <3>1, <3>2 DEF ResultOf
  <2>3. CASE c \notin ToSet(collected)  BY <2>1, <2>3 DEF Predict
  <2>4. QED  BY <2>2, <2>3
<1>3. answer' \in [Cameras -> Answers]
  <2>1. answer' = [c \in Cameras |-> answer'[c]]  BY DEF Predict
  <2>2. ASSUME NEW c \in Cameras PROVE answer'[c] \in Answers
    BY <1>2 DEF Answers, DetectionInv, DetectionTypeOK
  <2>3. QED  BY <2>1, <2>2
<1>4. QED  BY <1>2, <1>3, AnsweredInv DEF Predict, bounds

\* Every camera of a batch whose predict raised is told so.
LEMMA PredictFailsInv ==
    ASSUME DetectionInv, PredictFails
    PROVE  DetectionInv'
<1>1. ASSUME NEW c \in Cameras
      PROVE  answer'[c] \in (IF c \in ToSet(collected) THEN {c, Failed, Short}
                             ELSE {answer[c]})
  BY DEF PredictFails
<1>2. answer' \in [Cameras -> Answers]
  BY DEF PredictFails, Answers, DetectionInv, DetectionTypeOK
<1>3. QED  BY <1>1, <1>2, AnsweredInv DEF PredictFails, bounds

\* Each step of the detector preserves the invariant.
LEMMA DetectionStepInv == DetectionInv /\ [DetectionNext]_detectionVars => DetectionInv'
<1> SUFFICES ASSUME DetectionInv, [DetectionNext]_detectionVars PROVE DetectionInv'
  OBVIOUS
<1>1. CASE UNCHANGED detectionVars
  BY <1>1 DEF detectionVars, cams, batcher, bounds, DetectionInv, DetectionTypeOK,
              GateCounts, BatchedOnce
<1>2. ASSUME NEW c \in Cameras, Camera(c) \/ Restart(c) PROVE DetectionInv'
  BY <1>2, ReadFrameInv, InferInv, OtherCameraInv DEF Camera
<1>3. CASE Loop  BY <1>3, CollectInv, PredictInv, PredictFailsInv DEF Loop, RunModel
<1>4. ASSUME NEW v \in Confs \cup {None}, EditSettings(v) PROVE DetectionInv'
  <2>1. edits' \in 0..MaxEdits
    BY <1>4, DetectionConstants DEF EditSettings, DetectionInv, DetectionTypeOK
  <2>2. QED
    BY <1>4, <2>1 DEF EditSettings, cams, batcher, DetectionInv, DetectionTypeOK,
                      GateCounts, BatchedOnce
<1>5. QED  BY <1>1, <1>2, <1>3, <1>4 DEF DetectionNext

\* So the invariant always holds.
LEMMA DetectionInvariance == DetectionSpec => []DetectionInv
BY DetectionInitInv, DetectionStepInv, PTL DEF DetectionSpec

\* The variables of the cameras and the batcher have their types, for any number of
\* cameras, gate setting and configuration.
THEOREM DetectionTypeCorrect == DetectionSpec => []DetectionTypeOK
<1>1. DetectionInv => DetectionTypeOK  BY DEF DetectionInv
<1>2. QED  BY <1>1, DetectionInvariance, PTL

\* A camera that waits for the shared model is in the batcher's queue or batch once and
\* nobody else is, so _run answers each infer with the result of its own frame or with
\* a failure.
THEOREM AnswersAreOwn == DetectionSpec => []OwnAnswer
<1>1. DetectionInv => OwnAnswer  BY DetectionInvMeans
<1>2. QED  BY <1>1, DetectionInvariance, PTL

\* The motion gate never leaves out more than IdleStride - 1 frames in a row.
THEOREM GateNeverBlind == DetectionSpec => []NeverBlind
<1>1. DetectionInv => NeverBlind  BY DetectionInvMeans
<1>2. QED  BY <1>1, DetectionInvariance, PTL

(***************************************************************************)
(* II. The persons of the store (StoreRegistry).                           *)
(***************************************************************************)

-----------------------------------------------------------------------------
(* Powers of two, which count subsets.                                     *)

\* A set of n elements has 2 ^ n subsets.
LEMMA PowerCounts ==
    ASSUME NEW n \in Nat
    PROVE  /\ IsFiniteSet(SUBSET (1..n))
           /\ Cardinality(SUBSET (1..n)) = 2 ^ n
           /\ 2 ^ n \in Nat
<1>1. IsFiniteSet(1..n) /\ Cardinality(1..n) = n
  <2>1. 1 \in Int /\ n \in Int  OBVIOUS
  <2>2. /\ IsFiniteSet(1..n)
        /\ Cardinality(1..n) = IF 1 > n THEN 0 ELSE n - 1 + 1
    BY <2>1, FS_Interval
  <2>3. QED  BY <2>2
<1>2. /\ IsFiniteSet(SUBSET (1..n))
      /\ Cardinality(SUBSET (1..n)) = 2 ^ Cardinality(1..n)
  BY <1>1, FS_SUBSET
<1>3. Cardinality(SUBSET (1..n)) \in Nat  BY <1>2, FS_CardinalityType
<1>4. QED  BY <1>1, <1>2, <1>3

\* Half of the subsets of 1..(n + 1) contain n + 1.
LEMMA PowerDoubles ==
    ASSUME NEW n \in Nat
    PROVE  2 ^ (n + 1) = 2 * 2 ^ n
<1> DEFINE low  == SUBSET (1..n)
           f    == [s \in low |-> s \cup {n + 1}]
           high == {s \cup {n + 1} : s \in low}
<1>1. /\ IsFiniteSet(low) /\ Cardinality(low) = 2 ^ n /\ 2 ^ n \in Nat
      /\ Cardinality(SUBSET (1..(n + 1))) = 2 ^ (n + 1)
  BY PowerCounts
<1>2. \A s \in low : n + 1 \notin s
  <2> SUFFICES ASSUME NEW s \in low, n + 1 \in s PROVE FALSE  OBVIOUS
  <2>1. n + 1 \in 1..n  OBVIOUS
  <2>2. QED  BY <2>1
<1>3. f \in Bijection(low, high)
  <2>1. f \in [low -> high]  OBVIOUS
  <2>2. \A s, u \in low : f[s] = f[u] => s = u
    <3> SUFFICES ASSUME NEW s \in low, NEW u \in low, f[s] = f[u] PROVE s = u
      OBVIOUS
    <3>1. s = f[s] \ {n + 1} /\ u = f[u] \ {n + 1}  BY <1>2
    <3>2. QED  BY <3>1
  <2>3. \A z \in high : \E s \in low : f[s] = z  OBVIOUS
  <2>4. QED  BY <2>1, <2>2, <2>3 DEF Bijection, Injection, Surjection, IsInjective
<1>4. IsFiniteSet(high) /\ Cardinality(high) = Cardinality(low)
  BY <1>1, <1>3, FS_Bijection DEF ExistsBijection
<1>5. low \cap high = {}  BY <1>2
<1>6. SUBSET (1..(n + 1)) = low \cup high
  <2>1. 1..(n + 1) = (1..n) \cup {n + 1}  OBVIOUS
  <2>2. ASSUME NEW s \in SUBSET (1..(n + 1)) PROVE s \in low \cup high
    <3>1. CASE n + 1 \notin s  BY <2>1, <3>1
    <3>2. CASE n + 1 \in s
      <4>1. s \ {n + 1} \in low /\ s = (s \ {n + 1}) \cup {n + 1}
        BY <2>1, <3>2
      <4>2. QED  BY <4>1
    <3>3. QED  BY <3>1, <3>2
  <2>3. low \cup high \subseteq SUBSET (1..(n + 1))  BY <2>1
  <2>4. QED  BY <2>2, <2>3
<1> HIDE DEF low, high
<1>7. Cardinality(low \cup high) =
         Cardinality(low) + Cardinality(high) - Cardinality(low \cap high)
  BY <1>1, <1>4, FS_Union
<1>8. Cardinality(low \cap high) = 0  BY <1>5, FS_EmptySet
<1>9. 2 ^ (n + 1) = Cardinality(low \cup high)  BY <1>1, <1>6
<1> DEFINE q == 2 ^ n
           both == 2 ^ (n + 1)
<1>10. /\ q \in Nat /\ Cardinality(low) = q /\ Cardinality(high) = q
       /\ both = Cardinality(low) + Cardinality(high) - Cardinality(low \cap high)
  BY <1>1, <1>4, <1>7, <1>9
<1> HIDE DEF q, both
<1>11. both = 2 * q  BY <1>8, <1>10
<1>12. QED  BY <1>11 DEF q, both

\* There are more subsets of 1..n than numbers in 0..n.
LEMMA PowerExceeds ==
    ASSUME NEW n \in Nat
    PROVE  n < 2 ^ n
<1> DEFINE f == [i \in 0..n |-> 1..i]
<1>1. IsFiniteSet(SUBSET (1..n)) /\ Cardinality(SUBSET (1..n)) = 2 ^ n
      /\ 2 ^ n \in Nat
  BY PowerCounts
<1>2. f \in Injection(0..n, SUBSET (1..n))
  <2>1. f \in [0..n -> SUBSET (1..n)]
    <3>1. ASSUME NEW i \in 0..n PROVE 1..i \subseteq 1..n  OBVIOUS
    <3>2. QED  BY <3>1
  <2>2. ASSUME NEW i \in 0..n, NEW j \in 0..n, f[i] = f[j] PROVE i = j
    <3>1. 1..i = 1..j /\ i \in Nat /\ j \in Nat  BY <2>2
    <3>2. CASE i < j
      <4>1. j \in 1..j /\ j \notin 1..i  BY <3>1, <3>2
      <4>2. QED  BY <3>1, <4>1
    <3>3. CASE j < i
      <4>1. i \in 1..i /\ i \notin 1..j  BY <3>1, <3>3
      <4>2. QED  BY <3>1, <4>1
    <3>4. QED  BY <3>1, <3>2, <3>3
  <2>3. QED  BY <2>1, <2>2 DEF Injection, IsInjective
<1>3. Cardinality(0..n) <= 2 ^ n  BY <1>1, <1>2, FS_Injection
<1>4. Cardinality(0..n) = n + 1
  <2>1. 0 \in Int /\ n \in Int  OBVIOUS
  <2>2. Cardinality(0..n) = IF 0 > n THEN 0 ELSE n - 0 + 1  BY <2>1, FS_Interval
  <2>3. QED  BY <2>2
<1>5. QED  BY <1>1, <1>3, <1>4

\* What halving does to a score.
LEMMA Halving ==
    ASSUME NEW s \in Nat, NEW a \in Nat
    PROVE  /\ s \div 2 ^ 0 = s
           /\ s \div 2 ^ a \in Nat /\ s \div 2 ^ a <= s
           /\ s \div 2 ^ (a + 1) = (s \div 2 ^ a) \div 2
           /\ s <= a => s \div 2 ^ a = 0
<1> DEFINE q == 2 ^ a
<1>1. q \in Nat /\ a < q /\ 2 ^ (a + 1) = 2 * q
  BY PowerCounts, PowerDoubles, PowerExceeds
<1> HIDE DEF q
<1>2. q > 0  BY <1>1
<1>3. s \div q \in Nat /\ s \div q <= s  BY <1>1, <1>2
<1>4. s \div (2 * q) = (s \div q) \div 2  BY <1>1, <1>2
<1>5. s < q => s \div q = 0  BY <1>1, <1>2
<1>6. s \div 2 ^ 0 = s
  <2>1. 2 ^ 0 = 1
    <3>1. 1..0 = {}  OBVIOUS
    <3>2. SUBSET (1..0) = {{}}  BY <3>1
    <3>3. QED  BY <3>2, PowerCounts, FS_Singleton
  <2>2. QED  BY <2>1
<1>7. QED  BY <1>1, <1>3, <1>4, <1>5, <1>6 DEF q

-----------------------------------------------------------------------------
(* The registry.                                                           *)

\* What the sightings say of who is known where: an id not given yet is nobody's,
\* a person identified within the tick is on that camera, and nobody is unseen for
\* longer than any camera's last identification is ago.
Sightings ==
    \A p \in Ids :
        /\ p >= nextId =>
              people[p] = Nobody /\ \A c \in Cameras : matched[c][p] = Old
        /\ people[p] # Nobody =>
              \A c \in Cameras : matched[c][p] = 0 =>
                 people[p].camera = c /\ people[p].seenAge = 0
        /\ \A c \in Cameras : matched[c][p] <= Window =>
              people[p] # Nobody /\ people[p].seenAge <= matched[c][p]

\* What a track rose and has not banked yet is still to come.
RiseBooked ==
    \A t \in Tracks : banked[t] + Rise(t) <= risen[t]

RegistryInv ==
    /\ RegistryTypeOK /\ FadesByHalfLife /\ Sightings
    /\ RiseBankedOnce /\ RiseBooked

\* The assumption on the constants, taken apart.
LEMMA RegistryConstants ==
    /\ Cam \in [Tracks -> Cameras]
    /\ Window \in Nat /\ MaxId \in Nat /\ MaxRaw \in Nat /\ MaxRisen \in Nat
    /\ MaxScore \in Nat
    /\ Old \in Nat /\ Old = Window + 1 /\ 0 \in 0..Old
    /\ Ids \subseteq Nat
BY RegistryAssumption DEF RegistryAssumption, Old, Ids

\* A person is a record of its own kind, which Nobody is not.
LEMMA PersonTyped ==
    ASSUME NEW x \in Person
    PROVE  /\ x # Nobody
           /\ x.score \in 0..MaxScore /\ x.scoreAge \in 0..MaxScore
           /\ x.seenAge \in 0..Old /\ x.camera \in Cameras /\ x.staff \in BOOLEAN
<1>1. "score" \in DOMAIN x  BY DEF Person
<1>2. DOMAIN Nobody = {"id"}  BY DEF Nobody
<1>3. QED  BY <1>1, <1>2 DEF Person

\* The values a person can take on.
LEMMA PersonMade ==
    ASSUME NEW sc \in 0..MaxScore, NEW sa \in 0..MaxScore, NEW se \in 0..Old,
           NEW c \in Cameras, NEW st \in BOOLEAN
    PROVE  [score |-> sc, scoreAge |-> sa, seenAge |-> se, camera |-> c, staff |-> st]
              \in Person
BY DEF Person

\* What the calls change of a person.
LEMMA PersonSeen ==
    ASSUME NEW x \in Person, NEW y, y.camera \in Cameras,
           y = [x EXCEPT !.seenAge = 0, !.camera = y.camera]
    PROVE  /\ y \in Person /\ y # Nobody
           /\ y.score = x.score /\ y.scoreAge = x.scoreAge
           /\ y.seenAge = 0 /\ y.staff = x.staff
<1>1. 0 \in 0..Old  BY RegistryConstants
<1>2. y \in Person  BY <1>1 DEF Person
<1>3. QED  BY <1>2, PersonTyped DEF Person

LEMMA PersonScored ==
    ASSUME NEW x \in Person, NEW y, y.score \in 0..MaxScore,
           y = [x EXCEPT !.score = y.score, !.scoreAge = 0, !.seenAge = 0]
    PROVE  /\ y \in Person /\ y # Nobody
           /\ y.scoreAge = 0
           /\ y.seenAge = 0 /\ y.camera = x.camera /\ y.staff = x.staff
<1>1. 0 \in 0..MaxScore /\ 0 \in 0..Old  BY RegistryConstants
<1>2. y \in Person  BY <1>1 DEF Person
<1>3. QED  BY <1>2, PersonTyped DEF Person

LEMMA PersonFlagged ==
    ASSUME NEW x \in Person, NEW y, y = [x EXCEPT !.staff = TRUE]
    PROVE  /\ y \in Person /\ y # Nobody
           /\ y.score = x.score /\ y.scoreAge = x.scoreAge
           /\ y.seenAge = x.seenAge /\ y.camera = x.camera /\ y.staff = TRUE
<1>1. y \in Person  BY DEF Person
<1>2. QED  BY <1>1, PersonTyped DEF Person

\* An age grows by one up to its bound.
LEMMA OlderTyped ==
    ASSUME NEW max \in Nat, NEW age \in 0..max
    PROVE  /\ Older(age, max) \in 0..max /\ age <= Older(age, max)
           /\ age < max => Older(age, max) = age + 1
           /\ age = max => Older(age, max) = max
BY DEF Older

LEMMA PersonAged ==
    ASSUME NEW x \in Person, NEW y,
           y = [x EXCEPT !.scoreAge = Older(@, MaxScore), !.seenAge = Older(@, Old)]
    PROVE  /\ y \in Person /\ y # Nobody
           /\ y.score = x.score
           /\ y.scoreAge = Older(x.scoreAge, MaxScore)
           /\ y.seenAge = Older(x.seenAge, Old)
           /\ y.camera = x.camera /\ y.staff = x.staff
<1>1. /\ Older(x.scoreAge, MaxScore) \in 0..MaxScore
      /\ Older(x.seenAge, Old) \in 0..Old
  BY PersonTyped, OlderTyped, RegistryConstants
<1>2. y = [x EXCEPT !.scoreAge = Older(x.scoreAge, MaxScore),
                    !.seenAge = Older(x.seenAge, Old)]
  OBVIOUS
<1>3. y \in Person  BY <1>1, <1>2 DEF Person
<1>4. QED  BY <1>1, <1>2, <1>3, PersonTyped DEF Person

\* A faded score is a score.
LEMMA FadedTyped ==
    ASSUME NEW x \in Person
    PROVE  x.score \div 2 ^ x.scoreAge \in 0..MaxScore
<1>1. x.score \in Nat /\ x.scoreAge \in Nat /\ x.score <= MaxScore /\ MaxScore \in Nat
  BY PersonTyped, RegistryConstants
<1>2. x.score \div 2 ^ x.scoreAge \in Nat /\ x.score \div 2 ^ x.scoreAge <= x.score
  BY <1>1, Halving
<1>3. QED  BY <1>1, <1>2

\* Nobody is known when the registry starts.
LEMMA RegistryInitInv == RegistryInit => RegistryInv
<1> SUFFICES ASSUME RegistryInit PROVE RegistryInv  OBVIOUS
<1>1. RegistryTypeOK
  BY RegistryConstants DEF RegistryInit, RegistryTypeOK, Ids, NoId
<1>2. FadesByHalfLife  BY DEF RegistryInit, FadesByHalfLife
<1>3. Sightings  BY RegistryConstants DEF RegistryInit, Sightings
<1>4. RiseBankedOnce /\ RiseBooked
  BY DEF RegistryInit, RiseBankedOnce, RiseBooked, Rise
<1>5. QED  BY <1>1, <1>2, <1>3, <1>4 DEF RegistryInv

-----------------------------------------------------------------------------
(* The tracks' books.                                                      *)

\* The part of the types that is about the tracks.
TracksTyped ==
    /\ step \in [Tracks -> {"frame", "bank", "flag"}]
    /\ pid \in [Tracks -> Ids \cup {NoId}]
    /\ \A t \in Tracks : step[t] # "frame" => pid[t] \in Ids
    /\ raw \in [Tracks -> 0..MaxRaw] /\ prev \in [Tracks -> 0..MaxRaw]
    /\ risen \in [Tracks -> 0..MaxRisen] /\ banked \in [Tracks -> Int]

Books == TracksTyped /\ RiseBankedOnce /\ RiseBooked

\* A new score of a track adds what it rose to what it has yet to bank.
LEMMA ScoredBooks ==
    ASSUME Books, NEW t \in Tracks, NEW r \in 0..MaxRaw, Scored(t, r),
           UNCHANGED <<prev, banked>>
    PROVE  /\ raw' \in [Tracks -> 0..MaxRaw] /\ risen' \in [Tracks -> 0..MaxRisen]
           /\ RiseBankedOnce' /\ RiseBooked'
<1> DEFINE rise == IF r > raw[t] THEN r - raw[t] ELSE 0
<1>0. /\ MaxRaw \in Nat /\ MaxRisen \in Nat
      /\ raw \in [Tracks -> 0..MaxRaw] /\ prev \in [Tracks -> 0..MaxRaw]
      /\ risen \in [Tracks -> 0..MaxRisen] /\ banked \in [Tracks -> Int]
  BY RegistryConstants DEF Books, TracksTyped
<1>1. /\ raw' = [raw EXCEPT ![t] = r] /\ risen' = [risen EXCEPT ![t] = @ + rise]
      /\ risen[t] + rise <= MaxRisen
      /\ prev' = prev /\ banked' = banked
  BY DEF Scored
<1>2. rise \in Nat /\ r \in Nat /\ raw[t] \in Nat /\ r <= raw[t] + rise
  BY <1>0
<1> HIDE DEF rise
<1>3. risen[t] + rise \in 0..MaxRisen  BY <1>0, <1>1, <1>2
<1>4. raw' \in [Tracks -> 0..MaxRaw] /\ risen' \in [Tracks -> 0..MaxRisen]
  BY <1>0, <1>1, <1>3
<1>5. ASSUME NEW u \in Tracks
      PROVE  /\ prev'[u] <= banked'[u] /\ banked'[u] <= risen'[u]
             /\ banked'[u] + Rise(u)' <= risen'[u]
  <2>1. /\ prev[u] <= banked[u] /\ banked[u] <= risen[u]
        /\ banked[u] + Rise(u) <= risen[u]
    BY DEF Books, RiseBankedOnce, RiseBooked
  <2>2. prev[u] \in Nat /\ raw[u] \in Nat /\ banked[u] \in Int /\ risen[u] \in Nat
    BY <1>0
  <2>3. CASE u = t
    <3>1. raw'[u] = r /\ risen'[u] = risen[u] + rise  BY <1>0, <1>1, <2>3
    <3>2. QED  BY <1>1, <1>2, <2>1, <2>2, <2>3, <3>1 DEF Rise
  <2>4. CASE u # t
    <3>1. raw'[u] = raw[u] /\ risen'[u] = risen[u]  BY <1>0, <1>1, <2>4
    <3>2. QED  BY <1>1, <2>1, <2>2, <3>1 DEF Rise
  <2>5. QED  BY <2>3, <2>4
<1>6. QED  BY <1>4, <1>5 DEF RiseBankedOnce, RiseBooked

\* add_score is called with the rise since the last call, which is then none.
LEMMA BankBooks ==
    ASSUME Books, NEW t \in Tracks, Bank(t)
    PROVE  Books'
<1>0. /\ MaxRaw \in Nat /\ MaxRisen \in Nat
      /\ raw \in [Tracks -> 0..MaxRaw] /\ prev \in [Tracks -> 0..MaxRaw]
      /\ risen \in [Tracks -> 0..MaxRisen] /\ banked \in [Tracks -> Int]
  BY RegistryConstants DEF Books, TracksTyped
<1>1. /\ banked' = [banked EXCEPT ![t] = @ + Rise(t)]
      /\ prev' = [prev EXCEPT ![t] = raw[t]]
      /\ step' = [step EXCEPT ![t] = "flag"] /\ step[t] = "bank"
      /\ pid' = pid /\ raw' = raw /\ risen' = risen
  BY DEF Bank
<1>2. Rise(t) \in Nat /\ raw[t] \in Nat /\ prev[t] \in Nat /\ raw[t] <= prev[t] + Rise(t)
  BY <1>0 DEF Rise
<1>3. TracksTyped'
  <2>1. banked' \in [Tracks -> Int] /\ prev' \in [Tracks -> 0..MaxRaw]
    BY <1>0, <1>1, <1>2
  <2>2. QED  BY <1>1, <2>1 DEF Books, TracksTyped
<1>4. ASSUME NEW u \in Tracks
      PROVE  /\ prev'[u] <= banked'[u] /\ banked'[u] <= risen'[u]
             /\ banked'[u] + Rise(u)' <= risen'[u]
  <2>1. /\ prev[u] <= banked[u] /\ banked[u] <= risen[u]
        /\ banked[u] + Rise(u) <= risen[u]
    BY DEF Books, RiseBankedOnce, RiseBooked
  <2>2. prev[u] \in Nat /\ raw[u] \in Nat /\ banked[u] \in Int /\ risen[u] \in Nat
    BY <1>0
  <2>3. CASE u = t
    <3>1. prev'[u] = raw[u] /\ banked'[u] = banked[u] + Rise(u)
      BY <1>0, <1>1, <2>3
    <3>2. Rise(u)' = 0  BY <1>1, <2>2, <3>1 DEF Rise
    <3>3. QED  BY <1>1, <1>2, <2>1, <2>2, <2>3, <3>1, <3>2
  <2>4. CASE u # t
    <3>1. prev'[u] = prev[u] /\ banked'[u] = banked[u]  BY <1>0, <1>1, <2>4
    <3>2. QED  BY <1>1, <2>1, <3>1 DEF Rise
  <2>5. QED  BY <2>3, <2>4
<1>5. QED  BY <1>3, <1>4 DEF Books, RiseBankedOnce, RiseBooked

\* Each step of the registry keeps the tracks' books.
LEMMA BooksInv ==
    ASSUME Books, nextId \in 1..(MaxId + 1), RegistryNext
    PROVE  Books'
<1>1. ASSUME NEW t \in Tracks, NEW r \in 0..MaxRaw, Unclear(t, r) PROVE Books'
  <2>1. Scored(t, r) /\ UNCHANGED <<prev, banked, step, pid>>  BY <1>1 DEF Unclear
  <2>2. QED  BY <2>1, ScoredBooks DEF Books, TracksTyped
<1>2. ASSUME NEW t \in Tracks, NEW r \in 0..MaxRaw, Identify(t, r) PROVE Books'
  <2>1. Scored(t, r) /\ UNCHANGED <<prev, banked>> /\ step' = [step EXCEPT ![t] = "bank"]
    BY <1>2 DEF Identify
  <2>2. PICK p \in Ids : pid' = [pid EXCEPT ![t] = p]
    <3>1. ASSUME NEW p \in Ids, Matches(t, p) PROVE pid' = [pid EXCEPT ![t] = p]
      BY <3>1 DEF Matches
    <3>2. ASSUME Creates(t)
          PROVE  nextId \in Ids /\ pid' = [pid EXCEPT ![t] = nextId]
      BY <3>2, RegistryConstants DEF Creates, Ids
    <3>3. QED  BY <1>2, <3>1, <3>2 DEF Identify
  <2>3. TracksTyped'
    BY <2>1, <2>2, ScoredBooks DEF Books, TracksTyped
  <2>4. QED  BY <2>1, <2>3, ScoredBooks DEF Books
<1>3. ASSUME NEW t \in Tracks, Bank(t) PROVE Books'  BY <1>3, BankBooks
<1>4. ASSUME NEW t \in Tracks, Forget(t) PROVE Books'
  <2>1. /\ raw' = [raw EXCEPT ![t] = 0] /\ prev' = [prev EXCEPT ![t] = 0]
        /\ risen' = [risen EXCEPT ![t] = 0] /\ banked' = [banked EXCEPT ![t] = 0]
        /\ step' = step /\ pid' = pid
    BY <1>4 DEF Forget
  <2>2. MaxRaw \in Nat /\ MaxRisen \in Nat  BY RegistryConstants
  <2>3. QED
    BY <2>1, <2>2 DEF Books, TracksTyped, RiseBankedOnce, RiseBooked, Rise
<1>5. ASSUME NEW t \in Tracks, NEW lock \in BOOLEAN, Flag(t, lock) PROVE Books'
  BY <1>5 DEF Flag, Books, TracksTyped, RiseBankedOnce, RiseBooked, Rise, NoId
<1>6. ASSUME HalfLife PROVE Books'
  BY <1>6 DEF HalfLife, Books, TracksTyped, RiseBankedOnce, RiseBooked, Rise
<1>7. QED  BY <1>1, <1>2, <1>3, <1>4, <1>5, <1>6 DEF RegistryNext

-----------------------------------------------------------------------------
(* The persons.                                                            *)

\* The part of the invariant that is about one person.
Known(p) ==
    /\ people[p] \in Person \cup {Nobody}
    /\ decayed[p] \in 0..MaxScore
    /\ people[p] # Nobody => Faded(p) = decayed[p]
    /\ p >= nextId => people[p] = Nobody /\ \A c \in Cameras : matched[c][p] = Old
    /\ people[p] # Nobody =>
          \A c \in Cameras : matched[c][p] = 0 =>
             people[p].camera = c /\ people[p].seenAge = 0
    /\ \A c \in Cameras : matched[c][p] <= Window =>
          people[p] # Nobody /\ people[p].seenAge <= matched[c][p]

PeopleInv ==
    /\ nextId \in 1..(MaxId + 1)
    /\ people \in [Ids -> Person \cup {Nobody}]
    /\ matched \in [Cameras -> [Ids -> 0..Old]]
    /\ decayed \in [Ids -> 0..MaxScore]
    /\ \A p \in Ids : Known(p)

\* The invariant is about the tracks and about the persons, apart from each other.
LEMMA RegistryInvParts == RegistryInv <=> Books /\ PeopleInv
BY DEF RegistryInv, RegistryTypeOK, FadesByHalfLife, Sightings, Books, TracksTyped,
       PeopleInv, Known

\* What is dropped when the stale are dropped.
LEMMA LiveOnes ==
    ASSUME PeopleInv, NEW p \in Ids
    PROVE  /\ Live[p] \in {people[p], Nobody}
           /\ Live[p] # people[p] =>
                 \A c \in Cameras : matched[c][p] \in 0..Old /\ ~(matched[c][p] <= Window)
           /\ \A c \in Cameras : matched[c][p] <= Window => Live[p] = people[p]
<1>1. Live[p] = IF Stale(p) THEN Nobody ELSE people[p]  BY DEF Live
<1>2. ASSUME Stale(p), NEW c \in Cameras, matched[c][p] <= Window PROVE FALSE
  <2>1. people[p] # Nobody /\ people[p].seenAge > Window  BY <1>2 DEF Stale
  <2>2. people[p].seenAge <= matched[c][p]  BY <1>2 DEF PeopleInv, Known
  <2>3. people[p] \in Person  BY <2>1 DEF PeopleInv
  <2>4. people[p].seenAge \in Nat /\ matched[c][p] \in Nat /\ Window \in Nat
    BY <2>3, PersonTyped, RegistryConstants DEF PeopleInv
  <2>5. QED  BY <1>2, <2>1, <2>2, <2>4
<1>3. \A c \in Cameras : matched[c][p] \in 0..Old  BY DEF PeopleInv
<1>4. QED  BY <1>1, <1>2, <1>3

\* Somebody dropped or kept is still known rightly.
LEMMA KnownAfterDrop ==
    ASSUME PeopleInv, NEW p \in Ids, people'[p] = Live[p], decayed'[p] = decayed[p],
           \A c \in Cameras : matched'[c][p] = matched[c][p],
           nextId' \in {nextId, nextId + 1}
    PROVE  Known(p)'
<1>1. Known(p)  BY DEF PeopleInv
<1>2. nextId \in Nat /\ p \in Nat  BY RegistryConstants DEF PeopleInv
<1>3. p >= nextId' => p >= nextId  BY <1>2
<1>4. CASE Live[p] = people[p]  BY <1>1, <1>3, <1>4 DEF Known, Faded
<1>5. CASE Live[p] # people[p]
  <2>1. Live[p] = Nobody /\ \A c \in Cameras : ~(matched[c][p] <= Window)
    BY <1>5, LiveOnes
  <2>2. QED  BY <1>1, <1>3, <2>1 DEF Known
<1>6. QED  BY <1>4, <1>5

\* A match refreshes a person's last sighting and camera.
LEMMA MatchesPeople ==
    ASSUME PeopleInv, NEW t \in Tracks, NEW p \in Ids, Matches(t, p)
    PROVE  PeopleInv'
<1> DEFINE x == Live[p]
           y == [x EXCEPT !.seenAge = 0, !.camera = Cam[t]]
<1>1. /\ x # Nobody /\ ~Elsewhere(p, Cam[t])
      /\ people' = [Live EXCEPT ![p] = y]
      /\ matched' = [matched EXCEPT ![Cam[t]][p] = 0]
      /\ nextId' = nextId /\ decayed' = decayed
  BY DEF Matches
<1>2. x = people[p] /\ x \in Person /\ Cam[t] \in Cameras /\ Known(p)
  BY <1>1, LiveOnes, RegistryConstants DEF PeopleInv
<1>3. /\ y \in Person /\ y.score = x.score /\ y.scoreAge = x.scoreAge
      /\ y.seenAge = 0 /\ y.camera = Cam[t] /\ y # Nobody
  <2>1. y = [x EXCEPT !.seenAge = 0, !.camera = Cam[t]]  OBVIOUS
  <2> HIDE DEF x, y
  <2>2. y.camera = Cam[t]  BY <1>2, <2>1 DEF Person
  <2>3. QED  BY <1>2, <2>1, <2>2, PersonSeen
<1>4. Live \in [Ids -> Person \cup {Nobody}]  BY DEF Live, PeopleInv
<1> HIDE DEF x, y
<1>5. /\ people' \in [Ids -> Person \cup {Nobody}] /\ people'[p] = y
      /\ \A u \in Ids \ {p} : people'[u] = Live[u]
  BY <1>1, <1>3, <1>4
<1>6. /\ matched' \in [Cameras -> [Ids -> 0..Old]] /\ matched'[Cam[t]][p] = 0
      /\ \A c \in Cameras, u \in Ids :
            c # Cam[t] \/ u # p => matched'[c][u] = matched[c][u]
  BY <1>1, <1>2, RegistryConstants DEF PeopleInv
<1>7. ASSUME NEW u \in Ids, u # p PROVE Known(u)'
  BY <1>1, <1>5, <1>6, <1>7, KnownAfterDrop
<1>8. Known(p)'
  <2>1. decayed'[p] \in 0..MaxScore /\ Faded(p)' = decayed'[p]
    BY <1>1, <1>2, <1>3, <1>5 DEF Known, Faded
  <2>2. ~(p >= nextId')  BY <1>1, <1>2 DEF Known
  <2>3. ASSUME NEW c \in Cameras, matched'[c][p] = 0 PROVE c = Cam[t]
    <3>1. CASE c # Cam[t]
      <4>1. matched[c][p] = 0  BY <1>6, <2>3, <3>1
      <4>2. people[p].camera = c /\ people[p].seenAge = 0  BY <1>1, <1>2, <4>1 DEF Known
      <4>3. Elsewhere(p, Cam[t])  BY <3>1, <4>2 DEF Elsewhere
      <4>4. QED  BY <1>1, <4>3
    <3>2. QED  BY <3>1
  <2>4. ASSUME NEW c \in Cameras PROVE 0 <= matched'[c][p]  BY <1>6
  <2>5. QED  BY <1>3, <1>5, <2>1, <2>2, <2>3, <2>4 DEF Known
<1>9. nextId' \in 1..(MaxId + 1) /\ decayed' \in [Ids -> 0..MaxScore]
  BY <1>1 DEF PeopleInv
<1>10. QED  BY <1>5, <1>6, <1>7, <1>8, <1>9 DEF PeopleInv

\* A new person gets an id nobody had.
LEMMA CreatesPeople ==
    ASSUME PeopleInv, NEW t \in Tracks, Creates(t)
    PROVE  PeopleInv'
<1>0. PICK p \in Nat : p = nextId  BY DEF PeopleInv
<1> DEFINE y == [score |-> 0, scoreAge |-> 0, seenAge |-> 0,
                 camera |-> Cam[t], staff |-> FALSE]
<1>1. /\ p <= MaxId
      /\ people' = [Live EXCEPT ![p] = y]
      /\ matched' = [matched EXCEPT ![Cam[t]][p] = 0]
      /\ nextId' = p + 1 /\ decayed' = [decayed EXCEPT ![p] = 0]
  BY <1>0 DEF Creates
<1>2. p \in Ids /\ p \in Nat /\ Cam[t] \in Cameras /\ 0 \in 0..MaxScore /\ 0 \in 0..Old
  BY <1>0, <1>1, RegistryConstants DEF PeopleInv, Ids
<1>3. /\ y \in Person /\ y.score = 0 /\ y.scoreAge = 0
      /\ y.seenAge = 0 /\ y.camera = Cam[t]
  BY <1>2 DEF Person
<1>4. Known(p) /\ y # Nobody  BY <1>2, <1>3, PersonTyped DEF PeopleInv
<1>5. Live \in [Ids -> Person \cup {Nobody}]  BY DEF Live, PeopleInv
<1> HIDE DEF y
<1>6. /\ people' \in [Ids -> Person \cup {Nobody}] /\ people'[p] = y
      /\ \A u \in Ids \ {p} : people'[u] = Live[u]
  BY <1>1, <1>2, <1>3, <1>5
<1>7. /\ matched' \in [Cameras -> [Ids -> 0..Old]] /\ matched'[Cam[t]][p] = 0
      /\ \A c \in Cameras, u \in Ids :
            c # Cam[t] \/ u # p => matched'[c][u] = matched[c][u]
  BY <1>1, <1>2, RegistryConstants DEF PeopleInv
<1>8. /\ decayed' \in [Ids -> 0..MaxScore] /\ decayed'[p] = 0
      /\ \A u \in Ids \ {p} : decayed'[u] = decayed[u]
  BY <1>1, <1>2 DEF PeopleInv
<1>9. ASSUME NEW u \in Ids, u # p PROVE Known(u)'
  BY <1>0, <1>1, <1>6, <1>7, <1>8, <1>9, KnownAfterDrop
<1>10. Known(p)'
  <2>1. Faded(p)' = 0
    <3>1. Faded(p)' = 0 \div 2 ^ 0  BY <1>3, <1>6 DEF Faded
    <3>2. QED  BY <3>1, Halving
  <2>2. ~(p >= nextId')  BY <1>1, <1>2
  <2>3. ASSUME NEW c \in Cameras, c # Cam[t] PROVE matched'[c][p] = Old
    BY <1>0, <1>2, <1>4, <1>7, <2>3 DEF Known
  <2>4. ASSUME NEW c \in Cameras PROVE 0 <= matched'[c][p]  BY <1>2, <1>7
  <2>5. Old # 0  BY RegistryConstants
  <2>6. QED
    BY <1>2, <1>3, <1>4, <1>6, <1>8, <2>1, <2>2, <2>3, <2>4, <2>5 DEF Known
<1>11. nextId' \in 1..(MaxId + 1)  BY <1>0, <1>1, RegistryConstants DEF PeopleInv
<1>12. QED  BY <1>6, <1>7, <1>8, <1>9, <1>10, <1>11 DEF PeopleInv

\* add_score fades the score before it adds, and the score is young again.
LEMMA AddScorePeople ==
    ASSUME PeopleInv, NEW p \in Ids, NEW delta \in Nat, AddScore(p, delta),
           UNCHANGED <<nextId, matched>>
    PROVE  PeopleInv'
<1>1. CASE people[p] = Nobody
  <2>1. UNCHANGED <<people, decayed, nextId, matched>>  BY <1>1 DEF AddScore
  <2>2. QED  BY <2>1 DEF PeopleInv, Known, Faded
<1>2. CASE people[p] # Nobody
  <2> DEFINE x == people[p]
             sc == Faded(p) + delta
             y == [x EXCEPT !.score = sc, !.scoreAge = 0, !.seenAge = 0]
  <2>1. /\ sc <= MaxScore /\ people' = [people EXCEPT ![p] = y]
        /\ decayed' = [decayed EXCEPT ![p] = @ + delta]
        /\ nextId' = nextId /\ matched' = matched
    BY <1>2 DEF AddScore
  <2>2. x \in Person /\ Known(p)  BY <1>2 DEF PeopleInv
  <2>3. Faded(p) \in Nat /\ Faded(p) = decayed[p] /\ sc \in 0..MaxScore
    BY <1>2, <2>1, <2>2, FadedTyped, RegistryConstants DEF Known, Faded
  <2>4. /\ y \in Person /\ y.score = sc /\ y.scoreAge = 0
        /\ y.seenAge = 0 /\ y.camera = x.camera /\ y # Nobody
    <3>1. y = [x EXCEPT !.score = sc, !.scoreAge = 0, !.seenAge = 0]  OBVIOUS
    <3> HIDE DEF x, sc, y
    <3>2. y.score = sc  BY <2>2, <3>1 DEF Person
    <3>3. QED  BY <2>2, <2>3, <3>1, <3>2, PersonScored
  <2>5. decayed[p] + delta = sc  BY <2>3
  <2> HIDE DEF sc, y
  <2>6. /\ people' \in [Ids -> Person \cup {Nobody}] /\ people'[p] = y
        /\ \A u \in Ids \ {p} : people'[u] = people[u]
    BY <2>1, <2>4 DEF PeopleInv
  <2>7. /\ decayed' \in [Ids -> 0..MaxScore] /\ decayed'[p] = sc
        /\ \A u \in Ids \ {p} : decayed'[u] = decayed[u]
    BY <2>1, <2>3, <2>5 DEF PeopleInv
  <2>8. ASSUME NEW u \in Ids, u # p PROVE Known(u)'
    BY <2>1, <2>6, <2>7, <2>8 DEF PeopleInv, Known, Faded
  <2>9. Known(p)'
    <3>1. Faded(p)' = sc
      <4>1. Faded(p)' = sc \div 2 ^ 0  BY <2>4, <2>6 DEF Faded
      <4>2. QED  BY <2>3, <4>1, Halving
    <3>2. \A c \in Cameras : matched[c][p] \in 0..Old  BY DEF PeopleInv
    <3>3. QED  BY <1>2, <2>1, <2>2, <2>3, <2>4, <2>6, <2>7, <3>1, <3>2 DEF Known
  <2>10. QED  BY <2>1, <2>6, <2>7, <2>8, <2>9 DEF PeopleInv
<1>3. QED  BY <1>1, <1>2

\* A track's vote marks its person as staff and changes no other record.
LEMMA FlagPeople ==
    ASSUME PeopleInv, Books, NEW t \in Tracks, NEW lock \in BOOLEAN, Flag(t, lock)
    PROVE  PeopleInv'
<1>0. PICK p \in Ids : p = pid[t]  BY DEF Flag, Books, TracksTyped
<1> DEFINE x == people[p]
           y == [x EXCEPT !.staff = TRUE]
<1>1. nextId' = nextId /\ decayed' = decayed /\ matched' = matched
  BY DEF Flag
<1>2. CASE people' = people  BY <1>1, <1>2 DEF PeopleInv, Known, Faded
<1>3. CASE x # Nobody /\ people' = [people EXCEPT ![p] = y]
  <2>1. x \in Person /\ Known(p)  BY <1>1, <1>3 DEF PeopleInv
  <2>2. /\ y \in Person /\ y.score = x.score /\ y.scoreAge = x.scoreAge
        /\ y.seenAge = x.seenAge /\ y.camera = x.camera /\ y # Nobody
    <3>1. y = [x EXCEPT !.staff = TRUE]  OBVIOUS
    <3> HIDE DEF x, y
    <3>2. QED  BY <2>1, <3>1, PersonFlagged
  <2> HIDE DEF y
  <2>3. /\ people' \in [Ids -> Person \cup {Nobody}] /\ people'[p] = y
        /\ \A u \in Ids \ {p} : people'[u] = people[u]
    BY <1>1, <1>3, <2>2 DEF PeopleInv
  <2>4. ASSUME NEW u \in Ids, u # p PROVE Known(u)'
    BY <1>1, <2>3, <2>4 DEF PeopleInv, Known, Faded
  <2>5. Known(p)'  BY <1>1, <1>3, <2>1, <2>2, <2>3 DEF Known, Faded
  <2>6. QED  BY <1>1, <2>3, <2>4, <2>5 DEF PeopleInv
<1>4. QED  BY <1>0, <1>2, <1>3 DEF Flag

\* A half-life ages every person and every sighting by one.
LEMMA HalfLifePeople ==
    ASSUME PeopleInv, HalfLife
    PROVE  PeopleInv'
<1>1. /\ people' = [p \in Ids |->
            IF people[p] = Nobody THEN Nobody
            ELSE [people[p] EXCEPT !.scoreAge = Older(@, MaxScore),
                                   !.seenAge = Older(@, Old)]]
      /\ decayed' = [p \in Ids |-> decayed[p] \div 2]
      /\ matched' = [c \in Cameras |-> [p \in Ids |-> Older(matched[c][p], Old)]]
      /\ nextId' = nextId
  BY DEF HalfLife
<1>2. ASSUME NEW p \in Ids PROVE decayed'[p] \in 0..MaxScore
  <2>1. decayed[p] \in 0..MaxScore /\ MaxScore \in Nat
    BY RegistryConstants DEF PeopleInv
  <2>2. decayed'[p] = decayed[p] \div 2  BY <1>1
  <2>3. QED  BY <2>1, <2>2
<1>3. ASSUME NEW c \in Cameras, NEW p \in Ids
      PROVE  /\ matched'[c][p] \in 0..Old /\ matched[c][p] <= matched'[c][p]
             /\ matched[c][p] < Old => matched'[c][p] = matched[c][p] + 1
             /\ matched[c][p] = Old => matched'[c][p] = Old
  <2>1. matched[c][p] \in 0..Old /\ matched'[c][p] = Older(matched[c][p], Old)
    BY <1>1 DEF PeopleInv
  <2>2. Old \in Nat  BY RegistryConstants
  <2>3. QED  BY <2>1, <2>2, OlderTyped
<1>4. ASSUME NEW p \in Ids PROVE people'[p] \in Person \cup {Nobody} /\ Known(p)'
  <2>0. Known(p) /\ Old \in Nat /\ Old = Window + 1 /\ Window \in Nat
    BY RegistryConstants DEF PeopleInv
  <2>1. CASE people[p] = Nobody
    <3>1. people'[p] = Nobody  BY <1>1, <2>1
    <3>2. ASSUME NEW c \in Cameras PROVE ~(matched'[c][p] <= Window)
      <4>1. ~(matched[c][p] <= Window) /\ matched[c][p] \in 0..Old
        BY <2>0, <2>1 DEF Known, PeopleInv
      <4>2. QED  BY <1>3, <2>0, <4>1
    <3>3. QED  BY <1>1, <1>2, <1>3, <2>0, <2>1, <3>1, <3>2 DEF Known
  <2>2. CASE people[p] # Nobody
    <3> DEFINE x == people[p]
               y == people'[p]
    <3>1. x \in Person  BY <2>2 DEF PeopleInv
    <3>2. y = [x EXCEPT !.scoreAge = Older(@, MaxScore), !.seenAge = Older(@, Old)]
      BY <1>1, <2>2
    <3>3. /\ y \in Person /\ y.score = x.score
          /\ y.scoreAge = Older(x.scoreAge, MaxScore)
          /\ y.seenAge = Older(x.seenAge, Old)
          /\ y.camera = x.camera /\ y # Nobody
      BY <3>1, <3>2, PersonAged
    <3>4. /\ x.score \in 0..MaxScore /\ x.scoreAge \in 0..MaxScore
          /\ x.seenAge \in 0..Old /\ MaxScore \in Nat
      BY <3>1, PersonTyped, RegistryConstants
    <3>5. Faded(p)' = decayed'[p]
      <4>1. Faded(p) = decayed[p]  BY <2>0, <2>2 DEF Known
      <4>2. decayed'[p] = (x.score \div 2 ^ x.scoreAge) \div 2
        BY <1>1, <4>1 DEF Faded
      <4>3. Faded(p)' = x.score \div 2 ^ y.scoreAge  BY <3>3 DEF Faded
      <4>4. CASE x.scoreAge < MaxScore
        <5>1. y.scoreAge = x.scoreAge + 1  BY <3>3, <3>4, <4>4, OlderTyped
        <5>2. x.score \in Nat /\ x.scoreAge \in Nat  BY <3>4
        <5> HIDE DEF x, y
        <5>3. x.score \div 2 ^ (x.scoreAge + 1) = (x.score \div 2 ^ x.scoreAge) \div 2
          BY <5>2, Halving
        <5>4. QED  BY <4>2, <4>3, <5>1, <5>3
      <4>5. CASE x.scoreAge = MaxScore
        <5>1. y.scoreAge = MaxScore  BY <3>3, <3>4, <4>5, OlderTyped
        <5>2. x.score \in Nat /\ MaxScore \in Nat /\ x.score <= MaxScore  BY <3>4
        <5> HIDE DEF x, y
        <5>3. x.score \div 2 ^ MaxScore = 0  BY <5>2, Halving
        <5>4. QED  BY <4>2, <4>3, <4>5, <5>1, <5>3
      <4>6. QED  BY <3>4, <4>4, <4>5
    <3>6. ASSUME NEW c \in Cameras PROVE matched'[c][p] # 0
      <4>1. matched[c][p] \in 0..Old  BY DEF PeopleInv
      <4>2. QED  BY <1>3, <2>0, <4>1
    <3>7. ASSUME NEW c \in Cameras, matched'[c][p] <= Window
          PROVE  y.seenAge <= matched'[c][p]
      <4>1. /\ matched[c][p] \in 0..Old /\ matched'[c][p] \in 0..Old
            /\ matched[c][p] <= matched'[c][p]
        BY <1>3 DEF PeopleInv
      <4>2. matched[c][p] <= Window /\ matched'[c][p] = matched[c][p] + 1
        BY <1>3, <2>0, <3>7, <4>1
      <4>3. x.seenAge <= matched[c][p]  BY <2>0, <4>2 DEF Known
      <4>4. y.seenAge <= x.seenAge + 1  BY <2>0, <3>3, <3>4, OlderTyped
      <4>5. y.seenAge \in 0..Old  BY <3>3, PersonTyped
      <4>6. QED  BY <2>0, <3>4, <4>1, <4>2, <4>3, <4>4, <4>5
    <3>8. ~(p >= nextId')  BY <1>1, <2>0, <2>2 DEF Known
    <3>9. QED  BY <1>2, <3>3, <3>5, <3>6, <3>7, <3>8 DEF Known
  <2>3. QED  BY <2>1, <2>2
<1>5. nextId' \in 1..(MaxId + 1)  BY <1>1 DEF PeopleInv
<1>6. people' \in [Ids -> Person \cup {Nobody}]  BY <1>1, <1>4
<1>7. decayed' \in [Ids -> 0..MaxScore]  BY <1>1, <1>2
<1>8. matched' \in [Cameras -> [Ids -> 0..Old]]  BY <1>1, <1>3
<1>9. QED  BY <1>4, <1>5, <1>6, <1>7, <1>8 DEF PeopleInv

\* Each step of the registry preserves the invariant.
LEMMA RegistryStepInv == RegistryInv /\ [RegistryNext]_registryVars => RegistryInv'
<1> SUFFICES ASSUME RegistryInv, [RegistryNext]_registryVars PROVE RegistryInv'
  OBVIOUS
<1>0. Books /\ PeopleInv  BY RegistryInvParts
<1>1. ASSUME UNCHANGED registryVars PROVE Books' /\ PeopleInv'
  BY <1>0, <1>1 DEF registryVars, Books, TracksTyped, RiseBankedOnce, RiseBooked, Rise,
              PeopleInv, Known, Faded
<1>2. ASSUME RegistryNext PROVE Books' /\ PeopleInv'
  <2>0. Books /\ PeopleInv  BY <1>0
  <2>1. Books'  BY <1>2, <2>0, BooksInv DEF PeopleInv
  <2>2. ASSUME NEW t \in Tracks, NEW r \in 0..MaxRaw, Unclear(t, r) PROVE PeopleInv'
    BY <2>0, <2>2 DEF Unclear, PeopleInv, Known, Faded
  <2>3. ASSUME NEW t \in Tracks, NEW r \in 0..MaxRaw, Identify(t, r) PROVE PeopleInv'
    BY <2>0, <2>3, MatchesPeople, CreatesPeople DEF Identify
  <2>4. ASSUME NEW t \in Tracks, Bank(t) PROVE PeopleInv'
    <3>1. AddScore(pid[t], Rise(t)) /\ UNCHANGED <<nextId, matched>>  BY <2>4 DEF Bank
    <3>2. pid[t] \in Ids  BY <2>0, <2>4 DEF Bank, Books, TracksTyped
    <3>3. Rise(t) \in Nat  BY <2>0, RegistryConstants DEF Rise, Books, TracksTyped
    <3>4. QED  BY <2>0, <3>1, <3>2, <3>3, AddScorePeople
  <2>5. ASSUME NEW t \in Tracks, Forget(t) PROVE PeopleInv'
    BY <2>0, <2>5 DEF Forget, PeopleInv, Known, Faded
  <2>6. ASSUME NEW t \in Tracks, NEW lock \in BOOLEAN, Flag(t, lock) PROVE PeopleInv'
    BY <2>0, <2>6, FlagPeople
  <2>7. ASSUME HalfLife PROVE PeopleInv'  BY <2>0, <2>7, HalfLifePeople
  <2>8. QED  BY <1>2, <2>1, <2>2, <2>3, <2>4, <2>5, <2>6, <2>7 DEF RegistryNext
<1>3. QED
  <2>1. Books' /\ PeopleInv'  BY <1>1, <1>2
  <2>2. QED
    BY <2>1 DEF RegistryInv, RegistryTypeOK, FadesByHalfLife, Sightings, Books,
                TracksTyped, PeopleInv, Known

\* So the invariant always holds.
LEMMA RegistryInvariance == RegistrySpec => []RegistryInv
BY RegistryInitInv, RegistryStepInv, PTL DEF RegistrySpec

-----------------------------------------------------------------------------
(* What a step may do to a person.                                         *)

\* Only identifying somebody makes a camera's last identification more recent.
LEMMA RecentStep ==
    ASSUME PeopleInv, [RegistryNext]_registryVars, NEW c \in Cameras, NEW p \in Ids,
           matched'[c][p] < matched[c][p]
    PROVE  \/ Live[p] # Nobody /\ ~Elsewhere(p, c)
           \/ p = nextId
<1>0. matched[c][p] \in 0..Old /\ Old \in Nat /\ ~(matched'[c][p] = matched[c][p])
  BY RegistryConstants DEF PeopleInv
<1>1. ASSUME NEW t \in Tracks, NEW u \in Ids, Matches(t, u)
      PROVE  Live[p] # Nobody /\ ~Elsewhere(p, c)
  <2>1. matched' = [matched EXCEPT ![Cam[t]][u] = 0] /\ Cam[t] \in Cameras
    BY <1>1, RegistryConstants DEF Matches
  <2>2. c = Cam[t] /\ p = u  BY <1>0, <2>1 DEF PeopleInv
  <2>3. QED  BY <1>1, <2>2 DEF Matches
<1>2. ASSUME NEW t \in Tracks, Creates(t) PROVE p = nextId
  <2>1. /\ matched' = [matched EXCEPT ![Cam[t]][nextId] = 0]
        /\ Cam[t] \in Cameras /\ nextId \in Ids
    BY <1>2, RegistryConstants DEF Creates, PeopleInv, Ids
  <2>2. QED  BY <1>0, <2>1 DEF PeopleInv
<1>3. ASSUME HalfLife PROVE FALSE
  <2>1. matched'[c][p] = Older(matched[c][p], Old)  BY <1>3 DEF HalfLife
  <2>2. matched[c][p] <= Older(matched[c][p], Old)
        /\ Older(matched[c][p], Old) \in 0..Old
    BY <1>0, OlderTyped
  <2>3. QED  BY <1>0, <2>1, <2>2
<1>4. matched' # matched  BY <1>0
<1>5. QED
  BY <1>1, <1>2, <1>3, <1>4 DEF RegistryNext, registryVars, Unclear, Identify, Bank,
                                Forget, Flag

\* A person some camera identified within the window is neither dropped nor
\* loses the mark, whatever the step.
LEMMA KeptStep ==
    ASSUME PeopleInv, Books, [RegistryNext]_registryVars, NEW c \in Cameras,
           NEW p \in Ids, matched[c][p] <= Window
    PROVE  people'[p] # Nobody /\ (people[p].staff => people'[p].staff)
<1> DEFINE x == people[p]
           Kept == people'[p] # Nobody /\ (x.staff => people'[p].staff)
<1>0. x \in Person /\ x # Nobody /\ Known(p) /\ Live[p] = x
      /\ Live \in [Ids -> Person \cup {Nobody}]
  BY LiveOnes DEF PeopleInv, Known, Live
<1>1. CASE people' = people  BY <1>0, <1>1
<1>2. ASSUME NEW t \in Tracks, NEW u \in Ids, Matches(t, u) PROVE Kept
  <2>1. people' = [Live EXCEPT ![u] = [Live[u] EXCEPT !.seenAge = 0, !.camera = Cam[t]]]
        /\ Cam[t] \in Cameras
    BY <1>2, RegistryConstants DEF Matches
  <2>2. CASE u # p
    <3>1. people'[p] = x  BY <1>0, <2>1, <2>2
    <3>2. QED  BY <1>0, <3>1
  <2>3. CASE u = p
    <3>1. people'[p] = [x EXCEPT !.seenAge = 0, !.camera = Cam[t]]
      BY <1>0, <2>1, <2>3
    <3> DEFINE y == people'[p]
    <3>2. y = [x EXCEPT !.seenAge = 0, !.camera = Cam[t]]  BY <3>1
    <3>3. x \in Person /\ Cam[t] \in Cameras  BY <1>0, <2>1
    <3> HIDE DEF x, y
    <3>4. y.camera = Cam[t]  BY <3>2, <3>3 DEF Person
    <3>5. y # Nobody /\ y.staff = x.staff  BY <3>2, <3>3, <3>4, PersonSeen
    <3>6. QED  BY <3>5 DEF x, y
  <2>4. QED  BY <2>2, <2>3
<1>3. ASSUME NEW t \in Tracks, Creates(t) PROVE Kept
  <2>1. p # nextId
    <3>1. nextId \in Nat /\ p \in Nat  BY RegistryConstants DEF PeopleInv
    <3>2. QED  BY <1>0, <3>1 DEF Known
  <2>2. people'[p] = x  BY <1>0, <1>3, <2>1 DEF Creates
  <2>3. QED  BY <1>0, <2>2
<1>4. ASSUME NEW t \in Tracks, Bank(t) PROVE Kept
  <2>1. CASE people' = people  BY <1>1, <2>1
  <2>2. CASE people' # people
    <3> DEFINE u == pid[t]
               sc == Faded(u) + Rise(t)
    <3>1. /\ people[u] # Nobody /\ sc <= MaxScore
          /\ people' = [people EXCEPT ![u] = [people[u] EXCEPT !.score = sc,
                                               !.scoreAge = 0, !.seenAge = 0]]
      BY <1>4, <2>2 DEF Bank, AddScore
    <3>2. CASE u # p
      <4>1. people'[p] = x  BY <3>1, <3>2 DEF PeopleInv
      <4>2. QED  BY <1>0, <4>1
    <3>3. CASE u = p
      <4>1. Rise(t) \in Nat  BY RegistryConstants DEF Rise, Books, TracksTyped
      <4>2. sc \in 0..MaxScore
        BY <1>0, <3>1, <3>3, <4>1, FadedTyped, RegistryConstants DEF Faded
      <4>3. people'[p] = [x EXCEPT !.score = sc, !.scoreAge = 0, !.seenAge = 0]
        BY <3>1, <3>3 DEF PeopleInv
      <4> DEFINE y == people'[p]
      <4>4. y = [x EXCEPT !.score = sc, !.scoreAge = 0, !.seenAge = 0]  BY <4>3
      <4>5. x \in Person /\ sc \in 0..MaxScore  BY <1>0, <4>2
      <4> HIDE DEF x, sc, y
      <4>6. y.score = sc  BY <4>4, <4>5 DEF Person
      <4>7. y # Nobody /\ y.staff = x.staff  BY <4>4, <4>5, <4>6, PersonScored
      <4>8. QED  BY <4>7 DEF x, y
    <3>4. QED  BY <3>2, <3>3
  <2>3. QED  BY <2>1, <2>2
<1>5. ASSUME NEW t \in Tracks, NEW lock \in BOOLEAN, Flag(t, lock) PROVE Kept
  <2>1. CASE people' = people  BY <1>1, <2>1
  <2>2. CASE people' # people
    <3>1. people' = [people EXCEPT ![pid[t]] = [people[pid[t]] EXCEPT !.staff = TRUE]]
      BY <1>5, <2>2 DEF Flag
    <3>2. CASE pid[t] # p
      <4>1. people'[p] = x  BY <3>1, <3>2 DEF PeopleInv
      <4>2. QED  BY <1>0, <4>1
    <3>3. CASE pid[t] = p
      <4>1. people'[p] = [x EXCEPT !.staff = TRUE]  BY <3>1, <3>3 DEF PeopleInv
      <4>2. QED  BY <1>0, <4>1, PersonFlagged
    <3>4. QED  BY <3>2, <3>3
  <2>3. QED  BY <2>1, <2>2
<1>6. ASSUME HalfLife PROVE Kept
  <2>1. people'[p] = [x EXCEPT !.scoreAge = Older(@, MaxScore), !.seenAge = Older(@, Old)]
    BY <1>0, <1>6 DEF HalfLife
  <2>2. QED  BY <1>0, <2>1, PersonAged
<1>7. QED
  BY <1>1, <1>2, <1>3, <1>4, <1>5, <1>6 DEF RegistryNext, registryVars, Unclear,
                                            Identify, Forget

-----------------------------------------------------------------------------
(* The theorems.                                                           *)

\* The persons, the cameras' sightings and the tracks' books have their types, for any
\* cameras, tracks and limits.
THEOREM RegistryTypeCorrect == RegistrySpec => []RegistryTypeOK
<1>1. RegistryInv => RegistryTypeOK  BY DEF RegistryInv
<1>2. QED  BY <1>1, RegistryInvariance, PTL

\* The score _decay_locked computes from the time of the last one, when add_score is
\* called, equals the score halved at every half-life, for all heights and all times
\* between.
THEOREM ScoreFades == RegistrySpec => []FadesByHalfLife
<1>1. RegistryInv => FadesByHalfLife  BY DEF RegistryInv
<1>2. QED  BY <1>1, RegistryInvariance, PTL

\* What the camera worker has banked of a track's risk never exceeds what the risk
\* rose, nor falls behind the risk it compares with: a rise on a frame that identified
\* nobody is banked later, and once.
THEOREM NoRiseBankedTwice == RegistrySpec => []RiseBankedOnce
<1>1. RegistryInv => RiseBankedOnce  BY DEF RegistryInv
<1>2. QED  BY <1>1, RegistryInvariance, PTL

\* No camera matches a person whom another camera identified within coexist_sec,
\* because every match leaves its camera and time with the person and no other call
\* touches them.
THEOREM OneCameraAtATime == RegistrySpec => NowhereTwice
<1>1. ASSUME RegistryInv, [RegistryNext]_registryVars
      PROVE  [\A c, e \in Cameras, p \in Ids :
                c # e /\ matched'[c][p] < matched[c][p]
                   => matched[e][p] >= 1]_registryVars
  <2> SUFFICES ASSUME NEW c \in Cameras, NEW e \in Cameras, NEW p \in Ids,
                      c # e, matched'[c][p] < matched[c][p]
               PROVE  matched[e][p] >= 1
    OBVIOUS
  <2>1. PeopleInv /\ Known(p) /\ matched[e][p] \in 0..Old
    BY <1>1, RegistryInvParts DEF PeopleInv
  <2>2. CASE Live[p] # Nobody /\ ~Elsewhere(p, c)
    <3>1. people[p] # Nobody  BY <2>1, <2>2, LiveOnes
    <3>2. CASE matched[e][p] = 0
      <4>1. people[p].camera = e /\ people[p].seenAge = 0
        BY <2>1, <3>1, <3>2 DEF Known
      <4>2. QED  BY <2>2, <4>1 DEF Elsewhere
    <3>3. QED  BY <2>1, <3>2, RegistryConstants
  <2>3. CASE p = nextId
    <3>1. nextId \in Nat  BY <2>1 DEF PeopleInv
    <3>2. matched[e][p] = Old  BY <2>1, <2>3, <3>1 DEF Known
    <3>3. QED  BY <3>2, RegistryConstants
  <2>4. QED  BY <1>1, <2>1, <2>2, <2>3, RecentStep
<1>2. QED  BY <1>1, RegistryInvariance, PTL DEF RegistrySpec, NowhereTwice

\* The expiry of identities never hits a person whom some camera identified within the
\* window, and staff among them remain staff.
THEOREM SeenIsRemembered == RegistrySpec => RememberedWhileSeen
<1>1. ASSUME RegistryInv, [RegistryNext]_registryVars
      PROVE  [\A c \in Cameras, p \in Ids :
                matched[c][p] <= Window =>
                   /\ people'[p] # Nobody
                   /\ people[p].staff => people'[p].staff]_registryVars
  BY <1>1, KeptStep, RegistryInvParts
<1>2. QED  BY <1>1, RegistryInvariance, PTL DEF RegistrySpec, RememberedWhileSeen

(***************************************************************************)
(* III. The scan scheduling (ScanScheduler), for every cooldown.           *)
(***************************************************************************)

\* What was taken is remembered by the camera's clock, and no clock runs ahead.
ClocksBehind ==
    /\ lastScan <= now
    /\ \A p \in Persons :
          /\ verified[p] <= now
          /\ verified[p] # Never => lastScan # Never /\ verified[p] <= lastScan

\* The table, before or after a cleanup, still holds every running cooldown.
Remembers(table) ==
    \A p \in Persons :
        verified[p] # Never /\ now - verified[p] < cooldown
                            /\ now - verified[p] <= StaleAfter
            => table[p] # Never /\ table[p] >= verified[p]

ScanInv == ScanTypeOK /\ ClocksBehind /\ CooldownRemembered

\* What an analysed frame works on: the table it looks persons up in has the
\* type of the table and still holds every running cooldown.
LEMMA TableRemembers ==
    ASSUME ScanInv, NEW view \in SUBSET Persons,
           NEW table, table = Pruned(view) \/ table = scanned
    PROVE  /\ table \in [Persons -> Times \cup {Never}]
           /\ Remembers(table)
  <1>1. CASE table = scanned
    BY <1>1 DEF ScanInv, ScanTypeOK, CooldownRemembered, Remembers
  <1>2. CASE table = Pruned(view)
    <2>1. table \in [Persons -> Times \cup {Never}]
      BY <1>2 DEF Pruned, ScanInv, ScanTypeOK
    <2>2. ASSUME NEW p \in Persons,
                 verified[p] # Never, now - verified[p] < cooldown,
                 now - verified[p] <= StaleAfter
          PROVE  table[p] # Never /\ table[p] >= verified[p]
      <3>1. /\ scanned[p] # Never /\ scanned[p] >= verified[p]
            /\ scanned[p] \in Int /\ verified[p] \in Int /\ now \in Int
        BY <2>2, ScanAssumption
           DEF ScanInv, ScanTypeOK, CooldownRemembered, Times, Never, ScanAssumption
      <3>2. ~(now - scanned[p] > StaleAfter)
        BY <3>1, <2>2, ScanAssumption DEF ScanAssumption
      <3> QED BY <1>2, <3>1, <3>2 DEF Pruned
    <2> QED BY <2>1, <2>2 DEF Remembers
  <1> QED BY <1>1, <1>2

\* What a frame does, with the table it uses named.
LEMMA FrameCases ==
    ASSUME NEW view \in SUBSET Persons, NEW risk, Frame(view, risk)
    PROVE  \E table :
              /\ table = Pruned(view) \/ table = scanned
              /\ \/ /\ Due
                    /\ \E p \in view : Cooled(table, p) /\ HandOver(p, table)
                 \/ scanned' = table /\ UNCHANGED <<lastScan, busy, verified>>
              /\ UNCHANGED <<cooldown, now, pushing>>
              /\ Counted(frames = CleanupEvery)
  <1> DEFINE table == IF frames = CleanupEvery THEN Pruned(view) ELSE scanned
  <1>1. table = Pruned(view) \/ table = scanned
    OBVIOUS
  <1>2. /\ \/ /\ Due
              /\ \E p \in view : Cooled(table, p) /\ HandOver(p, table)
           \/ scanned' = table /\ UNCHANGED <<lastScan, busy, verified>>
        /\ UNCHANGED <<cooldown, now, pushing>>
        /\ Counted(frames = CleanupEvery)
    BY DEF Frame
  <1> QED BY <1>1, <1>2

\* Nobody has been verified when a camera starts.
LEMMA ScanInitInv == ScanInit => ScanInv
  <1> SUFFICES ASSUME ScanInit PROVE ScanInv
    OBVIOUS
  <1>1. 0 \in Times /\ 0 \in 0..CleanupEvery
    BY ScanAssumption DEF ScanAssumption, Times
  <1>2. ScanTypeOK
    BY <1>1 DEF ScanInit, ScanTypeOK
  <1>3. ClocksBehind
    BY DEF ScanInit, ClocksBehind, Never
  <1>4. CooldownRemembered
    BY DEF ScanInit, CooldownRemembered
  <1> QED BY <1>2, <1>3, <1>4 DEF ScanInv

\* A frame keeps the invariant.
LEMMA FrameInv ==
    ASSUME ScanInv, NEW view \in SUBSET Persons, NEW risk, Frame(view, risk)
    PROVE  ScanInv'
  <1>1. PICK table :
            /\ table = Pruned(view) \/ table = scanned
            /\ \/ /\ Due
                  /\ \E p \in view : Cooled(table, p) /\ HandOver(p, table)
               \/ scanned' = table /\ UNCHANGED <<lastScan, busy, verified>>
            /\ UNCHANGED <<cooldown, now, pushing>>
            /\ Counted(frames = CleanupEvery)
    BY FrameCases
  <1>2. table \in [Persons -> Times \cup {Never}] /\ Remembers(table)
    BY <1>1, TableRemembers
  <1>3. frames' \in 0..CleanupEvery
    BY <1>1, ScanAssumption DEF Counted, ScanInv, ScanTypeOK, ScanAssumption
  <1>4. /\ now \in Times /\ now' = now /\ pushing' \in BOOLEAN
        /\ cooldown \in Cooldowns /\ cooldown' = cooldown
    BY <1>1 DEF ScanInv, ScanTypeOK
  <1>5. CASE scanned' = table /\ UNCHANGED <<lastScan, busy, verified>>
    BY <1>5, <1>2, <1>3, <1>4
       DEF ScanInv, ScanTypeOK, ClocksBehind, CooldownRemembered, Remembers
  <1>6. CASE \E p \in view : HandOver(p, table)
    <2>1. PICK p \in Persons : HandOver(p, table)
      BY <1>6
    <2>2. /\ lastScan' = now
          /\ scanned' = [table EXCEPT ![p] = now]
          /\ busy' \in BOOLEAN
          /\ verified' = verified \/ verified' = [verified EXCEPT ![p] = now]
      BY <2>1 DEF HandOver, ScanInv, ScanTypeOK
    <2>3. ScanTypeOK'
      BY <2>2, <1>2, <1>3, <1>4 DEF ScanInv, ScanTypeOK
    <2>4. ASSUME NEW q \in Persons
          PROVE  verified'[q] = verified[q] \/ verified'[q] = now
      BY <2>2 DEF ScanInv, ScanTypeOK
    <2>5. ClocksBehind'
      BY <2>2, <2>4, <1>4, ScanAssumption
         DEF ScanInv, ScanTypeOK, ClocksBehind, Times, Never, ScanAssumption
    <2>6. CooldownRemembered'
      <3>1. SUFFICES ASSUME NEW q \in Persons, verified'[q] # Never,
                            now - verified'[q] < cooldown,
                            now - verified'[q] <= StaleAfter
                     PROVE  scanned'[q] # Never /\ scanned'[q] >= verified'[q]
        BY <1>4 DEF CooldownRemembered
      <3>2. CASE q = p
        BY <3>2, <2>2, <2>4, <1>2, <1>4, ScanAssumption
           DEF ScanInv, ClocksBehind, Times, Never, ScanAssumption
      <3>3. CASE q # p
        <4>1. verified'[q] = verified[q] /\ scanned'[q] = table[q]
          BY <3>3, <2>2, <1>2 DEF ScanInv, ScanTypeOK
        <4> QED BY <4>1, <3>1, <1>2 DEF Remembers
      <3> QED BY <3>2, <3>3
    <2> QED BY <2>3, <2>5, <2>6 DEF ScanInv
  <1> QED BY <1>1, <1>5, <1>6

\* Each frame and each tick of the clock preserves the invariant.
LEMMA ScanStepInv == ScanInv /\ [ScanNext]_scanVars => ScanInv'
  <1> SUFFICES ASSUME ScanInv, [ScanNext]_scanVars PROVE ScanInv'
    OBVIOUS
  <1>1. CASE \E view \in SUBSET Persons, risk \in [Persons -> 1..MaxRisk] :
                Frame(view, risk)
    BY <1>1, FrameInv
  <1>2. CASE Tick
    BY <1>2, ScanAssumption
       DEF Tick, ScanInv, ScanTypeOK, ClocksBehind, CooldownRemembered, Times, Never,
           ScanAssumption
  <1>3. CASE Done
    BY <1>3 DEF Done, ScanInv, ScanTypeOK, ClocksBehind, CooldownRemembered
  <1>4. CASE TakenElsewhere
    BY <1>4 DEF TakenElsewhere, ScanInv, ScanTypeOK, ClocksBehind, CooldownRemembered
  <1>5. CASE SetMode
    BY <1>5 DEF SetMode, ScanInv, ScanTypeOK, ClocksBehind, CooldownRemembered
  <1>6. CASE UNCHANGED scanVars
    BY <1>6 DEF scanVars, ScanInv, ScanTypeOK, ClocksBehind, CooldownRemembered
  <1> QED BY <1>1, <1>2, <1>3, <1>4, <1>5, <1>6 DEF ScanNext

\* So the invariant always holds.
LEMMA ScanInvariance == ScanSpec => []ScanInv
  BY ScanInitInv, ScanStepInv, PTL DEF ScanSpec

\* The types of the scheduler's variables, for all settings.
THEOREM ScanTypeCorrect == ScanSpec => []ScanTypeOK
  <1>1. ScanInv => ScanTypeOK
    BY DEF ScanInv
  <1> QED BY <1>1, ScanInvariance, PTL

\* The pruned table never forgets a running cooldown before the age at which
\* entries are pruned.
THEOREM CooldownNeverForgotten == ScanSpec => []CooldownRemembered
  <1>1. ScanInv => CooldownRemembered
    BY DEF ScanInv
  <1> QED BY <1>1, ScanInvariance, PTL

\* Only a frame that finds the camera due and the person out of its cooldown
\* lets submit_breach take the person.
LEMMA TakenIsEligible ==
    ASSUME ScanInv, ScanNext, NEW p \in Persons, Taken(p)
    PROVE  /\ Due
           /\ \E table : /\ table \in [Persons -> Times \cup {Never}]
                         /\ Remembers(table) /\ Cooled(table, p)
  <1>1. PICK view \in SUBSET Persons, risk \in [Persons -> 1..MaxRisk] :
            Frame(view, risk)
    BY DEF ScanNext, Tick, Done, TakenElsewhere, SetMode, Taken
  <1>2. PICK table :
            /\ table = Pruned(view) \/ table = scanned
            /\ \/ /\ Due
                  /\ \E q \in view : Cooled(table, q) /\ HandOver(q, table)
               \/ scanned' = table /\ UNCHANGED <<lastScan, busy, verified>>
    BY <1>1, FrameCases
  <1>3. PICK q \in view : Due /\ Cooled(table, q) /\ HandOver(q, table)
    BY <1>2 DEF Taken
  <1>4. q = p
    BY <1>3 DEF HandOver, Taken, ScanInv, ScanTypeOK
  <1> QED BY <1>2, <1>3, <1>4, TableRemembers

\* A person the VLM has seen is not handed to it again before the cooldown is over
\* or the entry has reached the age at which the table is pruned.
THEOREM CooldownIsKept == ScanSpec => CooldownKept
  <1>1. ASSUME ScanInv, ScanNext, NEW p \in Persons, Taken(p)
        PROVE  CooldownOver(p)
    <2>1. PICK table : /\ table \in [Persons -> Times \cup {Never}]
                       /\ Remembers(table) /\ Cooled(table, p)
      BY <1>1, TakenIsEligible
    <2>2. /\ now \in Int /\ verified[p] \in Int /\ table[p] \in Int
          /\ cooldown \in Nat /\ StaleAfter \in Nat
      BY <1>1, <2>1, ScanAssumption
         DEF ScanInv, ScanTypeOK, Times, Never, ScanAssumption
    <2> QED BY <2>1, <2>2, ScanAssumption
               DEF Remembers, Cooled, CooldownOver, ScanAssumption
  <1>2. ScanInv /\ [ScanNext]_scanVars =>
          [\A p \in Persons : Taken(p) => CooldownOver(p)]_scanVars
    BY <1>1
  <1> QED BY <1>2, ScanInvariance, PTL DEF ScanSpec, CooldownKept

\* One camera hands over at most one person per interval.
THEOREM IntervalIsKept == ScanSpec => IntervalKept
  <1>1. ASSUME ScanInv, ScanNext, NEW p \in Persons, NEW q \in Persons, Taken(p)
        PROVE  verified[q] = Never \/ now - verified[q] >= Interval
    <2>1. Due
      BY <1>1, TakenIsEligible
    <2>2. now \in Int /\ verified[q] \in Int /\ lastScan \in Int
      BY <1>1, ScanAssumption DEF ScanInv, ScanTypeOK, Times, Never, ScanAssumption
    <2> QED BY <1>1, <2>1, <2>2, ScanAssumption
               DEF ScanInv, ClocksBehind, Due, ScanAssumption
  <1>2. ScanInv /\ [ScanNext]_scanVars =>
          [\A p, q \in Persons : Taken(p) => verified[q] = Never
                                   \/ now - verified[q] >= Interval]_scanVars
    BY <1>1
  <1> QED BY <1>2, ScanInvariance, PTL DEF ScanSpec, IntervalKept

(***************************************************************************)
(* IV. The emitter's queue and thread (MetadataEmitter).                   *)
(***************************************************************************)

-----------------------------------------------------------------------------
(* What waits for the backend.                                             *)

\* The frames of each camera come in the order it made them.
Rising(s) ==
    \A i, j \in DOMAIN s : i < j /\ s[i][1] = s[j][1] => s[i][2] < s[j][2]

\* The places of what was taken and of what is queued.
LEMMA Places ==
    ASSUME NEW S, NEW b \in Seq(S), NEW q \in Seq(S)
    PROVE  /\ b \o q \in Seq(S) /\ Len(b \o q) = Len(b) + Len(q)
           /\ \A i \in 1..Len(b) : (b \o q)[i] = b[i]
           /\ \A i \in 1..Len(q) : (b \o q)[Len(b) + i] = q[i]
           /\ \A i \in 1..(Len(b) + Len(q)) :
                 \/ i \in 1..Len(b)
                 \/ i - Len(b) \in 1..Len(q) /\ (b \o q)[i] = q[i - Len(b)]
           /\ ToSet(b \o q) = ToSet(b) \cup ToSet(q)
<1>1. b \o q \in Seq(S) /\ Len(b \o q) = Len(b) + Len(q)  OBVIOUS
<1>2. \A i \in 1..Len(b) : (b \o q)[i] = b[i]  OBVIOUS
<1>3. \A i \in 1..Len(q) : (b \o q)[Len(b) + i] = q[i]  OBVIOUS
<1>4. \A i \in 1..(Len(b) + Len(q)) :
         i \in 1..Len(b) \/ (i - Len(b) \in 1..Len(q) /\ (b \o q)[i] = q[i - Len(b)])
  OBVIOUS
<1>5. ASSUME NEW x \in ToSet(b \o q) PROVE x \in ToSet(b) \cup ToSet(q)
  <2>1. PICK i \in 1..(Len(b) + Len(q)) : x = (b \o q)[i]  BY <1>1, AtPlace
  <2>2. QED  BY <1>2, <1>4, <2>1, AtPlace
<1>6. ASSUME NEW x \in ToSet(b) PROVE x \in ToSet(b \o q)
  <2>1. PICK i \in 1..Len(b) : x = b[i]  BY AtPlace
  <2>2. i \in 1..Len(b \o q) /\ x = (b \o q)[i]  BY <1>1, <1>2, <2>1
  <2>3. QED  BY <1>1, <2>2, AtPlace
<1>7. ASSUME NEW x \in ToSet(q) PROVE x \in ToSet(b \o q)
  <2>1. PICK i \in 1..Len(q) : x = q[i]  BY AtPlace
  <2>2. Len(b) + i \in 1..Len(b \o q) /\ x = (b \o q)[Len(b) + i]  BY <1>1, <1>3, <2>1
  <2>3. QED  BY <1>1, <2>2, AtPlace
<1>8. QED  BY <1>1, <1>2, <1>3, <1>4, <1>5, <1>6, <1>7

\* What waits are frames of cameras.
LEMMA WaitingFrames ==
    ASSUME batch \in Seq(Frames), queue \in Seq(Frames), NEW f \in ToSet(Waiting)
    PROVE  f \in Frames /\ f[1] \in Cameras /\ f[2] \in Nat
<1>1. Waiting \in Seq(Frames)  BY DEF Waiting
<1>2. f \in Frames  BY <1>1, AtPlace
<1>3. QED  BY <1>2 DEF Frames

\* A new frame at the end.
LEMMA AppendedFrame ==
    ASSUME NEW b \in Seq(Frames), NEW q \in Seq(Frames), NEW f \in Frames,
           Rising(b \o q),
           \A g \in ToSet(b \o q) : g[1] = f[1] => g[2] < f[2]
    PROVE  /\ Rising(b \o Append(q, f))
           /\ ToSet(b \o Append(q, f)) = ToSet(b \o q) \cup {f}
           /\ Append(q, f) \in Seq(Frames) /\ Len(Append(q, f)) = Len(q) + 1
<1> DEFINE w == b \o q
           v == Append(w, f)
<1>1. b \o Append(q, f) = v
  <2>1. Len(b \o Append(q, f)) = Len(v)  OBVIOUS
  <2>2. \A i \in 1..Len(v) : (b \o Append(q, f))[i] = v[i]  OBVIOUS
  <2>3. b \o Append(q, f) \in Seq(Frames) /\ v \in Seq(Frames)  OBVIOUS
  <2>4. QED  BY <2>1, <2>2, <2>3
<1>2. w \in Seq(Frames) /\ Rising(w)  OBVIOUS
<1> HIDE DEF w
<1>3. /\ v \in Seq(Frames) /\ Len(v) = Len(w) + 1 /\ v[Len(w) + 1] = f
      /\ \A i \in 1..Len(w) : v[i] = w[i]
  BY <1>2
<1> HIDE DEF v
<1>4. \A g \in ToSet(w) : g[1] = f[1] => g[2] < f[2]  BY DEF w
<1>5. ASSUME NEW i \in DOMAIN v, NEW j \in DOMAIN v, i < j, v[i][1] = v[j][1]
      PROVE  v[i][2] < v[j][2]
  <2>1. i \in 1..Len(w) /\ Len(w) \in Nat /\ j \in 1..(Len(w) + 1)
    BY <1>2, <1>3, <1>5, AtPlace
  <2>2. CASE j \in 1..Len(w)
    <3>1. i \in DOMAIN w /\ j \in DOMAIN w  BY <1>2, <2>1, <2>2, AtPlace
    <3>2. QED  BY <1>2, <1>3, <1>5, <2>1, <2>2, <3>1 DEF Rising
  <2>3. CASE j = Len(w) + 1
    <3>1. w[i] \in ToSet(w)  BY <1>2, <2>1, AtPlace
    <3>2. QED  BY <1>3, <1>4, <1>5, <2>1, <2>3, <3>1
  <2>4. QED  BY <2>1, <2>2, <2>3
<1>6. ToSet(v) = ToSet(w) \cup {f}
  <2>1. ASSUME NEW x \in ToSet(v) PROVE x \in ToSet(w) \cup {f}
    <3>1. PICK i \in 1..(Len(w) + 1) : x = v[i]  BY <1>3, AtPlace
    <3>2. Len(w) \in Nat  BY <1>2, AtPlace
    <3>3. CASE i \in 1..Len(w)  BY <1>2, <1>3, <3>1, <3>3, AtPlace
    <3>4. CASE i = Len(w) + 1  BY <1>3, <3>1, <3>4
    <3>5. QED  BY <3>1, <3>2, <3>3, <3>4
  <2>2. ASSUME NEW x \in ToSet(w) PROVE x \in ToSet(v)
    <3>1. PICK i \in 1..Len(w) : x = w[i]  BY <1>2, AtPlace
    <3>2. i \in 1..Len(v) /\ x = v[i]  BY <1>2, <1>3, <3>1, AtPlace
    <3>3. QED  BY <1>3, <3>2, AtPlace
  <2>3. f \in ToSet(v)
    <3>1. Len(w) + 1 \in 1..Len(v)  BY <1>2, <1>3, AtPlace
    <3>2. QED  BY <1>3, <3>1, AtPlace
  <2>4. QED  BY <2>1, <2>2, <2>3
<1>7. Append(q, f) \in Seq(Frames) /\ Len(Append(q, f)) = Len(q) + 1  OBVIOUS
<1>8. QED  BY <1>1, <1>5, <1>6, <1>7 DEF Rising, w

\* No frame waits twice.
LEMMA WaitsOnce ==
    ASSUME NEW s \in Seq(Frames), Rising(s), NEW i \in 1..Len(s), NEW j \in 1..Len(s),
           s[i] = s[j]
    PROVE  i = j
<1>1. s[i][2] \in Int /\ s[j][2] \in Int  BY DEF Frames
<1>2. DOMAIN s = 1..Len(s) /\ Len(s) \in Nat  BY AtPlace
<1>3. i \in Nat /\ j \in Nat  BY <1>2
<1>4. CASE i < j  BY <1>1, <1>2, <1>4 DEF Rising
<1>5. CASE j < i  BY <1>1, <1>2, <1>5 DEF Rising
<1>6. QED  BY <1>3, <1>4, <1>5

\* A part of an ordered sequence, its places kept in their order, is ordered.
LEMMA Thinned ==
    ASSUME NEW s \in Seq(Frames), Rising(s), NEW v \in Seq(Frames),
           NEW m \in [1..Len(v) -> 1..Len(s)],
           \A i \in 1..Len(v) : v[i] = s[m[i]],
           \A i, j \in 1..Len(v) : i < j => m[i] < m[j]
    PROVE  Rising(v)
<1>0. DOMAIN v = 1..Len(v)  BY AtPlace
<1> SUFFICES ASSUME NEW i \in 1..Len(v), NEW j \in 1..Len(v), i < j, v[i][1] = v[j][1]
             PROVE  v[i][2] < v[j][2]
  BY <1>0 DEF Rising
<1>1. m[i] \in 1..Len(s) /\ m[j] \in 1..Len(s) /\ m[i] < m[j]  OBVIOUS
<1>2. s[m[i]][1] = s[m[j]][1]  OBVIOUS
<1>3. DOMAIN s = 1..Len(s)  BY AtPlace
<1>4. QED  BY <1>1, <1>2, <1>3 DEF Rising

\* The oldest of the queue is taken out.
LEMMA EvictedFrame ==
    ASSUME NEW b \in Seq(Frames), NEW q \in Seq(Frames), Rising(b \o q), q # <<>>
    PROVE  /\ Rising(b \o Tail(q))
           /\ ToSet(b \o Tail(q)) = ToSet(b \o q) \ {Head(q)}
           /\ Tail(q) \in Seq(Frames) /\ Len(Tail(q)) = Len(q) - 1
           /\ Head(q) \in ToSet(b \o q)
<1> DEFINE w == b \o q
           v == b \o Tail(q)
           k == Len(b)
           m == [i \in 1..Len(v) |-> IF i <= k THEN i ELSE i + 1]
<1>1. /\ Tail(q) \in Seq(Frames) /\ Len(Tail(q)) = Len(q) - 1 /\ Len(q) \in Nat
      /\ Len(q) > 0 /\ k \in Nat
      /\ w \in Seq(Frames) /\ Len(w) = k + Len(q)
      /\ v \in Seq(Frames) /\ Len(v) = k + Len(q) - 1
  OBVIOUS
<1>2. ASSUME NEW i \in 1..Len(v)
      PROVE  v[i] = w[m[i]] /\ m[i] \in 1..Len(w) /\ m[i] # k + 1
  <2>1. CASE i <= k  BY <1>1, <2>1
  <2>2. CASE ~(i <= k)
    <3>1. v[i] = Tail(q)[i - k] /\ i - k \in 1..Len(Tail(q))  BY <1>1, <2>2
    <3>2. Tail(q)[i - k] = q[i - k + 1]  BY <1>1, <3>1
    <3>3. w[i + 1] = q[i + 1 - k]  BY <1>1, <2>2
    <3>4. QED  BY <1>1, <2>2, <3>1, <3>2, <3>3
  <2>3. QED  BY <2>1, <2>2
<1>3. w[k + 1] = Head(q) /\ k + 1 \in 1..Len(w)  BY <1>1
<1>4. ASSUME NEW j \in 1..Len(w), j # k + 1
      PROVE  \E i \in 1..Len(v) : m[i] = j
  <2>1. CASE j <= k
    <3>1. j \in 1..Len(v) /\ m[j] = j  BY <1>1, <2>1
    <3>2. QED  BY <3>1
  <2>2. CASE ~(j <= k)
    <3>1. j - 1 \in 1..Len(v) /\ m[j - 1] = j  BY <1>1, <1>4, <2>2
    <3>2. QED  BY <3>1
  <2>3. QED  BY <2>1, <2>2
<1>5. \A i, j \in 1..Len(v) : i < j => m[i] < m[j]  BY <1>1
<1>6. m \in [1..Len(v) -> 1..Len(w)]  BY <1>2
<1> HIDE DEF w, v, m
<1>7. Rising(w)  BY DEF w
<1>8. Rising(v)  BY <1>1, <1>2, <1>5, <1>6, <1>7, Thinned
<1>9. ASSUME NEW x \in ToSet(v) PROVE x \in ToSet(w) \ {Head(q)}
  <2>1. PICK i \in 1..Len(v) : x = v[i]  BY <1>1, AtPlace
  <2>2. x = w[m[i]] /\ m[i] \in 1..Len(w) /\ m[i] # k + 1  BY <1>2, <2>1
  <2>3. x # Head(q)  BY <1>1, <1>3, <1>7, <2>2, WaitsOnce
  <2>4. QED  BY <1>1, <2>2, <2>3, AtPlace
<1>10. ASSUME NEW x \in ToSet(w), x # Head(q) PROVE x \in ToSet(v)
  <2>1. PICK j \in 1..Len(w) : x = w[j]  BY <1>1, AtPlace
  <2>2. j # k + 1  BY <1>3, <1>10, <2>1
  <2>3. PICK i \in 1..Len(v) : m[i] = j  BY <1>4, <2>2
  <2>4. x = v[i]  BY <1>2, <2>1, <2>3
  <2>5. QED  BY <1>1, <2>4, AtPlace
<1>11. Head(q) \in ToSet(w)  BY <1>1, <1>3, AtPlace
<1>12. QED  BY <1>1, <1>8, <1>9, <1>10, <1>11 DEF w, v

\* The emitter's thread takes the oldest: what waits is the same.
LEMMA TakenFrame ==
    ASSUME NEW b \in Seq(Frames), NEW q \in Seq(Frames), q # <<>>
    PROVE  /\ Append(b, Head(q)) \o Tail(q) = b \o q
           /\ Append(b, Head(q)) \in Seq(Frames)
           /\ Len(Append(b, Head(q))) = Len(b) + 1
           /\ Tail(q) \in Seq(Frames) /\ Len(Tail(q)) = Len(q) - 1
<1> DEFINE v == Append(b, Head(q)) \o Tail(q)
           w == b \o q
<1>1. /\ Tail(q) \in Seq(Frames) /\ Len(Tail(q)) = Len(q) - 1 /\ Len(q) \in Nat
      /\ Len(q) > 0 /\ Len(b) \in Nat /\ Head(q) = q[1] /\ Head(q) \in Frames
      /\ \A i \in 1..(Len(q) - 1) : Tail(q)[i] = q[i + 1]
  OBVIOUS
<1>2. /\ Append(b, Head(q)) \in Seq(Frames)
      /\ Len(Append(b, Head(q))) = Len(b) + 1
  BY <1>1
<1>3. v \in Seq(Frames) /\ w \in Seq(Frames) /\ Len(v) = Len(w)
      /\ Len(w) = Len(b) + Len(q)
  BY <1>1, <1>2
<1>4. ASSUME NEW i \in 1..Len(w) PROVE v[i] = w[i]
  <2>1. CASE i <= Len(b)  BY <1>1, <1>2, <1>3, <2>1
  <2>2. CASE i = Len(b) + 1
    <3>1. v[i] = Append(b, Head(q))[i] /\ Append(b, Head(q))[i] = Head(q)
      BY <1>1, <1>2, <2>2
    <3>2. w[i] = q[1]  BY <1>1, <1>3, <2>2
    <3>3. QED  BY <1>1, <3>1, <3>2
  <2>3. CASE i > Len(b) + 1
    <3>1. v[i] = Tail(q)[i - (Len(b) + 1)]  BY <1>1, <1>2, <1>3, <2>3
    <3>2. w[i] = q[i - Len(b)]  BY <1>1, <1>3, <2>3
    <3>3. i - (Len(b) + 1) \in 1..(Len(q) - 1)  BY <1>1, <1>3, <2>3
    <3>4. QED  BY <1>1, <3>1, <3>2, <3>3
  <2>4. QED  BY <1>1, <1>3, <2>1, <2>2, <2>3
<1>5. v = w  BY <1>3, <1>4
<1>6. QED  BY <1>1, <1>2, <1>5

\* The batch is gone: what was queued behind it is left.
LEMMA PostedBatch ==
    ASSUME NEW b \in Seq(Frames), NEW q \in Seq(Frames), Rising(b \o q)
    PROVE  /\ Rising(<<>> \o q) /\ <<>> \o q = q
           /\ ToSet(b) \subseteq ToSet(b \o q)
           /\ ToSet(<<>> \o q) = ToSet(b \o q) \ ToSet(b)
           /\ \A f \in ToSet(b), g \in ToSet(q) : f[1] = g[1] => f[2] < g[2]
           /\ IsFiniteSet(ToSet(b)) /\ Cardinality(ToSet(b)) = Len(b)
<1> DEFINE w == b \o q
           k == Len(b)
           m == [i \in 1..Len(q) |-> k + i]
<1>1. /\ w \in Seq(Frames) /\ Len(w) = k + Len(q) /\ k \in Nat /\ Len(q) \in Nat
      /\ \A i \in 1..k : w[i] = b[i]
      /\ \A i \in 1..Len(q) : w[k + i] = q[i]
  BY Places, AtPlace
<1>2. <<>> \o q = q  OBVIOUS
<1>3. Rising(w)  OBVIOUS
<1>4. Rising(q)
  <2>1. m \in [1..Len(q) -> 1..Len(w)]  BY <1>1
  <2>2. \A i \in 1..Len(q) : q[i] = w[m[i]]  BY <1>1
  <2>3. \A i, j \in 1..Len(q) : i < j => m[i] < m[j]  BY <1>1
  <2> HIDE DEF m, w
  <2>4. QED  BY <1>1, <1>3, <2>1, <2>2, <2>3, Thinned
<1> HIDE DEF w
<1>5. ToSet(w) = ToSet(b) \cup ToSet(q)  BY Places DEF w
<1>6. ASSUME NEW f \in ToSet(b), NEW g \in ToSet(q)
      PROVE  f # g /\ (f[1] = g[1] => f[2] < g[2])
  <2>1. PICK i \in 1..k : f = b[i]  BY AtPlace
  <2>2. PICK j \in 1..Len(q) : g = q[j]  BY AtPlace
  <2>3. /\ f = w[i] /\ g = w[k + j] /\ i < k + j
        /\ i \in 1..Len(w) /\ k + j \in 1..Len(w) /\ DOMAIN w = 1..Len(w)
    BY <1>1, <2>1, <2>2, AtPlace
  <2>4. f # g
    <3>1. i # k + j  BY <1>1
    <3>2. QED  BY <1>1, <1>3, <2>3, <3>1, WaitsOnce
  <2>5. QED  BY <1>3, <2>3, <2>4 DEF Rising
<1>7. IsFiniteSet(ToSet(b)) /\ Cardinality(ToSet(b)) = k
  <2>1. IsFiniteSet(1..k) /\ Cardinality(1..k) = k
    <3>1. 1 \in Int /\ k \in Int  BY <1>1
    <3>2. /\ IsFiniteSet(1..k)
          /\ Cardinality(1..k) = IF 1 > k THEN 0 ELSE k - 1 + 1
      BY <3>1, FS_Interval
    <3>3. QED  BY <1>1, <3>2
  <2>2. \A i, j \in 1..k : b[i] = b[j] => i = j
    <3> SUFFICES ASSUME NEW i \in 1..k, NEW j \in 1..k, b[i] = b[j] PROVE i = j
      OBVIOUS
    <3>1. w[i] = w[j] /\ i \in 1..Len(w) /\ j \in 1..Len(w)  BY <1>1
    <3>2. QED  BY <1>1, <1>3, <3>1, WaitsOnce
  <2>3. /\ b \in [1..k -> ToSet(b)]
        /\ \A x \in ToSet(b) : \E i \in 1..k : b[i] = x
    BY AtPlace
  <2>4. b \in Bijection(1..k, ToSet(b))
    BY <2>2, <2>3 DEF Bijection, Injection, Surjection, IsInjective
  <2>5. QED  BY <2>1, <2>4, FS_Bijection DEF ExistsBijection
<1>8. ToSet(<<>> \o q) = ToSet(w) \ ToSet(b)  BY <1>2, <1>5, <1>6
<1>9. QED  BY <1>2, <1>4, <1>5, <1>6, <1>7, <1>8 DEF w

-----------------------------------------------------------------------------
(* Where the frames are.                                                   *)

Fates == {"none", "sent", "failed", "evicted", "unqueued", "raised"}

\* The assumption on the constants, and that there are finitely many frames.
LEMMA EmitterConstants ==
    /\ Cap \in Nat \ {0} /\ BatchSize \in Nat \ {0} /\ MaxFrames \in Nat
    /\ IsFiniteSet(Cameras) /\ IsFiniteSet(Frames)
<1>1. IsFiniteSet(1..MaxFrames)
  <2>1. 1 \in Int /\ MaxFrames \in Int  BY EmitterAssumption DEF EmitterAssumption
  <2>2. QED  BY <2>1, FS_Interval
<1>2. QED
  BY <1>1, FS_Product, CamerasFinite, EmitterAssumption
     DEF EmitterAssumption, CamerasFinite, Frames

\* What waits for the backend is what camera threads made and nobody decided on.
Pending ==
    /\ Rising(Waiting)
    /\ \A f \in ToSet(Waiting) :
          /\ fate[f] = "none" /\ f[2] <= made[f[1]]
          /\ at[f[1]] # "idle" => f[2] < made[f[1]]

\* What a camera thread holds is the newest of its frames, and undecided.
InHand ==
    \A c \in Cameras : at[c] # "idle" => made[c] >= 1 /\ fate[Held(c)] = "none"

\* Nothing is decided about a frame not made yet.
ToCome == \A f \in Frames : f[2] > made[f[1]] => fate[f] = "none"

\* What was posted is older than what waits.
PostedOlder ==
    \A f \in Gone("sent"), g \in ToSet(Waiting) : f[1] = g[1] => f[2] < g[2]

\* The counters.
CountersExact ==
    /\ sent = Cardinality(Gone("sent"))
    /\ failed = Cardinality(Gone("failed"))
    /\ Cardinality(Gone("evicted")) =
         dropped + Cardinality(Gone("raised"))
                 + Cardinality({c \in Cameras : at[c] = "retry"})

\* No frame is lost sight of.
Somewhere ==
    \A f \in Frames :
       f[2] <= made[f[1]] /\ fate[f] = "none" =>
          f \in ToSet(Waiting) \/ (at[f[1]] # "idle" /\ f = Held(f[1]))

EmitterInv ==
    /\ EmitterTypeOK /\ Pending /\ InHand /\ ToCome /\ PostedOlder /\ CountersExact
    /\ Somewhere

\* The invariant implies the two properties of the run.
LEMMA EmitterInvMeans ==
    ASSUME EmitterInv
    PROVE  InOrder /\ Accounted
<1>1. batch \in Seq(Frames) /\ queue \in Seq(Frames)
  BY DEF EmitterInv, EmitterTypeOK
<1>2. Waiting \in Seq(Frames)  BY <1>1 DEF Waiting
<1>3. ASSUME NEW i \in DOMAIN Waiting, NEW f \in Gone("sent"), f[1] = Waiting[i][1]
      PROVE  f[2] < Waiting[i][2]
  <2>1. Waiting[i] \in ToSet(Waiting)  BY <1>2, AtPlace
  <2>2. QED  BY <1>3, <2>1 DEF EmitterInv, PostedOlder
<1>4. InOrder  BY <1>3 DEF InOrder, EmitterInv, Pending, Rising
<1>5. Accounted  BY DEF Accounted, EmitterInv, CountersExact, Somewhere
<1>6. QED  BY <1>4, <1>5

\* No frame has been made when the emitter starts.
LEMMA EmitterInitInv == EmitterInit => EmitterInv
<1> SUFFICES ASSUME EmitterInit PROVE EmitterInv  OBVIOUS
<1>1. EmitterTypeOK
  <2>1. <<>> \in Seq(Frames) /\ Len(<<>>) = 0  OBVIOUS
  <2>2. /\ queue \in Seq(Frames) /\ Len(queue) <= Cap
        /\ batch \in Seq(Frames) /\ Len(batch) <= BatchSize
    BY <2>1, EmitterConstants DEF EmitterInit
  <2>3. at \in [Cameras -> {"idle", "put", "full", "retry"}]
        /\ made \in [Cameras -> 0..MaxFrames]
    BY EmitterConstants DEF EmitterInit
  <2>4. QED  BY <2>2, <2>3 DEF EmitterInit, EmitterTypeOK
<1>2. Waiting = <<>> /\ ToSet(Waiting) = {}
  <2>1. Waiting = <<>>  BY DEF EmitterInit, Waiting
  <2>2. QED  BY <2>1 DEF ToSet
<1>3. Pending
  <2>1. DOMAIN Waiting = {}  BY <1>2
  <2>2. QED  BY <1>2, <2>1 DEF Pending, Rising
<1>4. \A how \in Fates \ {"none"} : Gone(how) = {}
  BY DEF EmitterInit, Gone, Fates
<1>5. InHand /\ ToCome /\ PostedOlder
  BY <1>2 DEF EmitterInit, InHand, ToCome, PostedOlder
<1>6. CountersExact
  <2>1. {c \in Cameras : at[c] = "retry"} = {}  BY DEF EmitterInit
  <2>2. /\ Gone("sent") = {} /\ Gone("failed") = {} /\ Gone("evicted") = {}
        /\ Gone("raised") = {}
    BY <1>4 DEF Fates
  <2>3. Cardinality({}) = 0  BY FS_EmptySet
  <2>4. sent = 0 /\ failed = 0 /\ dropped = 0  BY DEF EmitterInit
  <2>5. QED  BY <2>1, <2>2, <2>3, <2>4 DEF CountersExact
<1>7. Somewhere  BY DEF EmitterInit, Somewhere, Frames
<1>8. QED  BY <1>1, <1>3, <1>5, <1>6, <1>7 DEF EmitterInv

\* What Leave does to the sets the counters are about.
LEMMA LeaveCounts ==
    ASSUME fate \in [Frames -> Fates], NEW F \in SUBSET Frames,
           \A f \in F : fate[f] = "none",
           NEW how \in Fates \ {"none"}, Leave(F, how)
    PROVE  /\ fate' \in [Frames -> Fates]
           /\ \A f \in F : fate'[f] = how
           /\ \A f \in Frames \ F : fate'[f] = fate[f]
           /\ Gone(how)' = Gone(how) \cup F
           /\ Cardinality(Gone(how)') = Cardinality(Gone(how)) + Cardinality(F)
           /\ \A other \in Fates \ {"none", how} : Gone(other)' = Gone(other)
<1>1. /\ fate' \in [Frames -> Fates]
      /\ \A f \in F : fate'[f] = how
      /\ \A f \in Frames \ F : fate'[f] = fate[f]
  BY DEF Leave
<1>2. Gone(how)' = Gone(how) \cup F  BY <1>1 DEF Gone
<1>3. \A other \in Fates \ {"none", how} : Gone(other)' = Gone(other)
  BY <1>1 DEF Gone
<1>4. Gone(how) \cap F = {}  BY DEF Gone
<1>5. IsFiniteSet(Gone(how)) /\ IsFiniteSet(F)
  <2>1. Gone(how) \in SUBSET Frames  BY DEF Gone
  <2>2. QED  BY <2>1, EmitterConstants, FS_Subset
<1>6. Cardinality(Gone(how)') = Cardinality(Gone(how)) + Cardinality(F)
  <2>1. Cardinality(Gone(how) \cup F) =
           Cardinality(Gone(how)) + Cardinality(F) - Cardinality(Gone(how) \cap F)
    BY <1>5, FS_Union
  <2>2. Cardinality(Gone(how) \cap F) = 0  BY <1>4, FS_EmptySet
  <2>3. Cardinality(Gone(how)) \in Nat /\ Cardinality(F) \in Nat
    BY <1>5, FS_CardinalityType
  <2>4. QED  BY <1>2, <2>1, <2>2, <2>3
<1>7. QED  BY <1>1, <1>2, <1>3, <1>6

\* The camera threads between their two puts, when one enters or leaves there.
Retrying == {c \in Cameras : at[c] = "retry"}

LEMMA RetryingCounts ==
    ASSUME at \in [Cameras -> {"idle", "put", "full", "retry"}], NEW c \in Cameras,
           NEW place \in {"idle", "put", "full", "retry"}, Goto(c, place)
    PROVE  /\ at' \in [Cameras -> {"idle", "put", "full", "retry"}]
           /\ at'[c] = place /\ \A e \in Cameras \ {c} : at'[e] = at[e]
           /\ Cardinality(Retrying) \in Nat
           /\ at[c] # "retry" /\ place = "retry" =>
                 Cardinality(Retrying') = Cardinality(Retrying) + 1
           /\ at[c] = "retry" /\ place # "retry" =>
                 Cardinality(Retrying) = Cardinality(Retrying') + 1
           /\ at[c] # "retry" /\ place # "retry" => Retrying' = Retrying
<1>1. /\ at' \in [Cameras -> {"idle", "put", "full", "retry"}]
      /\ at'[c] = place /\ \A e \in Cameras \ {c} : at'[e] = at[e]
  BY DEF Goto
<1>2. IsFiniteSet(Retrying) /\ IsFiniteSet(Retrying')
  <2>1. Retrying \in SUBSET Cameras /\ Retrying' \in SUBSET Cameras  BY DEF Retrying
  <2>2. QED  BY <2>1, EmitterConstants, FS_Subset
<1>3. Cardinality(Retrying) \in Nat /\ Cardinality(Retrying') \in Nat
  BY <1>2, FS_CardinalityType
<1>4. CASE at[c] # "retry" /\ place = "retry"
  <2>1. Retrying' = Retrying \cup {c} /\ c \notin Retrying  BY <1>1, <1>4 DEF Retrying
  <2>2. QED  BY <1>1, <1>2, <1>3, <1>4, <2>1, FS_AddElement
<1>5. CASE at[c] = "retry" /\ place # "retry"
  <2>1. Retrying = Retrying' \cup {c} /\ c \notin Retrying'  BY <1>1, <1>5 DEF Retrying
  <2>2. QED  BY <1>1, <1>2, <1>3, <1>5, <2>1, FS_AddElement
<1>6. CASE at[c] # "retry" /\ place # "retry"
  <2>1. Retrying' = Retrying  BY <1>1, <1>6 DEF Retrying
  <2>2. QED  BY <1>1, <1>3, <1>6, <2>1
<1>7. CASE at[c] = "retry" /\ place = "retry"  BY <1>1, <1>3, <1>7
<1>8. QED  BY <1>4, <1>5, <1>6, <1>7

\* The frame in a camera's hands.
LEMMA HeldFrame ==
    ASSUME EmitterInv, NEW c \in Cameras, at[c] # "idle"
    PROVE  /\ Held(c) \in Frames /\ Held(c)[1] = c /\ Held(c)[2] = made[c]
           /\ made[c] \in Nat /\ fate[Held(c)] = "none"
           /\ Held(c) \notin ToSet(Waiting)
           /\ \A g \in ToSet(Waiting) : g[1] = c => g[2] < made[c]
           /\ \A g \in Gone("sent") : g[1] = c => g[2] < made[c]
<1>1. made[c] \in 0..MaxFrames /\ MaxFrames \in Nat /\ made[c] >= 1
      /\ fate[Held(c)] = "none"
  BY EmitterConstants DEF EmitterInv, EmitterTypeOK, InHand
<1>2. Held(c) \in Frames /\ Held(c)[1] = c /\ Held(c)[2] = made[c]
  BY <1>1 DEF Held, Frames
<1>3. \A g \in ToSet(Waiting) : g[1] = c => g[2] < made[c]
  BY DEF EmitterInv, Pending
<1>4. Held(c) \notin ToSet(Waiting)  BY <1>1, <1>2, <1>3
<1>5. ASSUME NEW g \in Gone("sent"), g[1] = c PROVE g[2] < made[c]
  <2>1. g \in Frames /\ fate[g] = "sent"  BY <1>5 DEF Gone
  <2>2. g[2] \in Nat /\ g = <<g[1], g[2]>>  BY <2>1 DEF Frames
  <2>3. g[2] # made[c]  BY <1>1, <1>5, <2>1, <2>2 DEF Held
  <2>4. ~(g[2] > made[c])  BY <1>5, <2>1 DEF EmitterInv, ToCome
  <2>5. QED  BY <1>1, <2>2, <2>3, <2>4
<1>6. QED  BY <1>1, <1>2, <1>3, <1>4, <1>5

-----------------------------------------------------------------------------
(* Each step.                                                              *)

\* A camera makes its next frame, which nobody has seen.
LEMMA ProduceInv ==
    ASSUME EmitterInv, NEW c \in Cameras, Produce(c)
    PROVE  EmitterInv'
<1>1. /\ at[c] = "idle" /\ made[c] < MaxFrames /\ made[c] \in Nat
      /\ made' = [made EXCEPT ![c] = made[c] + 1] /\ Goto(c, "put")
      /\ queue' = queue /\ batch' = batch /\ posting' = posting
      /\ sent' = sent /\ failed' = failed /\ dropped' = dropped /\ fate' = fate
  BY DEF Produce, EmitterInv, EmitterTypeOK, counters
<1>2. /\ at' \in [Cameras -> {"idle", "put", "full", "retry"}] /\ at'[c] = "put"
      /\ \A e \in Cameras \ {c} : at'[e] = at[e]
      /\ Retrying' = Retrying
  BY <1>1, RetryingCounts DEF EmitterInv, EmitterTypeOK
<1>3. /\ made' \in [Cameras -> 0..MaxFrames] /\ made'[c] = made[c] + 1
      /\ \A e \in Cameras \ {c} : made'[e] = made[e]
  BY <1>1, EmitterConstants DEF EmitterInv, EmitterTypeOK
<1>4. /\ Waiting' = Waiting /\ Waiting \in Seq(Frames)
      /\ \A f \in Frames : f[1] \in Cameras /\ f[2] \in Nat /\ f = <<f[1], f[2]>>
      /\ \A f \in ToSet(Waiting) : f \in Frames
  <2>1. Waiting' = Waiting /\ Waiting \in Seq(Frames)
    BY <1>1 DEF Waiting, EmitterInv, EmitterTypeOK
  <2>2. QED  BY <2>1, AtPlace DEF Frames
<1>5. EmitterTypeOK'  BY <1>1, <1>2, <1>3 DEF EmitterInv, EmitterTypeOK
<1>6. Pending'
  <2>1. ASSUME NEW f \in ToSet(Waiting)
        PROVE  /\ fate'[f] = "none" /\ f[2] <= made'[f[1]]
               /\ at'[f[1]] # "idle" => f[2] < made'[f[1]]
    <3>1. /\ f \in Frames /\ fate[f] = "none" /\ f[2] <= made[f[1]]
          /\ at[f[1]] # "idle" => f[2] < made[f[1]]
      BY <1>4 DEF EmitterInv, Pending
    <3>2. f[2] \in Nat /\ f[1] \in Cameras /\ made[f[1]] \in Nat
      BY <1>4, <3>1 DEF EmitterInv, EmitterTypeOK
    <3>3. CASE f[1] = c  BY <1>1, <1>3, <3>1, <3>2, <3>3
    <3>4. CASE f[1] # c  BY <1>1, <1>2, <1>3, <3>1, <3>2, <3>4
    <3>5. QED  BY <3>3, <3>4
  <2>2. QED  BY <1>4, <2>1 DEF EmitterInv, Pending
<1>7. InHand'
  <2>1. ASSUME NEW e \in Cameras, at'[e] # "idle"
        PROVE  made'[e] >= 1 /\ fate'[Held(e)'] = "none"
    <3>1. CASE e = c
      <4>1. <<c, made[c] + 1>> \in Frames  BY <1>1, EmitterConstants DEF Frames
      <4>2. fate[<<c, made[c] + 1>>] = "none"
        BY <1>1, <4>1 DEF EmitterInv, ToCome
      <4>3. QED  BY <1>1, <1>3, <3>1, <4>2 DEF Held
    <3>2. CASE e # c
      BY <1>1, <1>2, <1>3, <2>1, <3>2 DEF EmitterInv, InHand, Held
    <3>3. QED  BY <3>1, <3>2
  <2>2. QED  BY <2>1 DEF InHand, Held
<1>8. ToCome'
  <2>1. ASSUME NEW f \in Frames, f[2] > made'[f[1]] PROVE fate'[f] = "none"
    <3>1. f[2] \in Nat /\ f[1] \in Cameras /\ made[f[1]] \in Nat
      BY <1>4 DEF EmitterInv, EmitterTypeOK
    <3>2. f[2] > made[f[1]]  BY <1>1, <1>3, <2>1, <3>1
    <3>3. QED  BY <1>1, <3>2 DEF EmitterInv, ToCome
  <2>2. QED  BY <2>1 DEF ToCome
<1>9. PostedOlder'  BY <1>1, <1>4 DEF EmitterInv, PostedOlder, Gone
<1>10. CountersExact'  BY <1>1, <1>2 DEF EmitterInv, CountersExact, Gone, Retrying
<1>11. Somewhere'
  <2>1. ASSUME NEW f \in Frames, f[2] <= made'[f[1]], fate'[f] = "none",
               f \notin ToSet(Waiting)
        PROVE  at'[f[1]] # "idle" /\ f = <<f[1], made'[f[1]]>>
    <3>1. f[2] \in Nat /\ f[1] \in Cameras /\ made[f[1]] \in Nat /\ fate[f] = "none"
          /\ f = <<f[1], f[2]>>
      BY <1>1, <1>4, <2>1 DEF EmitterInv, EmitterTypeOK
    <3>2. CASE f[2] <= made[f[1]]
      <4>1. at[f[1]] # "idle" /\ f = <<f[1], made[f[1]]>>
        BY <2>1, <3>1, <3>2 DEF EmitterInv, Somewhere, Held
      <4>2. f[1] # c  BY <1>1, <4>1
      <4>3. QED  BY <1>2, <1>3, <3>1, <4>1, <4>2
    <3>3. CASE ~(f[2] <= made[f[1]])
      <4>1. f[1] = c  BY <1>3, <2>1, <3>1, <3>3
      <4>2. f[2] = made[c] + 1  BY <1>1, <1>3, <2>1, <3>1, <3>3, <4>1
      <4>3. QED  BY <1>2, <1>3, <3>1, <4>1, <4>2
    <3>4. QED  BY <3>2, <3>3
  <2>2. QED  BY <1>4, <2>1 DEF Somewhere, Held
<1>12. QED
  BY <1>5, <1>6, <1>7, <1>8, <1>9, <1>10, <1>11 DEF EmitterInv

\* The parts of the invariant that are about frames, not about counters.
FramesInv == Pending /\ InHand /\ ToCome /\ PostedOlder /\ Somewhere

\* A held frame goes to the end of the queue.
LEMMA QueuedFrames ==
    ASSUME EmitterInv, NEW c \in Cameras, at[c] # "idle", Goto(c, "idle"),
           queue' = Append(queue, Held(c)), batch' = batch, made' = made, fate' = fate
    PROVE  FramesInv' /\ queue' \in Seq(Frames) /\ Len(queue') = Len(queue) + 1
<1>1. batch \in Seq(Frames) /\ queue \in Seq(Frames) /\ Rising(batch \o queue)
  BY DEF EmitterInv, EmitterTypeOK, Pending, Waiting
<1>2. /\ Held(c) \in Frames /\ Held(c)[1] = c /\ Held(c)[2] = made[c]
      /\ made[c] \in Nat /\ fate[Held(c)] = "none"
      /\ \A g \in ToSet(Waiting) : g[1] = c => g[2] < made[c]
      /\ \A g \in Gone("sent") : g[1] = c => g[2] < made[c]
  BY HeldFrame
<1>3. /\ Rising(Waiting') /\ ToSet(Waiting') = ToSet(Waiting) \cup {Held(c)}
      /\ queue' \in Seq(Frames) /\ Len(queue') = Len(queue) + 1
  BY <1>1, <1>2, AppendedFrame DEF Waiting
<1>4. /\ at'[c] = "idle" /\ \A e \in Cameras \ {c} : at'[e] = at[e]
  BY RetryingCounts DEF EmitterInv, EmitterTypeOK
<1>5. \A f \in ToSet(Waiting) : f \in Frames /\ f[1] \in Cameras
  BY <1>1, WaitingFrames
<1>6. Pending'
  <2>1. ASSUME NEW f \in ToSet(Waiting')
        PROVE  /\ fate[f] = "none" /\ f[2] <= made[f[1]]
               /\ at'[f[1]] # "idle" => f[2] < made[f[1]]
    <3>1. CASE f = Held(c)  BY <1>2, <1>4, <3>1
    <3>2. CASE f \in ToSet(Waiting)
      <4>1. /\ fate[f] = "none" /\ f[2] <= made[f[1]]
            /\ at[f[1]] # "idle" => f[2] < made[f[1]]
        BY <3>2 DEF EmitterInv, Pending
      <4>2. QED  BY <1>4, <1>5, <3>2, <4>1
    <3>3. QED  BY <1>3, <3>1, <3>2
  <2>2. QED  BY <1>3, <2>1 DEF Pending
<1>7. InHand'  BY <1>4 DEF EmitterInv, InHand, Held
<1>8. ToCome'  BY DEF EmitterInv, ToCome
<1>9. PostedOlder'  BY <1>2, <1>3 DEF EmitterInv, PostedOlder, Gone
<1>10. Somewhere'
  <2>1. ASSUME NEW f \in Frames, f[2] <= made[f[1]], fate[f] = "none",
               f \notin ToSet(Waiting')
        PROVE  at'[f[1]] # "idle" /\ f = Held(f[1])
    <3>1. f \notin ToSet(Waiting) /\ f # Held(c)  BY <1>3, <2>1
    <3>2. at[f[1]] # "idle" /\ f = Held(f[1])
      BY <2>1, <3>1 DEF EmitterInv, Somewhere
    <3>3. f[1] # c /\ f[1] \in Cameras  BY <3>1, <3>2 DEF Frames
    <3>4. QED  BY <1>4, <3>2, <3>3
  <2>2. QED  BY <2>1 DEF Somewhere, Held
<1>11. QED  BY <1>3, <1>6, <1>7, <1>8, <1>9, <1>10 DEF FramesInv

\* A held frame is given up.
LEMMA GivenUpFrames ==
    ASSUME EmitterInv, NEW c \in Cameras, at[c] # "idle", Goto(c, "idle"),
           NEW how \in {"unqueued", "raised"}, Leave({Held(c)}, how),
           UNCHANGED <<queue, batch, made>>
    PROVE  /\ FramesInv' /\ fate' \in [Frames -> Fates]
           /\ Cardinality(Gone(how)') = Cardinality(Gone(how)) + 1
           /\ \A other \in Fates \ {"none", how} : Gone(other)' = Gone(other)
<1>1. Waiting' = Waiting /\ batch \in Seq(Frames) /\ queue \in Seq(Frames)
      /\ made' = made
  BY DEF Waiting, EmitterInv, EmitterTypeOK
<1>2. /\ Held(c) \in Frames /\ Held(c)[1] = c /\ Held(c)[2] = made[c]
      /\ made[c] \in Nat /\ fate[Held(c)] = "none"
      /\ Held(c) \notin ToSet(Waiting)
  BY HeldFrame
<1>3. how \in Fates \ {"none", "sent"} /\ fate \in [Frames -> Fates]
  BY DEF Fates, EmitterInv, EmitterTypeOK
<1>4. /\ fate' \in [Frames -> Fates]
      /\ fate'[Held(c)] = how
      /\ \A f \in Frames \ {Held(c)} : fate'[f] = fate[f]
      /\ Cardinality(Gone(how)') = Cardinality(Gone(how)) + Cardinality({Held(c)})
      /\ \A other \in Fates \ {"none", how} : Gone(other)' = Gone(other)
  BY <1>2, <1>3, LeaveCounts
<1>5. Cardinality({Held(c)}) = 1  BY FS_Singleton
<1>6. /\ at'[c] = "idle" /\ \A e \in Cameras \ {c} : at'[e] = at[e]
  BY RetryingCounts DEF EmitterInv, EmitterTypeOK
<1>7. \A f \in ToSet(Waiting) : f \in Frames /\ f[1] \in Cameras
  BY <1>1, WaitingFrames
<1>8. Pending'
  BY <1>1, <1>2, <1>4, <1>6, <1>7 DEF EmitterInv, Pending
<1>9. InHand'
  <2>1. ASSUME NEW e \in Cameras, at'[e] # "idle"
        PROVE  made[e] >= 1 /\ fate'[Held(e)] = "none"
    <3>1. e # c /\ at[e] # "idle"  BY <1>6, <2>1
    <3>2. Held(e) \in Frames /\ Held(e) # Held(c) /\ fate[Held(e)] = "none"
      BY <3>1, HeldFrame DEF Held
    <3>3. QED  BY <1>4, <3>1, <3>2 DEF EmitterInv, InHand
  <2>2. QED  BY <1>1, <2>1 DEF InHand, Held
<1>10. ToCome'
  BY <1>1, <1>2, <1>4 DEF EmitterInv, ToCome
<1>11. PostedOlder'
  <2>1. Gone("sent")' = Gone("sent")  BY <1>3, <1>4 DEF Fates
  <2>2. QED  BY <1>1, <2>1 DEF EmitterInv, PostedOlder
<1>12. Somewhere'
  <2>1. ASSUME NEW f \in Frames, f[2] <= made[f[1]], fate'[f] = "none",
               f \notin ToSet(Waiting)
        PROVE  at'[f[1]] # "idle" /\ f = Held(f[1])
    <3>1. f # Held(c)  BY <1>3, <1>4, <2>1
    <3>2. at[f[1]] # "idle" /\ f = Held(f[1])
      BY <1>4, <2>1, <3>1 DEF EmitterInv, Somewhere
    <3>3. f[1] # c /\ f[1] \in Cameras  BY <3>1, <3>2 DEF Frames
    <3>4. QED  BY <1>6, <3>2, <3>3
  <2>2. QED  BY <1>1, <2>1 DEF Somewhere, Held
<1>13. QED
  BY <1>4, <1>5, <1>8, <1>9, <1>10, <1>11, <1>12 DEF FramesInv

\* Frames that were waiting leave.
LEMMA RemovedFrames ==
    ASSUME EmitterInv, NEW F \in SUBSET Frames, F \subseteq ToSet(Waiting),
           Rising(Waiting'), ToSet(Waiting') = ToSet(Waiting) \ F,
           NEW how \in Fates \ {"none"}, Leave(F, how), made' = made,
           \A e \in Cameras : at'[e] = "idle" <=> at[e] = "idle",
           how = "sent" => \A f \in F, g \in ToSet(Waiting) \ F :
                              f[1] = g[1] => f[2] < g[2]
    PROVE  /\ FramesInv' /\ fate' \in [Frames -> Fates]
           /\ Cardinality(Gone(how)') = Cardinality(Gone(how)) + Cardinality(F)
           /\ \A other \in Fates \ {"none", how} : Gone(other)' = Gone(other)
<1>1. fate \in [Frames -> Fates] /\ \A f \in F : fate[f] = "none"
  BY DEF Fates, EmitterInv, EmitterTypeOK, Pending
<1>2. /\ fate' \in [Frames -> Fates]
      /\ \A f \in F : fate'[f] = how
      /\ \A f \in Frames \ F : fate'[f] = fate[f]
      /\ Gone(how)' = Gone(how) \cup F
      /\ Cardinality(Gone(how)') = Cardinality(Gone(how)) + Cardinality(F)
      /\ \A other \in Fates \ {"none", how} : Gone(other)' = Gone(other)
  BY <1>1, LeaveCounts
<1>3. \A f \in ToSet(Waiting) : f \in Frames /\ f[1] \in Cameras
  <2>1. batch \in Seq(Frames) /\ queue \in Seq(Frames)
    BY DEF EmitterInv, EmitterTypeOK
  <2>2. QED  BY <2>1, WaitingFrames
<1>4. Pending'  BY <1>2, <1>3 DEF EmitterInv, Pending
<1>5. InHand'
  <2>1. ASSUME NEW e \in Cameras, at'[e] # "idle"
        PROVE  made[e] >= 1 /\ fate'[Held(e)] = "none"
    <3>1. at[e] # "idle"  BY <2>1
    <3>2. Held(e) \in Frames /\ Held(e) \notin F /\ fate[Held(e)] = "none"
      BY <3>1, HeldFrame
    <3>3. QED  BY <1>2, <3>1, <3>2 DEF EmitterInv, InHand
  <2>2. QED  BY <2>1 DEF InHand, Held
<1>6. ToCome'
  <2>1. ASSUME NEW f \in Frames, f[2] > made[f[1]] PROVE fate'[f] = "none"
    <3>1. f[2] \in Nat /\ f[1] \in Cameras /\ made[f[1]] \in Nat
      BY DEF Frames, EmitterInv, EmitterTypeOK
    <3>2. f \notin F
      <4>1. f \in ToSet(Waiting) => f[2] <= made[f[1]]  BY DEF EmitterInv, Pending
      <4>2. QED  BY <2>1, <3>1, <4>1
    <3>3. QED  BY <1>2, <2>1, <3>2 DEF EmitterInv, ToCome
  <2>2. QED  BY <2>1 DEF ToCome
<1>7. PostedOlder'
  <2>1. CASE how = "sent"
    BY <1>2, <2>1 DEF EmitterInv, PostedOlder
  <2>2. CASE how # "sent"
    <3>1. Gone("sent")' = Gone("sent")  BY <1>2, <2>2 DEF Fates
    <3>2. QED  BY <3>1 DEF EmitterInv, PostedOlder
  <2>3. QED  BY <2>1, <2>2
<1>8. Somewhere'
  <2>1. ASSUME NEW f \in Frames, f[2] <= made[f[1]], fate'[f] = "none",
               f \notin ToSet(Waiting')
        PROVE  at'[f[1]] # "idle" /\ f = Held(f[1])
    <3>1. f \notin F /\ f \notin ToSet(Waiting)  BY <1>2, <2>1
    <3>2. at[f[1]] # "idle" /\ f = Held(f[1])
      BY <1>2, <2>1, <3>1 DEF EmitterInv, Somewhere
    <3>3. QED  BY <3>2 DEF Frames
  <2>2. QED  BY <2>1 DEF Somewhere, Held
<1>9. QED  BY <1>2, <1>4, <1>5, <1>6, <1>7, <1>8 DEF FramesInv

\* put_nowait appends the frame or finds the queue full.
LEMMA PutInv ==
    ASSUME EmitterInv, NEW c \in Cameras, Put(c)
    PROVE  EmitterInv'
<1>1. /\ at[c] = "put" /\ batch' = batch /\ posting' = posting /\ made' = made
      /\ sent' = sent /\ failed' = failed /\ dropped' = dropped /\ fate' = fate
  BY DEF Put, counters
<1>2. CASE Len(queue) < Cap
  <2>1. queue' = Append(queue, Held(c)) /\ Goto(c, "idle")  BY <1>2 DEF Put
  <2>2. FramesInv' /\ queue' \in Seq(Frames) /\ Len(queue') = Len(queue) + 1
    BY <1>1, <2>1, QueuedFrames
  <2>3. /\ at' \in [Cameras -> {"idle", "put", "full", "retry"}]
        /\ Retrying' = Retrying
    BY <1>1, <2>1, RetryingCounts DEF EmitterInv, EmitterTypeOK
  <2>4. Len(queue') <= Cap
    BY <1>2, <2>2, EmitterConstants DEF EmitterInv, EmitterTypeOK
  <2>5. EmitterTypeOK'  BY <1>1, <2>2, <2>3, <2>4 DEF EmitterInv, EmitterTypeOK
  <2>6. CountersExact'  BY <1>1, <2>3 DEF EmitterInv, CountersExact, Gone, Retrying
  <2>7. QED  BY <2>2, <2>5, <2>6 DEF EmitterInv, FramesInv
<1>3. CASE ~(Len(queue) < Cap)
  <2>1. queue' = queue /\ Goto(c, "full") /\ Waiting' = Waiting
    BY <1>1, <1>3 DEF Put, Waiting
  <2>2. /\ at' \in [Cameras -> {"idle", "put", "full", "retry"}]
        /\ Retrying' = Retrying
        /\ at'[c] = "full" /\ \A e \in Cameras \ {c} : at'[e] = at[e]
    BY <1>1, <2>1, RetryingCounts DEF EmitterInv, EmitterTypeOK
  <2>3. \A e \in Cameras : at'[e] = "idle" <=> at[e] = "idle"  BY <1>1, <2>2
  <2>4. EmitterTypeOK'  BY <1>1, <2>1, <2>2 DEF EmitterInv, EmitterTypeOK
  <2>5. CountersExact'  BY <1>1, <2>2 DEF EmitterInv, CountersExact, Gone, Retrying
  <2>6. \A f \in ToSet(Waiting) : f[1] \in Cameras
    <3>1. batch \in Seq(Frames) /\ queue \in Seq(Frames)
      BY DEF EmitterInv, EmitterTypeOK
    <3>2. QED  BY <3>1, WaitingFrames
  <2>7. Pending' /\ InHand'
    BY <1>1, <2>1, <2>3, <2>6 DEF EmitterInv, Pending, InHand, Held
  <2>8. ToCome' /\ PostedOlder'
    BY <1>1, <2>1 DEF EmitterInv, ToCome, PostedOlder, Gone
  <2>9. Somewhere'
    BY <1>1, <2>1, <2>3 DEF EmitterInv, Somewhere, Held, Frames
  <2>10. QED  BY <2>4, <2>5, <2>7, <2>8, <2>9 DEF EmitterInv
<1>4. QED  BY <1>2, <1>3

\* A camera that found the queue full drops the oldest of it.
LEMMA EvictInv ==
    ASSUME EmitterInv, NEW c \in Cameras, Evict(c)
    PROVE  EmitterInv'
<1>1. /\ at[c] = "full" /\ batch' = batch /\ posting' = posting /\ made' = made
      /\ sent' = sent /\ failed' = failed /\ dropped' = dropped
  BY DEF Evict, counters
<1>2. batch \in Seq(Frames) /\ queue \in Seq(Frames) /\ Rising(batch \o queue)
  BY DEF EmitterInv, EmitterTypeOK, Pending, Waiting
<1>3. dropped \in Nat /\ Cardinality(Gone("raised")) \in Nat
      /\ Cardinality(Gone("evicted")) \in Nat
  <2>1. Gone("raised") \in SUBSET Frames /\ Gone("evicted") \in SUBSET Frames  BY DEF Gone
  <2>2. IsFiniteSet(Gone("raised")) /\ IsFiniteSet(Gone("evicted"))
    BY <2>1, EmitterConstants, FS_Subset
  <2>3. QED  BY <2>2, FS_CardinalityType DEF EmitterInv, EmitterTypeOK
<1>4. Cardinality(Gone("evicted")) =
         dropped + Cardinality(Gone("raised")) + Cardinality(Retrying)
  BY DEF EmitterInv, CountersExact, Retrying
<1>5. CASE queue # <<>>
  <2>1. /\ queue' = Tail(queue) /\ Leave({Head(queue)}, "evicted")
        /\ Goto(c, "retry")
    BY <1>5 DEF Evict
  <2>2. /\ Rising(Waiting') /\ ToSet(Waiting') = ToSet(Waiting) \ {Head(queue)}
        /\ queue' \in Seq(Frames) /\ Len(queue') = Len(queue) - 1
        /\ Head(queue) \in ToSet(Waiting)
    BY <1>1, <1>2, <1>5, <2>1, EvictedFrame DEF Waiting
  <2>3. /\ at' \in [Cameras -> {"idle", "put", "full", "retry"}]
        /\ at'[c] = "retry" /\ \A e \in Cameras \ {c} : at'[e] = at[e]
        /\ Cardinality(Retrying) \in Nat
        /\ Cardinality(Retrying') = Cardinality(Retrying) + 1
    BY <1>1, <2>1, RetryingCounts DEF EmitterInv, EmitterTypeOK
  <2>4. Head(queue) \in Frames /\ "evicted" \in Fates \ {"none", "sent"}
    BY <1>2, <1>5 DEF Fates
  <2>5. \A e \in Cameras : at'[e] = "idle" <=> at[e] = "idle"  BY <1>1, <2>3
  <2>6. /\ FramesInv' /\ fate' \in [Frames -> Fates]
        /\ Cardinality(Gone("evicted")') =
              Cardinality(Gone("evicted")) + Cardinality({Head(queue)})
        /\ \A other \in Fates \ {"none", "evicted"} : Gone(other)' = Gone(other)
    BY <1>1, <2>1, <2>2, <2>4, <2>5, RemovedFrames
  <2>7. Len(queue') <= Cap
    <3>1. Len(queue) \in Nat /\ Len(queue) <= Cap
      BY <1>2 DEF EmitterInv, EmitterTypeOK
    <3>2. QED  BY <2>2, <3>1, EmitterConstants
  <2>8. EmitterTypeOK'
    BY <1>1, <2>2, <2>3, <2>6, <2>7 DEF EmitterInv, EmitterTypeOK, Fates
  <2>9. CountersExact'
    <3>1. Cardinality({Head(queue)}) = 1  BY FS_Singleton
    <3>2. /\ Gone("sent")' = Gone("sent") /\ Gone("failed")' = Gone("failed")
          /\ Gone("raised")' = Gone("raised")
      BY <2>6 DEF Fates
    <3>3. Cardinality(Gone("evicted")') =
             dropped + Cardinality(Gone("raised")) + Cardinality(Retrying')
      BY <1>3, <1>4, <2>3, <2>6, <3>1
    <3>4. QED  BY <1>1, <3>2, <3>3 DEF EmitterInv, CountersExact, Retrying
  <2>10. QED  BY <2>6, <2>8, <2>9 DEF EmitterInv, FramesInv
<1>6. CASE queue = <<>>
  <2>1. queue' = queue /\ Leave({Held(c)}, "unqueued") /\ Goto(c, "idle")
    BY <1>6 DEF Evict
  <2>2. /\ FramesInv' /\ fate' \in [Frames -> Fates]
        /\ \A other \in Fates \ {"none", "unqueued"} : Gone(other)' = Gone(other)
    BY <1>1, <2>1, GivenUpFrames
  <2>3. /\ at' \in [Cameras -> {"idle", "put", "full", "retry"}]
        /\ Retrying' = Retrying
    BY <1>1, <2>1, RetryingCounts DEF EmitterInv, EmitterTypeOK
  <2>4. EmitterTypeOK'
    BY <1>1, <2>1, <2>2, <2>3 DEF EmitterInv, EmitterTypeOK, Fates
  <2>5. /\ Gone("sent")' = Gone("sent") /\ Gone("failed")' = Gone("failed")
        /\ Gone("raised")' = Gone("raised") /\ Gone("evicted")' = Gone("evicted")
    BY <2>2 DEF Fates
  <2>6. CountersExact'  BY <1>1, <2>3, <2>5 DEF EmitterInv, CountersExact, Retrying
  <2>7. QED  BY <2>2, <2>4, <2>6 DEF EmitterInv, FramesInv
<1>7. QED  BY <1>5, <1>6

\* The second put appends the frame and counts the eviction, or the frame is lost.
LEMMA PutAgainInv ==
    ASSUME EmitterInv, NEW c \in Cameras, PutAgain(c)
    PROVE  EmitterInv'
<1>1. /\ at[c] = "retry" /\ batch' = batch /\ posting' = posting /\ made' = made
      /\ sent' = sent /\ failed' = failed /\ Goto(c, "idle")
  BY DEF PutAgain
<1>2. /\ at' \in [Cameras -> {"idle", "put", "full", "retry"}]
      /\ Cardinality(Retrying) = Cardinality(Retrying') + 1
      /\ Cardinality(Retrying) \in Nat
  BY <1>1, RetryingCounts DEF EmitterInv, EmitterTypeOK
<1>3. dropped \in Nat /\ Cardinality(Gone("raised")) \in Nat
      /\ Cardinality(Retrying') \in Nat
  <2>1. Gone("raised") \in SUBSET Frames /\ Retrying' \in SUBSET Cameras
    BY DEF Gone, Retrying
  <2>2. IsFiniteSet(Gone("raised")) /\ IsFiniteSet(Retrying')
    BY <2>1, EmitterConstants, FS_Subset
  <2>3. QED  BY <2>2, FS_CardinalityType DEF EmitterInv, EmitterTypeOK
<1>4. Cardinality(Gone("evicted")) =
         dropped + Cardinality(Gone("raised")) + Cardinality(Retrying)
  BY DEF EmitterInv, CountersExact, Retrying
<1>5. CASE Len(queue) < Cap
  <2>1. queue' = Append(queue, Held(c)) /\ dropped' = dropped + 1 /\ fate' = fate
    BY <1>5 DEF PutAgain
  <2>2. FramesInv' /\ queue' \in Seq(Frames) /\ Len(queue') = Len(queue) + 1
    BY <1>1, <2>1, QueuedFrames
  <2>3. Len(queue') <= Cap /\ dropped' \in Nat
    BY <1>3, <1>5, <2>1, <2>2, EmitterConstants DEF EmitterInv, EmitterTypeOK
  <2>4. EmitterTypeOK'
    BY <1>1, <1>2, <2>1, <2>2, <2>3 DEF EmitterInv, EmitterTypeOK
  <2>5. \A how \in Fates : Gone(how)' = Gone(how)  BY <2>1 DEF Gone
  <2>6. CountersExact'
    <3>1. /\ Gone("sent")' = Gone("sent") /\ Gone("failed")' = Gone("failed")
          /\ Gone("raised")' = Gone("raised") /\ Gone("evicted")' = Gone("evicted")
      BY <2>5 DEF Fates
    <3>2. Cardinality(Gone("evicted")) =
             dropped' + Cardinality(Gone("raised")) + Cardinality(Retrying')
      BY <1>2, <1>3, <1>4, <2>1
    <3>3. QED  BY <1>1, <3>1, <3>2 DEF EmitterInv, CountersExact, Retrying
  <2>7. QED  BY <2>2, <2>4, <2>6 DEF EmitterInv, FramesInv
<1>6. CASE ~(Len(queue) < Cap)
  <2>1. queue' = queue /\ dropped' = dropped /\ Leave({Held(c)}, "raised")
    BY <1>6 DEF PutAgain
  <2>2. /\ FramesInv' /\ fate' \in [Frames -> Fates]
        /\ Cardinality(Gone("raised")') = Cardinality(Gone("raised")) + 1
        /\ \A other \in Fates \ {"none", "raised"} : Gone(other)' = Gone(other)
    BY <1>1, <2>1, GivenUpFrames
  <2>3. EmitterTypeOK'
    BY <1>1, <1>2, <2>1, <2>2 DEF EmitterInv, EmitterTypeOK, Fates
  <2>4. CountersExact'
    <3>1. /\ Gone("sent")' = Gone("sent") /\ Gone("failed")' = Gone("failed")
          /\ Gone("evicted")' = Gone("evicted")
      BY <2>2 DEF Fates
    <3>2. Cardinality(Gone("evicted")) =
             dropped + Cardinality(Gone("raised")') + Cardinality(Retrying')
      BY <1>2, <1>3, <1>4, <2>2
    <3>3. QED  BY <1>1, <2>1, <3>1, <3>2 DEF EmitterInv, CountersExact, Retrying
  <2>5. QED  BY <2>2, <2>3, <2>4 DEF EmitterInv, FramesInv
<1>7. QED  BY <1>5, <1>6

\* The emitter's thread moves the head of the queue to its batch.
LEMMA TakeInv ==
    ASSUME EmitterInv, Take
    PROVE  EmitterInv'
<1>1. /\ queue # <<>> /\ Len(batch) < BatchSize
      /\ batch' = Append(batch, Head(queue)) /\ queue' = Tail(queue)
      /\ UNCHANGED <<posting, at, made, sent, failed, dropped, fate>>
  BY DEF Take, counters
<1>2. batch \in Seq(Frames) /\ queue \in Seq(Frames) /\ Len(queue) <= Cap
  BY DEF EmitterInv, EmitterTypeOK
<1>3. /\ Waiting' = Waiting /\ batch' \in Seq(Frames) /\ queue' \in Seq(Frames)
      /\ Len(batch') = Len(batch) + 1 /\ Len(queue') = Len(queue) - 1
  BY <1>1, <1>2, TakenFrame DEF Waiting
<1>4. Len(batch') <= BatchSize /\ Len(queue') <= Cap
  <2>1. Len(batch) \in Nat /\ Len(queue) \in Nat  BY <1>2, AtPlace
  <2>2. QED  BY <1>1, <1>2, <1>3, <2>1, EmitterConstants
<1>5. EmitterTypeOK'  BY <1>1, <1>3, <1>4 DEF EmitterInv, EmitterTypeOK
<1>6. QED
  BY <1>1, <1>3, <1>5 DEF EmitterInv, Pending, InHand, ToCome, PostedOlder, CountersExact,
                          Somewhere, Gone, Held

\* The batch is posted as it is.
LEMMA CloseBatchInv ==
    ASSUME EmitterInv, CloseBatch
    PROVE  EmitterInv'
BY DEF CloseBatch, counters, EmitterInv, EmitterTypeOK, Pending, InHand, ToCome,
       PostedOlder, CountersExact, Somewhere, Gone, Held, Waiting

\* The whole batch was sent or failed, and a batch of as many frames is counted.
LEMMA PostInv ==
    ASSUME EmitterInv, PostAnswered \/ PostFails
    PROVE  EmitterInv'
<1>1. batch \in Seq(Frames) /\ queue \in Seq(Frames) /\ Rising(batch \o queue)
  BY DEF EmitterInv, EmitterTypeOK, Pending, Waiting
<1>2. batch' = <<>> /\ queue' = queue /\ at' = at /\ made' = made /\ posting' = FALSE
      /\ dropped' = dropped
  BY DEF PostAnswered, PostFails
<1>3. /\ Rising(Waiting')
      /\ ToSet(batch) \subseteq ToSet(Waiting)
      /\ ToSet(Waiting') = ToSet(Waiting) \ ToSet(batch)
      /\ ToSet(Waiting') = ToSet(queue)
      /\ \A f \in ToSet(batch), g \in ToSet(queue) : f[1] = g[1] => f[2] < g[2]
      /\ Cardinality(ToSet(batch)) = Len(batch)
  BY <1>1, <1>2, PostedBatch DEF Waiting
<1>4. ToSet(batch) \in SUBSET Frames  BY <1>1, AtPlace
<1>5. PICK how \in {"sent", "failed"} :
         /\ Leave(ToSet(batch), how)
         /\ how = "sent" => sent' = sent + Len(batch) /\ failed' = failed
         /\ how = "failed" => failed' = failed + Len(batch) /\ sent' = sent
  BY DEF PostAnswered, PostFails
<1>6. how \in Fates \ {"none"}  BY DEF Fates
<1>7. /\ FramesInv' /\ fate' \in [Frames -> Fates]
      /\ Cardinality(Gone(how)') = Cardinality(Gone(how)) + Len(batch)
      /\ \A other \in Fates \ {"none", how} : Gone(other)' = Gone(other)
  BY <1>2, <1>3, <1>4, <1>5, <1>6, RemovedFrames
<1>8. EmitterTypeOK'
  <2>1. Len(batch) \in Nat /\ <<>> \in Seq(Frames) /\ Len(<<>>) = 0
    BY <1>1, AtPlace
  <2>2. sent' \in Nat /\ failed' \in Nat
    BY <1>5, <2>1 DEF EmitterInv, EmitterTypeOK
  <2>3. batch' \in Seq(Frames) /\ Len(batch') <= BatchSize
    BY <1>2, <2>1, EmitterConstants
  <2>4. QED  BY <1>2, <1>7, <2>2, <2>3 DEF EmitterInv, EmitterTypeOK, Fates
<1>9. CountersExact'
  <2>1. Gone("evicted")' = Gone("evicted") /\ Gone("raised")' = Gone("raised")
    BY <1>7 DEF Fates
  <2>2. sent' = Cardinality(Gone("sent")')
    BY <1>5, <1>7 DEF Fates, EmitterInv, CountersExact
  <2>3. failed' = Cardinality(Gone("failed")')
    BY <1>5, <1>7 DEF Fates, EmitterInv, CountersExact
  <2>4. QED  BY <1>2, <2>1, <2>2, <2>3 DEF EmitterInv, CountersExact
<1>10. QED  BY <1>7, <1>8, <1>9 DEF EmitterInv, FramesInv

\* Each step of the emitter preserves the invariant.
LEMMA EmitterStepInv == EmitterInv /\ [EmitterNext]_emitterVars => EmitterInv'
<1> SUFFICES ASSUME EmitterInv, [EmitterNext]_emitterVars PROVE EmitterInv'
  OBVIOUS
<1>1. CASE UNCHANGED emitterVars
  BY <1>1 DEF emitterVars, counters, EmitterInv, EmitterTypeOK, Pending, InHand,
              ToCome, PostedOlder, CountersExact, Somewhere, Gone, Held, Waiting
<1>2. CASE EmitterNext
  BY <1>2, ProduceInv, PutInv, EvictInv, PutAgainInv, TakeInv, CloseBatchInv, PostInv
     DEF EmitterNext, Enqueue, Emit
<1>3. QED  BY <1>1, <1>2

\* So the invariant always holds.
LEMMA EmitterInvariance == EmitterSafetySpec => []EmitterInv
BY EmitterInitInv, EmitterStepInv, PTL DEF EmitterSafetySpec

\* The queue never exceeds its limit nor the batch the batch size, and the other
\* variables have their types, for any number of cameras and frames.
THEOREM EmitterTypeCorrect == EmitterSafetySpec => []EmitterTypeOK
<1>1. EmitterInv => EmitterTypeOK  BY DEF EmitterInv
<1>2. QED  BY <1>1, EmitterInvariance, PTL

\* Whatever posts fail and whatever enqueue evicts, the backend gets each camera's
\* frames in the order they were made and none twice.
THEOREM FramesInOrder == EmitterSafetySpec => []InOrder
<1>1. EmitterInv => InOrder  BY EmitterInvMeans
<1>2. QED  BY <1>1, EmitterInvariance, PTL

\* Every frame ever made waits, is in its camera's hands or left in one way, and sent,
\* failed and dropped count those that did, but for an eviction whose second put has
\* not succeeded.
THEOREM FramesAccounted == EmitterSafetySpec => []Accounted
<1>1. EmitterInv => Accounted  BY EmitterInvMeans
<1>2. QED  BY <1>1, EmitterInvariance, PTL
=============================================================================
