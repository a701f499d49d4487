-------------------------- MODULE ClipVerdictProofs --------------------------
(***************************************************************************)
(* Proofs about ClipVerdict for any pads, limits and retry budgets, and    *)
(* for any recordings with any gaps.                                       *)
(***************************************************************************)
EXTENDS ClipVerdict, FiniteSetTheorems, NaturalsInduction, TLAPS

\* The budgets while the VLM is asked, before and after.
BudgetsKept ==
    /\ pc \in {"idle", "cut", "frames"} =>
          /\ got = NoReplies /\ parseFailures = 0 /\ ~transportRetried
          /\ recorded = 0
    /\ pc = "ask" =>
          /\ parseFailures <= RetryOnParse
          /\ got = [parse |-> parseFailures,
                    transport |-> IF transportRetried THEN 1 ELSE 0,
                    other |-> 0, ok |-> 0]
          /\ recorded = 0

\* A file of the backend's is never cut.
CutIsOwn == pc = "cut" => caller # "file"

\* A file of the backend's is there until its job has ended.
FileStays == pc \in {"frames", "ask", "end"} /\ caller = "file" => onDisk

IInv ==
    /\ TypeOK /\ BudgetsKept /\ CutIsOwn /\ FileStays
    /\ WindowReachesBack /\ BudgetsApart /\ ClipGone

-----------------------------------------------------------------------------
(* The window.                                                             *)

\* The assumption on the constants, taken apart.
LEMMA ConstantsTyped ==
    /\ Now \in Nat /\ Slack \in Nat /\ Default \in Nat /\ MinSec \in Nat
    /\ MaxGap \in Nat /\ RetryOnParse \in Nat
    /\ PrePad \in Int /\ MaxSec \in Int /\ PostRolls \subseteq Nat
    /\ 0 < Slack /\ MinSec <= Now /\ MaxSec <= Now
BY ClipAssumption DEF ClipAssumption

\* The longest window is one the recordings can hold.
LEMMA LongestTyped ==
    Longest \in Nat /\ MinSec <= Longest /\ MaxSec <= Longest /\ Longest <= Now
BY ConstantsTyped DEF Longest, AtLeast

\* The window is no longer than the longest, longer than the post-roll wherever the
\* longest is, and as long as the episode with its pads wherever that is allowed.
LEMMA DurationBounds ==
    ASSUME NEW g \in NoEpisode..MaxGap, NEW waited \in PostRolls
    PROVE  /\ Duration(g, waited) \in Nat /\ Duration(g, waited) <= Longest
           /\ PrePad + Slack > 0 =>
                 (waited < 2 * Duration(g, waited) <=> waited < 2 * Longest)
           /\ g # NoEpisode /\ Duration(g, waited) < Longest =>
                 2 * Duration(g, waited) >= g + 2 * PrePad + waited
<1> DEFINE pre  == IF g = NoEpisode THEN 2 * Default ELSE g + 2 * PrePad
           need == Ceil(pre + waited + 2 * Slack)
           length == Duration(g, waited)
<1>1. g \in Int /\ g >= -1 /\ (g # NoEpisode => g >= 0) /\ waited \in Nat
  BY ConstantsTyped DEF NoEpisode
<1>2. /\ pre \in Int
      /\ g # NoEpisode => pre = g + 2 * PrePad
      /\ PrePad + Slack > 0 => pre + 2 * Slack > 0
  BY <1>1, ConstantsTyped
<1> HIDE DEF pre
<1>3. /\ need \in Int /\ 2 * need >= pre + waited + 2 * Slack
  <2>1. pre + waited + 2 * Slack \in Int  BY <1>1, <1>2, ConstantsTyped
  <2>2. ASSUME NEW h \in Int
        PROVE  Ceil(h) \in Int /\ 2 * Ceil(h) >= h
    BY DEF Ceil
  <2>3. QED  BY <2>1, <2>2
<1>4. length = AtLeast(MinSec, AtMost(MaxSec, need))  BY DEF Duration, pre
<1> HIDE DEF need, length
<1>5. /\ AtMost(MaxSec, need) \in Int /\ AtMost(MaxSec, need) <= MaxSec
      /\ AtMost(MaxSec, need) = MaxSec \/ AtMost(MaxSec, need) = need
  BY <1>3, ConstantsTyped DEF AtMost
<1>6. /\ length \in Nat /\ length <= Longest
      /\ length = Longest \/ length >= need
  BY <1>4, <1>5, <1>3, ConstantsTyped DEF AtLeast, Longest
<1>7. ASSUME PrePad + Slack > 0
      PROVE  waited < 2 * length <=> waited < 2 * Longest
  <2>1. CASE length = Longest  BY <2>1
  <2>2. CASE length >= need
    <3>1. waited < 2 * need  BY <1>1, <1>2, <1>3, <1>7, ConstantsTyped
    <3>2. QED  BY <1>1, <1>3, <1>6, <2>2, <3>1, LongestTyped
  <2>3. QED  BY <1>6, <2>1, <2>2
<1>8. ASSUME g # NoEpisode, length < Longest
      PROVE  2 * length >= g + 2 * PrePad + waited
  <2>1. length >= need  BY <1>6, <1>8, LongestTyped
  <2>2. QED  BY <1>1, <1>2, <1>3, <1>6, <1>8, <2>1, ConstantsTyped
<1>9. QED  BY <1>6, <1>7, <1>8 DEF length

\* A window begins in the past and has a length.
LEMMA WindowTyped ==
    ASSUME NEW g \in NoEpisode..MaxGap, NEW waited \in PostRolls
    PROVE  ClipWindow(g, waited) \in [from : 0..Now, len : 0..Now]
<1>1. Duration(g, waited) \in Nat /\ Duration(g, waited) <= Now
  BY DurationBounds, LongestTyped, ConstantsTyped
<1>2. Now - Duration(g, waited) \in 0..Now /\ Duration(g, waited) \in 0..Now
  BY <1>1, ConstantsTyped
<1>3. QED  BY <1>2 DEF ClipWindow

\* A clip shows what was recorded and nothing else.
LEMMA CutTyped ==
    ASSUME NEW r \in [secs : SUBSET Seconds, starts : SUBSET Seconds], NEW w
    PROVE  Cut(r, w) \subseteq Seconds
<1> SUFFICES ASSUME NEW x \in Cut(r, w) PROVE x \in Seconds  OBVIOUS
<1>1. x \in UNION {Footage(r, s) : s \in Overlapping(r, w)}  BY DEF Cut
<1>2. x \in r.secs  BY <1>1 DEF Footage
<1>3. QED  BY <1>2

-----------------------------------------------------------------------------
(* What a cut holds.                                                       *)

\* A set of natural numbers has a least one.
LEMMA LeastOf ==
    ASSUME NEW S \in SUBSET Nat, S # {}
    PROVE  Min(S) \in S /\ \A y \in S : Min(S) <= y
<1>1. PICK x \in S : \A y \in S : ~(<<y, x>> \in OpToRel(<, Nat))
  BY NatLessThanWellFounded, WFMin
<1>2. \A y \in S : x <= y
  <2> SUFFICES ASSUME NEW y \in S PROVE x <= y  OBVIOUS
  <2>1. x \in Nat /\ y \in Nat  OBVIOUS
  <2>2. ~(y < x)
    <3>1. <<y, x>>[1] = y /\ <<y, x>>[2] = x /\ <<y, x>> \in Nat \X Nat  BY <2>1
    <3>2. y < x => <<y, x>> \in OpToRel(<, Nat)  BY <3>1 DEF OpToRel
    <3>3. QED  BY <1>1, <3>2
  <2>3. QED  BY <2>1, <2>2
<1>3. \E z \in S : \A y \in S : z =< y  BY <1>1, <1>2
<1>4. QED  BY <1>3 DEF Min

\* Recordings end now, and where there is no file boundary there is no gap.
LEMMA RecordingsTyped ==
    ASSUME NEW r \in Recordings
    PROVE  /\ r.secs \subseteq Nat /\ r.starts \subseteq r.secs
           /\ \A x \in r.secs : x < Now
           /\ \A x \in r.secs : x \in r.starts \/ (x - 1) \in r.secs
BY ConstantsTyped DEF Recordings, Seconds

\* A file ends after its start and no later than the next file's start, or, if it is
\* the last one, after all that was recorded.
LEMMA FileEnds ==
    ASSUME NEW r \in Recordings, NEW s \in r.starts
    PROVE  /\ SegmentEnd(r, s) \in Nat
           /\ \A t \in r.starts : t > s => SegmentEnd(r, s) <= t
           /\ \/ SegmentEnd(r, s) \in r.starts /\ SegmentEnd(r, s) > s
              \/ SegmentEnd(r, s) >= Now
<1> DEFINE later == {t \in r.starts : t > s}
<1>1. s \in Nat /\ later \subseteq Nat  BY RecordingsTyped
<1>2. SegmentMax \in Nat /\ SegmentMax >= Now  BY ClipAssumption DEF ClipAssumption
<1>3. CASE later = {}
  <2>1. SegmentEnd(r, s) = s + SegmentMax  BY <1>3 DEF SegmentEnd
  <2>2. QED  BY <1>1, <1>2, <1>3, <2>1, ConstantsTyped
<1>4. CASE later # {}
  <2>1. SegmentEnd(r, s) = Min(later)  BY <1>4 DEF SegmentEnd
  <2>2. Min(later) \in later /\ \A t \in later : Min(later) <= t
    BY <1>1, <1>4, LeastOf
  <2>3. QED  BY <1>1, <2>1, <2>2
<1>5. QED  BY <1>3, <1>4

\* Every recorded second is in a file.
LEMMA FileOf ==
    ASSUME NEW r \in Recordings, NEW x \in r.secs
    PROVE  \E s \in r.starts : s <= x /\ x < SegmentEnd(r, s)
<1>1. /\ r.secs \subseteq Nat /\ r.starts \subseteq r.secs /\ x < Now
      /\ \A y \in r.secs : y \in r.starts \/ (y - 1) \in r.secs
  BY RecordingsTyped
<1> DEFINE back == {d \in Nat : (x - d) \in r.starts}
<1>2. back # {}
  <2> DEFINE first == Min(r.secs)
  <2>1. first \in r.secs /\ \A y \in r.secs : first <= y  BY <1>1, LeastOf
  <2> HIDE DEF first
  <2>2. first \in r.starts
    <3>1. (first - 1) \notin r.secs  BY <1>1, <2>1
    <3>2. QED  BY <1>1, <2>1, <3>1
  <2>3. x \in Nat /\ first \in Nat /\ first <= x  BY <1>1, <2>1
  <2>4. x - first \in Nat /\ x - (x - first) = first  BY <2>3
  <2>5. QED  BY <2>2, <2>4
<1> DEFINE d == Min(back)
<1>3. d \in Nat /\ (x - d) \in r.starts /\ \A e \in back : d <= e
  BY <1>2, LeastOf
<1> HIDE DEF d
<1>4. x - d <= x /\ x \in Nat  BY <1>1, <1>3
<1>5. x < SegmentEnd(r, x - d)
  <2>1. CASE SegmentEnd(r, x - d) >= Now
    BY <1>1, <1>3, <1>4, <2>1, FileEnds, ConstantsTyped
  <2>2. CASE SegmentEnd(r, x - d) \in r.starts /\ SegmentEnd(r, x - d) > x - d
    <3> DEFINE t == SegmentEnd(r, x - d)
    <3>1. t \in Nat /\ t \in r.starts /\ t > x - d  BY <1>1, <2>2
    <3> HIDE DEF t
    <3>2. ASSUME t <= x PROVE FALSE
      <4>1. x - t \in Nat /\ x - (x - t) = t  BY <1>4, <3>1, <3>2
      <4>2. x - t \in back  BY <3>1, <4>1
      <4>3. QED  BY <1>3, <1>4, <3>1, <4>2
    <3>3. QED  BY <1>4, <3>1, <3>2 DEF t
  <2>3. QED  BY <1>3, <2>1, <2>2, FileEnds
<1>6. QED  BY <1>3, <1>4, <1>5

\* A file has no gap before a second it holds.
LEMMA FileUnbroken ==
    ASSUME NEW r \in Recordings, NEW s \in r.starts, NEW x \in r.secs,
           s <= x, x < SegmentEnd(r, s), NEW y \in s..x
    PROVE  y \in r.secs
<1>1. /\ s \in Nat /\ x \in Nat /\ y \in Nat /\ s <= y /\ y <= x
      /\ \A z \in r.secs : z \in r.starts \/ (z - 1) \in r.secs
  BY RecordingsTyped
<1>2. SegmentEnd(r, s) \in Nat /\ \A t \in r.starts : t > s => SegmentEnd(r, s) <= t
  BY FileEnds
<1> DEFINE holes == {d \in Nat : d <= x - s /\ (x - d) \notin r.secs}
<1>3. ASSUME holes # {} PROVE FALSE
  <2> DEFINE d == Min(holes)
  <2>1. /\ d \in Nat /\ d <= x - s /\ (x - d) \notin r.secs
        /\ \A e \in holes : d <= e
    BY <1>3, LeastOf
  <2> HIDE DEF d
  <2>2. d # 0
    <3>1. x - 0 = x  BY <1>1
    <3>2. QED  BY <2>1, <3>1
  <2>3. d - 1 \in Nat /\ d - 1 <= x - s /\ d - 1 \notin holes
    BY <1>1, <2>1, <2>2
  <2>4. x - (d - 1) \in r.secs  BY <2>3
  <2>5. x - (d - 1) \notin r.starts
    <3>1. x - (d - 1) > s /\ x - (d - 1) <= x /\ x - (d - 1) \in Int
      BY <1>1, <2>1, <2>2
    <3>2. x - (d - 1) < SegmentEnd(r, s)  BY <1>1, <1>2, <3>1
    <3>3. QED  BY <1>2, <3>1, <3>2
  <2>6. (x - (d - 1)) - 1 \in r.secs  BY <1>1, <2>4, <2>5
  <2>7. (x - (d - 1)) - 1 = x - d  BY <1>1, <2>1
  <2>8. QED  BY <2>1, <2>6, <2>7
<1>4. x - y \in Nat /\ x - y <= x - s /\ x - (x - y) = y  BY <1>1
<1>5. QED  BY <1>3, <1>4

\* The place of x among the seconds C from first on: no further than x is from first,
\* and no less far than C reaches without a gap.
LEMMA PlaceBounds ==
    ASSUME NEW first \in Nat, NEW C \in SUBSET Nat, \A y \in C : first <= y,
           NEW x \in Nat, first <= x
    PROVE  /\ Cardinality({y \in C : y < x}) \in Nat
           /\ Cardinality({y \in C : y < x}) <= x - first
           /\ \A n \in first..x :
                 first..(n - 1) \subseteq C => n - first <= Cardinality({y \in C : y < x})
<1> DEFINE before == {y \in C : y < x}
<1>1. IsFiniteSet(first..(x - 1)) /\ Cardinality(first..(x - 1)) = x - first
  <2>1. first \in Int /\ x - 1 \in Int  OBVIOUS
  <2>2. /\ IsFiniteSet(first..(x - 1))
        /\ Cardinality(first..(x - 1)) =
              IF first > x - 1 THEN 0 ELSE (x - 1) - first + 1
    BY <2>1, FS_Interval
  <2>3. QED  BY <2>2
<1>2. before \subseteq first..(x - 1)
  <2> SUFFICES ASSUME NEW y \in C, y < x PROVE y \in first..(x - 1)  OBVIOUS
  <2>1. y \in Nat /\ first <= y  OBVIOUS
  <2>2. QED  BY <2>1
<1>3. IsFiniteSet(before) /\ Cardinality(before) <= x - first
  BY <1>1, <1>2, FS_Subset
<1>4. Cardinality(before) \in Nat  BY <1>3, FS_CardinalityType
<1>5. ASSUME NEW n \in first..x, first..(n - 1) \subseteq C
      PROVE  n - first <= Cardinality(before)
  <2>1. first \in Int /\ n - 1 \in Int  OBVIOUS
  <2>2. Cardinality(first..(n - 1)) =
              IF first > n - 1 THEN 0 ELSE (n - 1) - first + 1
    BY <2>1, FS_Interval
  <2>3. Cardinality(first..(n - 1)) = n - first  BY <2>2
  <2>4. first..(n - 1) \subseteq before
    <3> SUFFICES ASSUME NEW y \in first..(n - 1) PROVE y \in C /\ y < x  OBVIOUS
    <3>1. y \in C  BY <1>5
    <3>2. QED  BY <3>1
  <2>5. QED  BY <1>3, <2>3, <2>4, FS_Subset
<1>6. QED  BY <1>3, <1>4, <1>5

\* What ffmpeg is given to concatenate, and where it begins.
LEMMA CutShowsWindow ==
    ASSUME NEW r \in Recordings, NEW w \in [from : 0..Now, len : 0..Now],
           Overlapping(r, w) # {}
    PROVE  /\ \A x \in Cut(r, w) : x >= w.from
           /\ \/ {x \in r.secs : w.from <= x /\ x < w.from + w.len} \subseteq Cut(r, w)
              \/ w.from \notin r.secs /\ \E x \in r.secs : x < w.from
<1> DEFINE files    == Overlapping(r, w)
           content  == UNION {Footage(r, s) : s \in files}
           first    == Min(files)
           seek     == AtLeast(0, w.from - first)
           place(x) == Cardinality({y \in content : y < x})
<1>1. /\ r.secs \subseteq Nat /\ r.starts \subseteq r.secs
      /\ w.from \in Nat /\ w.len \in Nat
  BY RecordingsTyped, ConstantsTyped
<1>2. Cut(r, w) = {x \in content : place(x) \in seek..(seek + w.len - 1)}
  BY DEF Cut
<1>3. \A s : s \in files <=> /\ s \in r.starts /\ s < w.from + w.len
                             /\ SegmentEnd(r, s) > w.from
  BY DEF Overlapping
<1>4. \A x : x \in content <=>
         \E s \in files : x \in r.secs /\ s <= x /\ x < SegmentEnd(r, s)
  BY DEF Footage
<1>5. first \in files /\ \A s \in files : first <= s
  <2>1. files \subseteq Nat /\ files # {}  BY <1>1, <1>3
  <2>2. QED  BY <2>1, LeastOf
<1> HIDE DEF files, content, first
<1>6. first \in Nat /\ first \in r.starts /\ SegmentEnd(r, first) > w.from
  BY <1>1, <1>3, <1>5
<1>7. content \subseteq Nat /\ \A y \in content : first <= y
  <2> SUFFICES ASSUME NEW y \in content PROVE y \in Nat /\ first <= y  OBVIOUS
  <2>1. PICK s \in files : y \in r.secs /\ s <= y  BY <1>4
  <2>2. first <= s /\ s \in Nat /\ y \in Nat  BY <1>1, <1>3, <1>5, <2>1
  <2>3. QED  BY <1>6, <2>1, <2>2
<1>8. seek \in Nat /\ seek = (IF first < w.from THEN w.from - first ELSE 0)
  BY <1>1, <1>6 DEF AtLeast
<1> HIDE DEF seek
<1>9. ASSUME NEW x \in content
      PROVE  /\ x \in Nat /\ first <= x /\ place(x) \in Nat /\ place(x) <= x - first
             /\ \A n \in first..x :
                   first..(n - 1) \subseteq content => n - first <= place(x)
  BY <1>6, <1>7, <1>9, PlaceBounds
<1> HIDE DEF place
<1>10. ASSUME NEW x \in Cut(r, w) PROVE x >= w.from
  <2>1. x \in content /\ place(x) \in seek..(seek + w.len - 1)  BY <1>2
  <2>2. seek <= place(x) /\ x \in Nat /\ first <= x /\ place(x) <= x - first
        /\ place(x) \in Nat
    BY <1>8, <1>9, <2>1
  <2>3. QED  BY <1>1, <1>6, <1>8, <2>2
<1>11. ASSUME w.from \in r.secs \/ \A x \in r.secs : x >= w.from,
              NEW x \in r.secs, w.from <= x, x < w.from + w.len
       PROVE  x \in Cut(r, w)
  <2>1. x \in content
    <3>1. PICK s \in r.starts : s <= x /\ x < SegmentEnd(r, s)  BY FileOf
    <3>2. s \in Nat /\ x \in Nat /\ SegmentEnd(r, s) \in Nat
      BY <1>1, <3>1, FileEnds
    <3>3. s \in files  BY <1>1, <1>3, <1>11, <3>1, <3>2
    <3>4. QED  BY <1>4, <3>1, <3>3
  <2>2. /\ x \in Nat /\ first <= x /\ place(x) \in Nat /\ place(x) <= x - first
        /\ \A n \in first..x :
              first..(n - 1) \subseteq content => n - first <= place(x)
    BY <1>9, <2>1
  <2>3. seek <= place(x)
    <3>1. CASE first < w.from
      <4>1. w.from \in r.secs  BY <1>1, <1>6, <1>11, <3>1
      <4>2. SegmentEnd(r, first) \in Nat  BY <1>6, FileEnds
      <4>3. ASSUME NEW y \in first..(w.from - 1) PROVE y \in content
        <5>1. y \in first..(w.from) /\ y < SegmentEnd(r, first) /\ first <= y
          BY <1>1, <1>6, <4>2
        <5>2. y \in r.secs
          BY <1>1, <1>6, <3>1, <4>1, <4>2, <5>1, FileUnbroken
        <5>3. QED  BY <1>4, <1>5, <5>1, <5>2
      <4>4. w.from \in first..x  BY <1>1, <1>6, <1>11, <2>2, <3>1
      <4>5. w.from - first <= place(x)  BY <2>2, <4>3, <4>4
      <4>6. QED  BY <1>8, <3>1, <4>5
    <3>2. QED  BY <1>8, <2>2, <3>1
  <2>4. place(x) <= seek + w.len - 1
    BY <1>1, <1>6, <1>8, <1>11, <2>2
  <2>5. QED  BY <1>1, <1>2, <1>8, <2>1, <2>2, <2>3, <2>4
<1>12. \/ w.from \notin r.secs /\ \E x \in r.secs : x < w.from
       \/ w.from \in r.secs \/ \A x \in r.secs : x >= w.from
  BY <1>1
<1>13. QED  BY <1>10, <1>11, <1>12

-----------------------------------------------------------------------------
(* The jobs.                                                               *)

\* No reply has been counted before the first.
LEMMA NoRepliesTyped ==
    /\ NoReplies \in [{"parse", "transport", "other", "ok"} -> 0..CountCap]
    /\ NoReplies.parse = 0 /\ NoReplies.transport = 0
    /\ NoReplies.other = 0 /\ NoReplies.ok = 0
<1>1. 0 \in 0..CountCap  BY ConstantsTyped DEF CountCap
<1>2. QED  BY <1>1 DEF NoReplies

\* There is no job at first.
LEMMA InitInv == Init => IInv
<1> SUFFICES ASSUME Init PROVE IInv  OBVIOUS
<1>1. TypeOK
  <2>1. gap \in NoEpisode..MaxGap /\ roll \in PostRolls \cup {0}
    BY ConstantsTyped DEF Init, NoEpisode
  <2>2. win \in [from : 0..Now, len : 0..Now]
    BY ConstantsTyped DEF Init, NoWindow
  <2>3. rec \in [secs : SUBSET Seconds, starts : SUBSET Seconds]
    BY DEF Init, NoRecording
  <2>4. parseFailures \in 0..(RetryOnParse + 1)  BY ConstantsTyped DEF Init
  <2>5. recorded \in 0..1  BY DEF Init
  <2>6. QED
    BY <2>1, <2>2, <2>3, <2>4, <2>5, NoRepliesTyped DEF Init, TypeOK, Callers, Results
<1>2. BudgetsKept /\ CutIsOwn /\ FileStays /\ WindowReachesBack /\ ClipGone
  BY DEF Init, BudgetsKept, CutIsOwn, FileStays, WindowReachesBack, ClipGone
<1>3. BudgetsApart
  BY NoRepliesTyped, ConstantsTyped DEF Init, BudgetsApart
<1>4. QED  BY <1>1, <1>2, <1>3 DEF IInv

-----------------------------------------------------------------------------
(* The steps before the VLM is asked.                                      *)

\* Between jobs the counts are at zero, and a step that leaves them there and neither
\* ends the job nor asks keeps what is said of them.
LEMMA CountsAtRest ==
    ASSUME IInv, pc \in {"idle", "cut", "frames"}, pc' \in {"idle", "cut", "frames"},
           UNCHANGED <<parseFailures, transportRetried, got, recorded>>
    PROVE  BudgetsKept' /\ BudgetsApart'
BY DEF IInv, BudgetsKept, BudgetsApart

\* A new job's window, recording and budgets.
LEMMA TakeInv ==
    ASSUME IInv,
           \/ \E g \in NoEpisode..MaxGap, waited \in PostRolls, r \in Recordings :
                 TakeBreach(g, waited, r)
           \/ \E w \in Requests, r \in Recordings : TakeRequest(w, r)
           \/ TakeFile
    PROVE  IInv'
<1>1. ASSUME NEW g \in NoEpisode..MaxGap, NEW waited \in PostRolls,
             NEW r \in Recordings, TakeBreach(g, waited, r)
      PROVE  IInv'
  <2>1. /\ pc = "idle" /\ pc' = "cut" /\ caller' = "breach"
        /\ gap' = g /\ roll' = waited /\ win' = ClipWindow(g, waited) /\ rec' = r
        /\ onDisk' = FALSE /\ result' = "none"
        /\ UNCHANGED <<clip, parseFailures, transportRetried, got, recorded>>
    BY <1>1 DEF TakeBreach
  <2>2. r \in [secs : SUBSET Seconds, starts : SUBSET Seconds]  BY DEF Recordings
  <2>3. TypeOK'
    BY <2>1, <2>2, WindowTyped DEF IInv, TypeOK, Callers, Results
  <2>4. BudgetsKept' /\ BudgetsApart'  BY <2>1, CountsAtRest
  <2>5. WindowReachesBack'
    <3> DEFINE length == Duration(g, waited)
    <3>1. win'.from = Now - length /\ win'.len = length
      BY <2>1 DEF ClipWindow
    <3>2. /\ length \in Nat
          /\ PrePad + Slack > 0 => (waited < 2 * length <=> waited < 2 * Longest)
          /\ g # NoEpisode /\ length < Longest =>
                2 * length >= g + 2 * PrePad + waited
      BY DurationBounds
    <3> HIDE DEF length
    <3>3. g \in Int /\ waited \in Nat  BY ConstantsTyped DEF NoEpisode
    <3>4. win'.from + win'.len = Now
      BY <3>1, <3>2, ConstantsTyped
    <3>5. 2 * win'.from < 2 * Now - waited <=> waited < 2 * length
      BY <3>1, <3>2, <3>3, ConstantsTyped
    <3>6. g # NoEpisode /\ win'.len < Longest =>
              2 * win'.from <= 2 * Now - waited - g - 2 * PrePad
      BY <3>1, <3>2, <3>3, ConstantsTyped
    <3>7. QED  BY <2>1, <3>2, <3>4, <3>5, <3>6 DEF WindowReachesBack
  <2>6. CutIsOwn' /\ FileStays' /\ ClipGone'  BY <2>1 DEF CutIsOwn, FileStays, ClipGone
  <2>7. QED  BY <2>3, <2>4, <2>5, <2>6 DEF IInv
<1>2. ASSUME NEW w \in Requests, NEW r \in Recordings, TakeRequest(w, r)
      PROVE  IInv'
  <2>1. /\ pc = "idle" /\ pc' = "cut" /\ caller' = "endpoint"
        /\ win' = w /\ rec' = r /\ onDisk' = FALSE /\ result' = "none"
        /\ UNCHANGED <<gap, roll, clip, parseFailures, transportRetried, got, recorded>>
    BY <1>2 DEF TakeRequest
  <2>2. r \in [secs : SUBSET Seconds, starts : SUBSET Seconds]  BY DEF Recordings
  <2>3. w \in [from : 0..Now, len : 0..Now]
    <3>1. Seconds \subseteq 0..Now /\ 1..Now \subseteq 0..Now
      BY ConstantsTyped DEF Seconds
    <3>2. QED  BY <3>1 DEF Requests
  <2>4. TypeOK'  BY <2>1, <2>2, <2>3 DEF IInv, TypeOK, Callers, Results
  <2>5. BudgetsKept' /\ BudgetsApart'  BY <2>1, CountsAtRest
  <2>6. WindowReachesBack' /\ CutIsOwn' /\ FileStays' /\ ClipGone'
    BY <2>1 DEF WindowReachesBack, CutIsOwn, FileStays, ClipGone
  <2>7. QED  BY <2>4, <2>5, <2>6 DEF IInv
<1>3. CASE TakeFile
  <2>1. /\ pc = "idle" /\ pc' = "frames" /\ caller' = "file"
        /\ clip' = Seconds /\ onDisk' = TRUE /\ result' = "none"
        /\ UNCHANGED <<gap, roll, win, rec, parseFailures, transportRetried, got,
                       recorded>>
    BY <1>3 DEF TakeFile
  <2>2. TypeOK'  BY <2>1 DEF IInv, TypeOK, Callers, Results
  <2>3. BudgetsKept' /\ BudgetsApart'  BY <2>1, CountsAtRest
  <2>4. WindowReachesBack' /\ CutIsOwn' /\ FileStays' /\ ClipGone'
    BY <2>1 DEF WindowReachesBack, CutIsOwn, FileStays, ClipGone
  <2>5. QED  BY <2>2, <2>3, <2>4 DEF IInv
<1>4. QED  BY <1>1, <1>2, <1>3

\* The values of a job without a clip.
LEMMA BlankTyped ==
    /\ NoEpisode \in NoEpisode..MaxGap /\ 0 \in PostRolls \cup {0}
    /\ NoWindow \in [from : 0..Now, len : 0..Now]
    /\ NoRecording \in [secs : SUBSET Seconds, starts : SUBSET Seconds]
BY ConstantsTyped DEF NoEpisode, NoWindow, NoRecording

\* The clip is cut, or the job ends.
LEMMA CutInv == ASSUME IInv, CutClip \/ CutFails PROVE IInv'
<1>1. CASE CutClip
  <2>1. /\ pc = "cut" /\ pc' = "frames" /\ clip' = Cut(rec, win) /\ onDisk' = TRUE
        /\ UNCHANGED <<caller, gap, roll, win, rec, parseFailures,
                       transportRetried, got, recorded, result>>
    BY <1>1 DEF CutClip
  <2>2. clip' \subseteq Seconds  BY <2>1, CutTyped DEF IInv, TypeOK
  <2>3. TypeOK'  BY <2>1, <2>2 DEF IInv, TypeOK
  <2>4. BudgetsKept' /\ BudgetsApart'  BY <2>1, CountsAtRest
  <2>5. WindowReachesBack' /\ CutIsOwn' /\ FileStays' /\ ClipGone'
    BY <2>1 DEF WindowReachesBack, CutIsOwn, FileStays, ClipGone
  <2>6. QED  BY <2>3, <2>4, <2>5 DEF IInv
<1>2. CASE CutFails
  <2>1. /\ pc = "cut" /\ pc' = "idle" /\ onDisk' \in BOOLEAN
        /\ result' = "cut failed"
        /\ gap' = NoEpisode /\ roll' = 0 /\ win' = NoWindow /\ rec' = NoRecording
        /\ UNCHANGED <<caller, clip, parseFailures, transportRetried, got, recorded>>
    BY <1>2 DEF CutFails
  <2>2. TypeOK'  BY <2>1, BlankTyped DEF IInv, TypeOK, Results
  <2>3. BudgetsKept' /\ BudgetsApart'  BY <2>1, CountsAtRest
  <2>4. WindowReachesBack' /\ CutIsOwn' /\ FileStays' /\ ClipGone'
    BY <2>1 DEF WindowReachesBack, CutIsOwn, FileStays, ClipGone, IInv
  <2>5. QED  BY <2>2, <2>3, <2>4 DEF IInv
<1>3. QED  BY <1>1, <1>2

\* The frames are taken from the clip, or the job ends.
LEMMA FramesInv ==
    ASSUME IInv, ContextFails \/ ExtractFrames \/ FramesFail
    PROVE  IInv'
<1>0. /\ RetryOnParse \in Nat /\ CountCap = RetryOnParse + 2
      /\ got = NoReplies /\ parseFailures = 0 /\ ~transportRetried /\ recorded = 0
      /\ pc = "frames"
  BY ConstantsTyped
     DEF CountCap, IInv, BudgetsKept, ContextFails, ExtractFrames, FramesFail
<1>1. /\ gap' = NoEpisode /\ roll' = 0 /\ win' = NoWindow /\ rec' = NoRecording
      /\ clip' = {}
  BY DEF ContextFails, ExtractFrames, FramesFail, ForgetCut
<1>2. CASE ExtractFrames
  <2>1. /\ pc' = "ask"
        /\ UNCHANGED <<caller, onDisk, parseFailures, transportRetried, got, recorded,
                       result>>
    BY <1>2 DEF ExtractFrames
  <2>2. TypeOK'  BY <1>1, <2>1, BlankTyped DEF IInv, TypeOK
  <2>3. BudgetsKept'  BY <1>0, <2>1 DEF BudgetsKept, NoReplies
  <2>4. BudgetsApart'  BY <1>0, <2>1, NoRepliesTyped DEF BudgetsApart
  <2>5. WindowReachesBack' /\ CutIsOwn' /\ ClipGone'
    BY <2>1 DEF WindowReachesBack, CutIsOwn, ClipGone
  <2>6. FileStays'  BY <1>0, <2>1 DEF IInv, FileStays
  <2>7. QED  BY <2>2, <2>3, <2>4, <2>5, <2>6 DEF IInv
<1>3. CASE FramesFail
  <2>1. /\ pc' = "end" /\ result' = "raised" /\ recorded' = 0
        /\ got' = [NoReplies EXCEPT !.other = 1]
        /\ UNCHANGED <<caller, onDisk, parseFailures, transportRetried>>
    BY <1>0, <1>3 DEF FramesFail, Conclude
  <2>2. got' \in [{"parse", "transport", "other", "ok"} -> 0..CountCap]
    BY <1>0, <2>1, NoRepliesTyped
  <2>3. TypeOK'
    <3>1. recorded' \in 0..1  BY <2>1
    <3>2. QED  BY <1>1, <2>1, <2>2, <3>1, BlankTyped DEF IInv, TypeOK, Results
  <2>4. BudgetsKept'  BY <2>1 DEF BudgetsKept
  <2>5. got'.parse = 0 /\ got'.transport = 0 /\ got'.other = 1 /\ got'.ok = 0
    BY <2>1 DEF NoReplies
  <2>6. BudgetsApart'  BY <1>0, <2>1, <2>5 DEF BudgetsApart
  <2>7. WindowReachesBack' /\ CutIsOwn' /\ ClipGone'
    BY <2>1 DEF WindowReachesBack, CutIsOwn, ClipGone
  <2>8. FileStays'  BY <1>0, <2>1 DEF IInv, FileStays
  <2>9. QED  BY <2>3, <2>4, <2>6, <2>7, <2>8 DEF IInv
<1>4. CASE ContextFails
  <2>1. /\ pc' = "idle" /\ result' = "aborted"
        /\ UNCHANGED <<caller, onDisk, parseFailures, transportRetried, got, recorded>>
    BY <1>4 DEF ContextFails
  <2>2. TypeOK'  BY <1>1, <2>1, BlankTyped DEF IInv, TypeOK, Results
  <2>3. BudgetsKept' /\ BudgetsApart'  BY <1>0, <2>1, CountsAtRest
  <2>4. WindowReachesBack' /\ CutIsOwn' /\ FileStays'
    BY <2>1 DEF WindowReachesBack, CutIsOwn, FileStays
  <2>5. ClipGone'  BY <1>0, <2>1 DEF ClipGone, IInv, FileStays
  <2>6. QED  BY <2>2, <2>3, <2>4, <2>5 DEF IInv
<1>5. QED  BY <1>2, <1>3, <1>4

-----------------------------------------------------------------------------
(* The VLM's replies and the end.                                          *)

\* What the replies so far were, while the next one is awaited.
LEMMA WhileAsking ==
    ASSUME IInv, pc = "ask"
    PROVE  /\ RetryOnParse \in Nat /\ CountCap = RetryOnParse + 2
           /\ parseFailures \in 0..RetryOnParse
           /\ got.parse = parseFailures
           /\ got.transport = (IF transportRetried THEN 1 ELSE 0)
           /\ got.other = 0 /\ got.ok = 0 /\ recorded = 0
           /\ got \in [{"parse", "transport", "other", "ok"} -> 0..CountCap]
           /\ transportRetried \in BOOLEAN
<1>1. RetryOnParse \in Nat /\ parseFailures \in 0..(RetryOnParse + 1)
      /\ parseFailures <= RetryOnParse
  BY ConstantsTyped DEF IInv, TypeOK, BudgetsKept
<1>2. QED  BY <1>1 DEF IInv, TypeOK, BudgetsKept, CountCap

\* A reply counts once, and does not touch the cut or the file.
LEMMA ReplyCounted ==
    ASSUME IInv, NEW kind \in {"parse", "transport", "other", "ok"}, Asking(kind)
    PROVE  /\ got' \in [{"parse", "transport", "other", "ok"} -> 0..CountCap]
           /\ got'[kind] = got[kind] + 1
           /\ \A k \in {"parse", "transport", "other", "ok"} :
                 k # kind => got'[k] = got[k]
           /\ pc = "ask"
           /\ UNCHANGED <<caller, gap, roll, win, rec, clip, onDisk>>
<1>1. /\ pc = "ask" /\ got' = [got EXCEPT ![kind] = AtMost(@ + 1, CountCap)]
      /\ UNCHANGED <<caller, gap, roll, win, rec, clip, onDisk>>
  BY DEF Asking
<1>2. /\ RetryOnParse \in Nat /\ CountCap = RetryOnParse + 2
      /\ got \in [{"parse", "transport", "other", "ok"} -> 0..CountCap]
      /\ got[kind] \in Nat /\ got[kind] + 1 <= CountCap
  BY <1>1, WhileAsking
<1>3. AtMost(got[kind] + 1, CountCap) = got[kind] + 1  BY <1>2 DEF AtMost
<1>4. got[kind] + 1 \in 0..CountCap  BY <1>2
<1>5. QED  BY <1>1, <1>2, <1>3, <1>4

\* The variables a reply may change keep their types.
LEMMA ReplyTyped ==
    ASSUME IInv, NEW kind \in {"parse", "transport", "other", "ok"}, Asking(kind),
           pc' \in {"ask", "end"}, parseFailures' \in 0..(RetryOnParse + 1),
           transportRetried' \in BOOLEAN, recorded' \in {0, 1}, result' \in Results
    PROVE  TypeOK'
<1>1. /\ got' \in [{"parse", "transport", "other", "ok"} -> 0..CountCap]
      /\ UNCHANGED <<caller, gap, roll, win, rec, clip, onDisk>>
  BY ReplyCounted
<1>2. recorded' \in 0..1  OBVIOUS
<1>3. QED  BY <1>1, <1>2 DEF IInv, TypeOK

\* The parts that a reply cannot disturb.
LEMMA ReplyElsewhere ==
    ASSUME IInv, pc' \in {"ask", "end"},
           NEW kind \in {"parse", "transport", "other", "ok"}, Asking(kind)
    PROVE  WindowReachesBack' /\ CutIsOwn' /\ FileStays' /\ ClipGone'
<1>1. WindowReachesBack' /\ CutIsOwn' /\ ClipGone'
  BY DEF WindowReachesBack, CutIsOwn, ClipGone
<1>2. FileStays'  BY DEF Asking, IInv, FileStays
<1>3. QED  BY <1>1, <1>2

\* A reply of the VLM is charged to its budget, or ends the job.
LEMMA ReplyInv == ASSUME IInv, Reply PROVE IInv'
<1>1. CASE Answer
  <2>1. /\ Asking("ok") /\ pc' = "end" /\ result' = "verdict" /\ recorded' = 1
        /\ UNCHANGED <<parseFailures, transportRetried>>
    BY <1>1 DEF Answer, Conclude
  <2>2. pc = "ask"  BY <2>1 DEF Asking
  <2>3. TypeOK'
    <3>1. parseFailures' \in 0..(RetryOnParse + 1) /\ transportRetried' \in BOOLEAN
      BY <2>1 DEF IInv, TypeOK
    <3>2. pc' \in {"ask", "end"} /\ recorded' \in {0, 1} /\ result' \in Results
      BY <2>1, <2>2, WhileAsking DEF IInv, TypeOK, Results
    <3>3. QED  BY <2>1, <3>1, <3>2, ReplyTyped
  <2>4. /\ got'.ok = 1 /\ got'.parse = parseFailures /\ got'.other = 0
        /\ got'.transport = (IF transportRetried THEN 1 ELSE 0)
    BY <2>1, <2>2, ReplyCounted, WhileAsking
  <2>5. BudgetsApart'
    BY <2>1, <2>2, <2>4, WhileAsking DEF BudgetsApart
  <2>6. BudgetsKept'  BY <2>1 DEF BudgetsKept
  <2>7. QED  BY <2>1, <2>3, <2>5, <2>6, ReplyElsewhere DEF IInv
<1>2. CASE ParseError
  <2>1. /\ Asking("parse") /\ parseFailures' = parseFailures + 1
        /\ UNCHANGED transportRetried
        /\ \/ /\ parseFailures' > RetryOnParse
              /\ pc' = "end" /\ result' = "neutral" /\ recorded' = 1
           \/ /\ ~(parseFailures' > RetryOnParse)
              /\ UNCHANGED <<result, recorded, pc>>
    BY <1>2 DEF ParseError, Conclude
  <2>2. pc = "ask"  BY <2>1 DEF Asking
  <2>3. parseFailures' \in 0..(RetryOnParse + 1)  BY <2>1, <2>2, WhileAsking
  <2>4. TypeOK'
    <3>1. pc' \in {"ask", "end"} /\ recorded' \in {0, 1} /\ result' \in Results
      BY <2>1, <2>2, WhileAsking DEF IInv, TypeOK, Results
    <3>2. transportRetried' \in BOOLEAN  BY <2>1 DEF IInv, TypeOK
    <3>3. QED  BY <2>1, <2>3, <3>1, <3>2, ReplyTyped
  <2>5. /\ got'.ok = 0 /\ got'.parse = parseFailures + 1 /\ got'.other = 0
        /\ got'.transport = (IF transportRetried THEN 1 ELSE 0)
    BY <2>1, <2>2, ReplyCounted, WhileAsking
  <2>6. CASE parseFailures' > RetryOnParse
    <3>1. parseFailures + 1 = RetryOnParse + 1  BY <2>1, <2>3, <2>6, <2>2, WhileAsking
    <3>2. BudgetsApart'
      BY <2>1, <2>2, <2>5, <2>6, <3>1, WhileAsking DEF BudgetsApart
    <3>3. BudgetsKept'  BY <2>1, <2>6 DEF BudgetsKept
    <3>4. QED  BY <2>1, <2>4, <2>6, <3>2, <3>3, ReplyElsewhere DEF IInv
  <2>7. CASE ~(parseFailures' > RetryOnParse)
    <3>1. pc' = "ask" /\ recorded' = 0 /\ parseFailures' <= RetryOnParse
      BY <2>1, <2>2, <2>3, <2>7, WhileAsking
    <3>2. BudgetsKept'
      <4>1. got' \in [{"parse", "transport", "other", "ok"} -> 0..CountCap]
        BY <2>1, ReplyCounted
      <4>2. got' = [parse |-> parseFailures',
                    transport |-> IF transportRetried' THEN 1 ELSE 0,
                    other |-> 0, ok |-> 0]
        BY <2>1, <2>5, <4>1
      <4>3. QED  BY <3>1, <4>2 DEF BudgetsKept
    <3>3. BudgetsApart'
      BY <2>1, <2>2, <2>5, <3>1, WhileAsking DEF BudgetsApart
    <3>4. QED  BY <2>1, <2>4, <3>1, <3>2, <3>3, ReplyElsewhere DEF IInv
  <2>8. QED  BY <2>6, <2>7
<1>3. CASE TransportError
  <2>1. /\ Asking("transport") /\ transportRetried' = TRUE
        /\ UNCHANGED parseFailures
        /\ \/ /\ transportRetried
              /\ pc' = "end" /\ result' = "raised" /\ recorded' = 0
           \/ ~transportRetried /\ UNCHANGED <<result, recorded, pc>>
    BY <1>3 DEF TransportError, Conclude
  <2>2. pc = "ask"  BY <2>1 DEF Asking
  <2>3. TypeOK'
    <3>1. parseFailures' \in 0..(RetryOnParse + 1) /\ transportRetried' \in BOOLEAN
      BY <2>1 DEF IInv, TypeOK
    <3>2. pc' \in {"ask", "end"} /\ recorded' \in {0, 1} /\ result' \in Results
      BY <2>1, <2>2, WhileAsking DEF IInv, TypeOK, Results
    <3>3. QED  BY <2>1, <3>1, <3>2, ReplyTyped
  <2>4. /\ got'.ok = 0 /\ got'.parse = parseFailures /\ got'.other = 0
        /\ got'.transport = (IF transportRetried THEN 2 ELSE 1)
    BY <2>1, <2>2, ReplyCounted, WhileAsking
  <2>5. CASE transportRetried
    <3>1. BudgetsApart'
      BY <2>1, <2>2, <2>4, <2>5, WhileAsking DEF BudgetsApart
    <3>2. BudgetsKept'  BY <2>1, <2>5 DEF BudgetsKept
    <3>3. QED  BY <2>1, <2>3, <2>5, <3>1, <3>2, ReplyElsewhere DEF IInv
  <2>6. CASE ~transportRetried
    <3>1. pc' = "ask" /\ recorded' = 0
      BY <2>1, <2>2, <2>6, WhileAsking
    <3>2. BudgetsKept'
      <4>1. got' \in [{"parse", "transport", "other", "ok"} -> 0..CountCap]
        BY <2>1, ReplyCounted
      <4>2. got' = [parse |-> parseFailures',
                    transport |-> IF transportRetried' THEN 1 ELSE 0,
                    other |-> 0, ok |-> 0]
        BY <2>1, <2>4, <2>6, <4>1
      <4>3. parseFailures' <= RetryOnParse  BY <2>1, <2>2, WhileAsking
      <4>4. QED  BY <3>1, <4>2, <4>3 DEF BudgetsKept
    <3>3. BudgetsApart'
      BY <2>2, <2>4, <2>6, <3>1, WhileAsking DEF BudgetsApart
    <3>4. QED  BY <2>1, <2>3, <3>1, <3>2, <3>3, ReplyElsewhere DEF IInv
  <2>7. QED  BY <2>5, <2>6
<1>4. CASE OtherError
  <2>1. /\ Asking("other") /\ pc' = "end" /\ result' = "raised" /\ recorded' = 0
        /\ UNCHANGED <<parseFailures, transportRetried>>
    BY <1>4 DEF OtherError, Conclude
  <2>2. pc = "ask"  BY <2>1 DEF Asking
  <2>3. TypeOK'
    <3>1. parseFailures' \in 0..(RetryOnParse + 1) /\ transportRetried' \in BOOLEAN
      BY <2>1 DEF IInv, TypeOK
    <3>2. pc' \in {"ask", "end"} /\ recorded' \in {0, 1} /\ result' \in Results
      BY <2>1, <2>2, WhileAsking DEF IInv, TypeOK, Results
    <3>3. QED  BY <2>1, <3>1, <3>2, ReplyTyped
  <2>4. /\ got'.ok = 0 /\ got'.parse = parseFailures /\ got'.other = 1
        /\ got'.transport = (IF transportRetried THEN 1 ELSE 0)
    BY <2>1, <2>2, ReplyCounted, WhileAsking
  <2>5. BudgetsApart'
    BY <2>1, <2>2, <2>4, WhileAsking DEF BudgetsApart
  <2>6. BudgetsKept'  BY <2>1 DEF BudgetsKept
  <2>7. QED  BY <2>1, <2>3, <2>5, <2>6, ReplyElsewhere DEF IInv
<1>5. QED  BY <1>1, <1>2, <1>3, <1>4 DEF Reply

\* The job ends, and its clip is removed unless the caller keeps it or an error gets
\* in the way.
LEMMA FinishInv == ASSUME IInv, Finish \/ AfterwardsFails PROVE IInv'
<1>1. /\ pc = "end" /\ pc' = "idle"
      /\ parseFailures' = 0 /\ transportRetried' = FALSE
      /\ got' = NoReplies /\ recorded' = 0
      /\ UNCHANGED <<caller, gap, roll, win, rec, clip>>
      /\ \/ onDisk' = KeepsClip /\ result' = result
         \/ onDisk' = onDisk /\ result' = "aborted"
  BY DEF Finish, AfterwardsFails, JobOver
<1>2. TypeOK'
  <2>1. KeepsClip \in BOOLEAN  BY DEF KeepsClip
  <2>2. 0 \in 0..(RetryOnParse + 1) /\ 0 \in 0..1  BY ConstantsTyped
  <2>3. "aborted" \in Results  BY DEF Results
  <2>4. QED  BY <1>1, <2>1, <2>2, <2>3, NoRepliesTyped DEF IInv, TypeOK
<1>3. BudgetsKept'  BY <1>1 DEF BudgetsKept
<1>4. BudgetsApart'  BY <1>1, NoRepliesTyped, ConstantsTyped DEF BudgetsApart
<1>5. WindowReachesBack' /\ CutIsOwn'
  BY <1>1 DEF WindowReachesBack, CutIsOwn
<1>6. ClipGone'
  BY <1>1 DEF ClipGone, KeepsClip, IInv, FileStays
<1>7. FileStays'  BY <1>1 DEF FileStays
<1>8. QED  BY <1>2, <1>3, <1>4, <1>5, <1>6, <1>7 DEF IInv

\* Each step of a job preserves the invariant.
LEMMA StepInv == IInv /\ [Next]_vars => IInv'
<1> SUFFICES ASSUME IInv, [Next]_vars PROVE IInv'  OBVIOUS
<1>1. CASE UNCHANGED vars
  <2>1. UNCHANGED <<pc, caller, gap, roll, win, rec, clip, onDisk, parseFailures,
                    transportRetried, got, recorded, result>>
    BY <1>1 DEF vars
  <2>2. QED
    BY <2>1 DEF IInv, TypeOK, BudgetsKept, CutIsOwn, FileStays, WindowReachesBack,
                BudgetsApart, ClipGone
<1>2. QED
  BY <1>1, TakeInv, CutInv, FramesInv, ReplyInv, FinishInv DEF Next

\* The inductive invariant holds throughout.
THEOREM VerdictInvariant == Spec => []IInv
<1>1. Init => IInv  BY InitInv
<1>2. IInv /\ [Next]_vars => IInv'  BY StepInv
<1>3. QED  BY <1>1, <1>2, PTL DEF Spec

-----------------------------------------------------------------------------
(* What the clip shows.                                                    *)

\* The recordings at hand are such as a recorder leaves.
RecordingsHeld == pc = "cut" => rec \in Recordings

Shown == RecordingsHeld /\ ClipShowsWindow

\* What the clip shows is settled when it is cut.
LEMMA ShownStep == ASSUME IInv, Shown, [Next]_vars PROVE Shown'
<1>1. ASSUME NEW g \in NoEpisode..MaxGap, NEW waited \in PostRolls,
             NEW r \in Recordings, TakeBreach(g, waited, r)
      PROVE  Shown'
  BY <1>1 DEF TakeBreach, Shown, RecordingsHeld, ClipShowsWindow
<1>2. ASSUME NEW w \in Requests, NEW r \in Recordings, TakeRequest(w, r)
      PROVE  Shown'
  BY <1>2 DEF TakeRequest, Shown, RecordingsHeld, ClipShowsWindow
<1>3. CASE TakeFile
  BY <1>3 DEF TakeFile, Shown, RecordingsHeld, ClipShowsWindow
<1>4. CASE CutClip
  <2>1. /\ pc' = "frames" /\ Overlapping(rec, win) # {} /\ clip' = Cut(rec, win)
        /\ rec' = rec /\ win' = win /\ rec \in Recordings
        /\ win \in [from : 0..Now, len : 0..Now]
    BY <1>4 DEF CutClip, Shown, RecordingsHeld, IInv, TypeOK
  <2>2. /\ \A x \in Cut(rec, win) : x >= win.from
        /\ \/ {x \in rec.secs : win.from <= x /\ x < win.from + win.len}
                 \subseteq Cut(rec, win)
           \/ win.from \notin rec.secs /\ \E x \in rec.secs : x < win.from
    BY <2>1, CutShowsWindow
  <2>3. ClipShowsWindow'  BY <2>1, <2>2 DEF ClipShowsWindow
  <2>4. QED  BY <2>1, <2>3 DEF Shown, RecordingsHeld
<1>5. CASE CutFails \/ ContextFails \/ ExtractFrames \/ FramesFail \/ Finish
             \/ AfterwardsFails
  <2>1. pc' \in {"idle", "ask", "end"}
    BY <1>5 DEF CutFails, ContextFails, ExtractFrames, FramesFail, Conclude, Finish,
                AfterwardsFails, JobOver
  <2>2. QED  BY <2>1 DEF Shown, RecordingsHeld, ClipShowsWindow
<1>6. CASE Reply
  <2>1. pc = "ask" /\ pc' \in {"ask", "end"}
    BY <1>6 DEF Reply, Answer, ParseError, TransportError, OtherError, Asking, Conclude
  <2>2. QED  BY <2>1 DEF Shown, RecordingsHeld, ClipShowsWindow
<1>7. CASE UNCHANGED vars
  BY <1>7 DEF vars, Shown, RecordingsHeld, ClipShowsWindow
<1>8. QED  BY <1>1, <1>2, <1>3, <1>4, <1>5, <1>6, <1>7 DEF Next

-----------------------------------------------------------------------------
(* What follows from it.                                                   *)

\* Every variable keeps its type; in particular no window begins before the
\* recordings do or is longer than allowed (breach_pusher.py _clip_window).
THEOREM VerdictTypeCorrect == Spec => []TypeOK
<1>1. IInv => TypeOK  BY DEF IInv
<1>2. QED  BY <1>1, VerdictInvariant, PTL

\* Whatever the pads, the post-roll and the limits, a breach's window reaches back
\* before the breach exactly when the longest window outlasts the post-roll and,
\* unless it is cut down, to its episode's start (breach_pusher.py _clip_window).
THEOREM WindowsReachBack == Spec => []WindowReachesBack
<1>1. IInv => WindowReachesBack  BY DEF IInv
<1>2. QED  BY <1>1, VerdictInvariant, PTL

\* Whatever the order in which the failures come, the budgets are kept apart and end
\* the questions (verifier.py verify_clip).
THEOREM BudgetsAreApart == Spec => []BudgetsApart
<1>1. IInv => BudgetsApart  BY DEF IInv
<1>2. QED  BY <1>1, VerdictInvariant, PTL

\* A clip outlives its job only when an error passes its unlink by, and in the
\* executor no error of the VLM does (breach_pusher.py _cut_verify_push, verify.py
\* cut_verify).
THEOREM ClipsAreGone == Spec => []ClipGone
<1>1. IInv => ClipGone  BY DEF IInv
<1>2. QED  BY <1>1, VerdictInvariant, PTL

\* For any recordings, with gaps wherever the recorder stopped, a clip shows nothing
\* from before its window and everything recorded in it, unless the window begins in
\* a gap (clip_cutter.py).
THEOREM ClipsShowTheirWindow == Spec => []ClipShowsWindow
<1>1. Init => Shown  BY DEF Init, Shown, RecordingsHeld, ClipShowsWindow
<1>2. IInv /\ Shown /\ [Next]_vars => Shown'  BY ShownStep
<1>3. Shown => ClipShowsWindow  BY DEF Shown
<1>4. QED  BY <1>1, <1>2, <1>3, VerdictInvariant, PTL DEF Spec
=============================================================================
