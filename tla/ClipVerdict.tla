---------------------------- MODULE ClipVerdict ----------------------------
(***************************************************************************)
(* From a breach to a verdict: which seconds to cut (_clip_window in       *)
(* live_worker/breach_pusher.py), what the cut holds (clip_cutter.py), the *)
(* questions to the VLM with their two retry budgets                       *)
(* (pipeline/verifier.py, frames.py) and the clip file's end, for the      *)
(* breach executor, for /v1/cut-verify and for /v1/verify, which is given  *)
(* a file of the backend's (api/v1/verify.py).                             *)
(*                                                                         *)
(* Footage is a set of seconds; the second x runs from x to x + 1, and the *)
(* cut is made at time Now.  The recorder starts a file at each member of  *)
(* starts and may stop in the middle of one, which leaves a gap.  How long *)
(* before the breach its episode began, and how long the post-roll lasts,  *)
(* is given in half seconds.                                               *)
(***************************************************************************)
EXTENDS Integers, FiniteSets, FiniteSetsExt

CONSTANTS Now,           \* seconds of recording before the cut
          PrePad,        \* live_clip_pre_pad_sec
          PostRolls,     \* values of live_breach_post_roll_sec, in half seconds
          Slack,         \* added to every window: 2 s
          Default,       \* pre-roll when the episode's start is unknown: 5 s
          MinSec, MaxSec, \* the window's limits: 5 s and live_clip_max_sec
          SegmentMax,    \* assumed length of the last file: 120 s
          MaxGap,        \* bound on how long before the breach, in half seconds
          RetryOnParse   \* retry_on_parse_error

ASSUME ClipAssumption ==
    /\ {Now, Slack, Default, MinSec, MaxGap, RetryOnParse} \subseteq Nat
    /\ PostRolls \subseteq Nat /\ PrePad \in Int /\ MaxSec \in Int
    /\ 0 < Slack /\ MinSec <= Now /\ MaxSec <= Now
    /\ SegmentMax \in Nat /\ SegmentMax >= Now

Seconds   == 0..(Now - 1)
NoEpisode == -1          \* unknown, or later than the breach
Callers   == {"breach", "endpoint", "file"}
Results   == {"none", "verdict", "neutral", "raised", "cut failed",
               "aborted"}

\* What the recorder left: the seconds recorded and those that begin a file.
Recordings ==
    {r \in [secs : SUBSET Seconds, starts : SUBSET Seconds] :
        /\ r.starts \subseteq r.secs
        /\ \A x \in r.secs : x \in r.starts \/ (x - 1) \in r.secs}

NoRecording == [secs |-> {}, starts |-> {}]

\* Bound: no job gets more replies of one kind than this.
CountCap == RetryOnParse + 2

VARIABLES
    pc,            \* idle, cut, frames, ask, end
    caller,
    gap,           \* (breach_ts_ms - episode_started_ms), until the cut
    roll,          \* the post-roll waited out before the cut
    win,           \* the window to cut: its first second and its length
    rec,           \* the recordings
    clip,          \* the seconds the clip shows
    onDisk,        \* this job's clip, or a part of it, is in the temp directory
    parseFailures, transportRetried,
    got,           \* history: replies of the VLM to this clip, by kind
    recorded,      \* record_vlm_verdict was called for this clip
    result

vars == <<pc, caller, gap, roll, win, rec, clip, onDisk, parseFailures,
          transportRetried, got, recorded, result>>

NoWindow  == [from |-> 0, len |-> 0]
NoReplies == [parse |-> 0, transport |-> 0, other |-> 0, ok |-> 0]

TypeOK ==
    /\ pc \in {"idle", "cut", "frames", "ask", "end"}
    /\ caller \in Callers
    /\ gap \in NoEpisode..MaxGap
    /\ roll \in PostRolls \cup {0}
    /\ win \in [from : 0..Now, len : 0..Now]
    /\ rec \in [secs : SUBSET Seconds, starts : SUBSET Seconds]
    /\ clip \subseteq Seconds
    /\ onDisk \in BOOLEAN
    /\ parseFailures \in 0..(RetryOnParse + 1)
    /\ transportRetried \in BOOLEAN
    /\ got \in [{"parse", "transport", "other", "ok"} -> 0..CountCap]
    /\ recorded \in 0..1
    /\ result \in Results

Init ==
    /\ pc = "idle" /\ caller = "breach"
    /\ gap = NoEpisode /\ roll = 0 /\ win = NoWindow /\ rec = NoRecording
    /\ clip = {}
    /\ onDisk = FALSE
    /\ parseFailures = 0 /\ transportRetried = FALSE
    /\ got = NoReplies /\ recorded = 0 /\ result = "none"

-----------------------------------------------------------------------------
(* The window and the cut.                                                 *)

\* math.ceil of half seconds
Ceil(half) == (half + 1) \div 2

AtLeast(x, y) == IF x > y THEN x ELSE y
AtMost(x, y)  == IF x < y THEN x ELSE y

\* Mutant of Duration: the post-roll that was waited out is not counted.
DurationNoRoll(g, waited) ==
    LET pre == IF g = NoEpisode THEN 2 * Default ELSE g + 2 * PrePad
    IN  AtLeast(MinSec, AtMost(MaxSec, Ceil(pre)))

\* How many seconds up to now the clip is to cover.
Duration(g, waited) ==
    LET pre == IF g = NoEpisode THEN 2 * Default ELSE g + 2 * PrePad
    IN  AtLeast(MinSec, AtMost(MaxSec, Ceil(pre + waited + 2 * Slack)))

\* The window of a breach: as long as that, and up to now.
ClipWindow(g, waited) ==
    [from |-> Now - Duration(g, waited), len |-> Duration(g, waited)]

\* A file ends where the next one begins; the last one is assumed to go on.
SegmentEnd(r, s) ==
    LET later == {t \in r.starts : t > s}
    IN  IF later = {} THEN s + SegmentMax ELSE Min(later)

\* Mutant of Overlapping: only files that begin in the window.
StartingWithin(r, w) == {s \in r.starts : w.from <= s /\ s < w.from + w.len}

\* The files that overlap the window.
Overlapping(r, w) ==
    {s \in r.starts : s < w.from + w.len /\ SegmentEnd(r, s) > w.from}

Footage(r, s) == {x \in r.secs : s <= x /\ x < SegmentEnd(r, s)}

\* The files one after the other without the gaps between them, from the seek
\* position on (by the clock, counted from the first file's start), for the
\* length of the window.
Cut(r, w) ==
    LET files    == Overlapping(r, w)
        content  == UNION {Footage(r, s) : s \in files}
        seek     == AtLeast(0, w.from - Min(files))
        place(x) == Cardinality({y \in content : y < x})
    IN  {x \in content : place(x) \in seek..(seek + w.len - 1)}

-----------------------------------------------------------------------------
(* The steps.                                                              *)

\* The executor takes a breach that has slept its post-roll.
TakeBreach(g, waited, r) ==
    /\ pc = "idle"
    /\ pc' = "cut" /\ caller' = "breach"
    /\ gap' = g /\ roll' = waited /\ win' = ClipWindow(g, waited) /\ rec' = r
    /\ onDisk' = FALSE /\ result' = "none"
    /\ UNCHANGED <<clip, parseFailures, transportRetried, got, recorded>>

\* The backend asks for a window of its own; what an earlier job left on the disk
\* is not followed further.
TakeRequest(w, r) ==
    /\ pc = "idle"
    /\ pc' = "cut" /\ caller' = "endpoint"
    /\ win' = w /\ rec' = r
    /\ onDisk' = FALSE /\ result' = "none"
    /\ UNCHANGED <<gap, roll, clip, parseFailures, transportRetried, got, recorded>>

\* /v1/verify is given the path of a clip that exists; its content does not matter.
TakeFile ==
    /\ pc = "idle"
    /\ pc' = "frames" /\ caller' = "file"
    /\ clip' = Seconds
    /\ onDisk' = TRUE /\ result' = "none"
    /\ UNCHANGED <<gap, roll, win, rec, parseFailures, transportRetried, got,
                   recorded>>

\* ffmpeg ends well, with or without a frame ...
CutClip ==
    /\ pc = "cut"
    /\ Overlapping(rec, win) # {}
    /\ clip' = Cut(rec, win)
    /\ onDisk' = TRUE
    /\ pc' = "frames"
    /\ UNCHANGED <<caller, gap, roll, win, rec, parseFailures, transportRetried,
                   got, recorded, result>>

\* ... or the cut fails: before ffmpeg runs, in the middle of the output file, or
\* in the handling of the files after it.
CutFails ==
    /\ pc = "cut"
    /\ onDisk' \in {FALSE, Overlapping(rec, win) # {}}
    /\ result' = "cut failed"
    /\ pc' = "idle"
    /\ gap' = NoEpisode /\ roll' = 0 /\ win' = NoWindow /\ rec' = NoRecording
    /\ UNCHANGED <<caller, clip, parseFailures, transportRetried, got, recorded>>

\* The attempt is over for verify_clip with this result.
Conclude(res) ==
    /\ result' = res
    /\ recorded' = IF res = "raised" THEN 0 ELSE 1
    /\ pc' = "end"

\* What is known of the cut is not needed any more.
ForgetCut ==
    /\ gap' = NoEpisode /\ roll' = 0 /\ win' = NoWindow /\ rec' = NoRecording
    /\ clip' = {}

\* The two endpoints retrieve past cases before they verify, and let an error in
\* that pass; the executor goes on without them.
ContextFails ==
    /\ pc = "frames"
    /\ caller # "breach"
    /\ ForgetCut
    /\ result' = "aborted"
    /\ pc' = "idle"
    /\ UNCHANGED <<caller, onDisk, parseFailures, transportRetried, got, recorded>>

\* The keyframes are in memory, which takes a clip that has a duration ...
ExtractFrames ==
    /\ pc = "frames"
    /\ clip # {}
    /\ pc' = "ask"
    /\ ForgetCut
    /\ UNCHANGED <<caller, onDisk, parseFailures, transportRetried, got, recorded,
                   result>>

\* ... and an ffmpeg that ends well; otherwise verify_clip raises unasked.
FramesFail ==
    /\ pc = "frames"
    /\ ForgetCut
    /\ got' = [got EXCEPT !.other = 1]
    /\ Conclude("raised")
    /\ UNCHANGED <<caller, onDisk, parseFailures, transportRetried>>

Asking(kind) ==
    /\ pc = "ask"
    /\ got' = [got EXCEPT ![kind] = AtMost(@ + 1, CountCap)]
    /\ UNCHANGED <<caller, gap, roll, win, rec, clip, onDisk>>

\* The VLM answers.
Answer ==
    /\ Asking("ok")
    /\ Conclude("verdict")
    /\ UNCHANGED <<parseFailures, transportRetried>>

\* Its answer does not parse; after the retries the verdict is neutral.
ParseError ==
    /\ Asking("parse")
    /\ parseFailures' = parseFailures + 1
    /\ IF parseFailures' > RetryOnParse THEN Conclude("neutral")
       ELSE UNCHANGED <<result, recorded, pc>>
    /\ UNCHANGED transportRetried

\* Mutant of TransportError: the retry is taken from the parse budget, too.
TransportErrorCounted ==
    /\ Asking("transport")
    /\ parseFailures' = IF transportRetried THEN parseFailures ELSE parseFailures + 1
    /\ transportRetried' = TRUE
    /\ IF transportRetried THEN Conclude("raised")
       ELSE IF parseFailures' > RetryOnParse THEN Conclude("neutral")
       ELSE UNCHANGED <<result, recorded, pc>>

\* No connection, or a timeout: once, try again; twice, give up.
TransportError ==
    /\ Asking("transport")
    /\ transportRetried' = TRUE
    /\ IF transportRetried THEN Conclude("raised")
       ELSE UNCHANGED <<result, recorded, pc>>
    /\ UNCHANGED parseFailures

\* Anything else, a reply of another shape for one.
OtherError ==
    /\ Asking("other")
    /\ Conclude("raised")
    /\ UNCHANGED <<parseFailures, transportRetried>>

\* Mutant of KeepsClip: the executor treats an error as the endpoint does.
KeepsClipOnError == caller = "file" \/ result = "raised"

\* The endpoint lets an error pass and never gets to the unlink; a file of the
\* backend's is not this node's to delete.
KeepsClip ==
    \/ caller = "file"
    \/ caller = "endpoint" /\ result = "raised"

\* The attempt is forgotten.
JobOver ==
    /\ pc = "end" /\ pc' = "idle"
    /\ parseFailures' = 0 /\ transportRetried' = FALSE
    /\ got' = NoReplies /\ recorded' = 0
    /\ UNCHANGED <<caller, gap, roll, win, rec, clip>>

\* The caller has the verdict or the error, and is done with the clip.
Finish ==
    /\ JobOver
    /\ onDisk' = KeepsClip
    /\ UNCHANGED result

\* What comes between the verdict and the end of the file raises: the embedding of
\* the reasoning (which the executor does without), the reading of the clip, or
\* its unlink.
AfterwardsFails ==
    /\ JobOver
    /\ caller # "breach" => result # "raised"
    /\ result' = "aborted"
    /\ UNCHANGED onDisk

Reply == Answer \/ ParseError \/ TransportError \/ OtherError

\* The windows a request may name: any second recorded so far, and a length.
Requests == [from : Seconds, len : 1..Now]

Next ==
    \/ \E g \in NoEpisode..MaxGap, waited \in PostRolls, r \in Recordings :
          TakeBreach(g, waited, r)
    \/ \E w \in Requests, r \in Recordings : TakeRequest(w, r)
    \/ TakeFile
    \/ CutClip \/ CutFails
    \/ ContextFails \/ ExtractFrames \/ FramesFail
    \/ Reply
    \/ Finish \/ AfterwardsFails

Spec == Init /\ [][Next]_vars

-----------------------------------------------------------------------------
(* Properties.                                                             *)

\* The longest window: max(5, min(live_clip_max_sec, ...)) of anything.
Longest == AtLeast(MinSec, MaxSec)

\* A breach's window ends now.  Unless a pad of minus two seconds or less is set, it
\* begins before the breach if and only if the longest window outlasts the post-roll:
\* no setting is checked against another, and with a longer post-roll no clip shows
\* its breach.  A window that is not cut down to the longest reaches back to the
\* episode's start and the pad before it.
WindowReachesBack ==
    pc = "cut" /\ caller = "breach" =>
        /\ win.from + win.len = Now
        /\ PrePad + Slack > 0 =>
              (2 * win.from < 2 * Now - roll <=> roll < 2 * Longest)
        /\ gap # NoEpisode /\ win.len < Longest =>
              2 * win.from <= 2 * Now - roll - gap - 2 * PrePad

\* A clip shows nothing from before the window, and everything recorded in it, unless
\* the window begins in a gap of the recordings: the seek position is counted by the
\* clock, but the concatenated files have no gaps.
ClipShowsWindow ==
    pc = "frames" /\ caller # "file" =>
        /\ \A x \in clip : x >= win.from
        /\ \/ {x \in rec.secs : win.from <= x /\ x < win.from + win.len} \subseteq clip
           \/ win.from \notin rec.secs /\ \E x \in rec.secs : x < win.from

\* The budgets are apart and bound the questions: at most two more than the retries.
\* A verdict is neutral only after one parse failure more than the retries, an error
\* passes only at the second transport failure or another error, and each verdict, and
\* nothing else, is recorded once.
BudgetsApart ==
    /\ got.parse + got.transport + got.other + got.ok <= RetryOnParse + 2
    /\ pc = "end" =>
            /\ result = "neutral" <=> got.parse = RetryOnParse + 1
            /\ result = "raised" <=> got.transport = 2 \/ got.other = 1
            /\ result = "verdict" <=> got.ok = 1
            /\ recorded = got.ok + (IF result = "neutral" THEN 1 ELSE 0)

\* Once verify_clip has ended, with a verdict or in the executor with an error, its
\* clip goes with the job.  One outlives its job only when an error passes the unlink
\* by: the cut failed after it had begun to write; the endpoint's retrieval, verify or
\* embedding raised, none of which it guards; or the clip could not be read or
\* removed.  No end deletes a file of the backend's.
ClipGone ==
    /\ pc = "idle" /\ onDisk =>
          \/ result \in {"cut failed", "aborted"}
          \/ caller = "endpoint" /\ result = "raised"
          \/ caller = "file"
    /\ pc = "idle" /\ caller = "file" => onDisk
=============================================================================
