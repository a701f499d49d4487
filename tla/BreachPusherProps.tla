-------------------------- MODULE BreachPusherProps --------------------------
(***************************************************************************)
(* What breach_pusher.py must guarantee, and the invariant that makes it   *)
(* so.                                                                     *)
(***************************************************************************)
EXTENDS BreachPusher

Handing(c) == camPc[c] = "enqueue"
Working == workerPc # "idle"

\* "Only ONE cut+VLM runs at a time" and dropped ticks never queue up: _busy is
\* set exactly while one breach is in the hands of one camera thread, the
\* executor's queue or the executor thread, and of no two of them.
OneBreachInFlight ==
    /\ \A c, d \in Cameras : Handing(c) /\ Handing(d) => c = d
    /\ \A c \in Cameras : Handing(c) => pending = <<>> /\ ~Working
    /\ Len(pending) <= 1
    /\ pending # <<>> => ~Working
    /\ busy <=> (\E c \in Cameras : Handing(c)) \/ pending # <<>> \/ Working

\* The endings that leave a clip behind: ffmpeg failed on a partial file, the cut
\* raised after ffmpeg, the file could not be read or unlinked, the process died.
Leaky == {"cut_failed", "cut_raised", "io_raised", "crashed"}

\* Once the clip is out of the pipeline's hands its file is gone (docs/33 P0-5:
\* the temp directory must not fill up): a clip on disk belongs to the breach in
\* flight, whose remaining path unlinks it, or to a job with a leaky ending.
ClipOwned ==
    \A j \in clips :
        \/ outcome[j] \in Leaky
        \/ /\ job = j
           /\ \/ workerPc \in {"verify", "discard", "read"}
              \/ workerPc = "report" /\ reason = "cut_failed"

\* A breach the backend has an alert for is never reported to it as cleared,
\* whatever was lost on the way.
AlertXorCleared == \A j \in Jobs : alerts[j] > 0 => report[j] = "none"

\* A breach not yet cut is known to nobody but its holder: no clip, no ending, no
\* alert, no report.  This is what makes the two invariants above inductive.
Untouched(j) ==
    /\ j \notin clips
    /\ outcome[j] = "none"
    /\ alerts[j] = 0
    /\ report[j] = "none"

JobsFresh ==
    /\ \A j \in Jobs : j > admitted => Untouched(j)
    /\ \A c \in Cameras :
          Handing(c) => camJob[c] \in 1..admitted /\ Untouched(camJob[c])
    /\ \A i \in DOMAIN pending :
          pending[i] \in 1..admitted /\ Untouched(pending[i])
    /\ Working => job \in 1..admitted
    /\ workerPc = "cut" => Untouched(job)
    /\ workerPc \notin {"idle", "release"} => outcome[job] = "none"
    /\ workerPc \in {"verify", "discard", "read", "report"} => alerts[job] = 0
    /\ workerPc \in {"post", "backoff"} => report[job] = "none"
    /\ workerPc \in {"verify", "discard", "read", "report"}
          => report[job] = "none"

\* What has been admitted and what still can be without reading the mode again.
Exposure == admitted + Cardinality({c \in Cameras : camPc[c] = "gate"})

\* The mode is read before the gate and not again: while it stays "off", only
\* breaches of cameras that had read it before are admitted, so that switching
\* off ends the alerts.
OffAdmitsNoMore ==
    [][mode = "off" /\ mode' = "off" => Exposure' <= Exposure]_vars

\* The pipeline implements the promise of SingleFlight, its liveness included.
SF == INSTANCE SingleFlight WITH inFlight <- InFlight

ImplementsSingleFlight == SF!Spec

\* breach_pusher.py: "Tell the backend a breach was detected but produced NO
\* alert (VLM cleared it, or the clip-cut failed) so the miss is VISIBLE": a
\* job whose cut failed has been reported.
CutFailureReported ==
    \A j \in Jobs : outcome[j] \in {"cut_failed", "cut_raised"}
                        => report[j] # "none"
=============================================================================
