----------------------------- MODULE EdgeVerify -----------------------------
(***************************************************************************)
(* The HTTP handlers that run the VLM (api/v1/verify.py), on one event     *)
(* loop: edge_clip_upload with its admission count, its semaphore and its  *)
(* temporary file.                                                         *)
(*                                                                         *)
(* The loop switches handlers at awaits only, so an action is the code     *)
(* from one await to the next.                                             *)
(***************************************************************************)
EXTENDS FiniteSets, Integers, SequencesExt

CONSTANTS Uploads,          \* requests to /v1/edge-clip-upload
          MaxConcurrency,   \* edge_verify_max_concurrency
          MaxQueue          \* edge_verify_max_queue

ASSUME EdgeAssumption == MaxConcurrency \in Nat /\ MaxQueue \in Nat

\* The semaphore is made with at least one permit.
Permits == IF MaxConcurrency > 1 THEN MaxConcurrency ELSE 1

VARIABLES
    at,         \* per upload: the await its handler is in
    result,     \* per upload: how it ended, "error" for every HTTP status but 200
    inflight,   \* _edge_inflight
    permits,    \* the semaphore's value
    waiters,    \* ... and its queue
    files       \* uploads whose temporary file exists

gateVars == <<permits, waiters>>
vars == <<at, result, inflight, gateVars, files>>

TypeOK ==
    /\ at \in [Uploads -> {"new", "makedirs", "read", "context", "acquire",
                           "woken", "verify", "embed", "unlink", "done"}]
    /\ result \in [Uploads -> {"none", "verdict", "error", "kept_file"}]
    /\ inflight \in 0..(MaxConcurrency + MaxQueue)
    /\ permits \in 0..Permits
    /\ waiters \in Seq(Uploads)
    /\ files \subseteq Uploads

Init ==
    /\ at = [r \in Uploads |-> "new"]
    /\ result = [r \in Uploads |-> "none"]
    /\ inflight = 0
    /\ permits = Permits
    /\ waiters = <<>>
    /\ files = {}

Goto(r, step) == at' = [at EXCEPT ![r] = step]
End(r, how) == result' = [result EXCEPT ![r] = how]

\* Both finally blocks, with no temporary file in between.
Return(r, how) ==
    /\ Goto(r, "done")
    /\ End(r, how)
    /\ inflight' = inflight - 1

-----------------------------------------------------------------------------
(* edge_clip_upload.                                                       *)

\* Mutant of Arrive: the test lets one more in.
ArriveOneMore(r) ==
    /\ at[r] = "new"
    /\ IF inflight > MaxConcurrency + MaxQueue
       THEN Goto(r, "done") /\ End(r, "error") /\ UNCHANGED inflight
       ELSE Goto(r, "makedirs") /\ inflight' = inflight + 1 /\ UNCHANGED result
    /\ UNCHANGED <<gateVars, files>>

\* Mutant of Arrive: the provider is looked up before the try block, so an
\* unknown one leaves the count up.
ArriveLeaking(r) ==
    /\ at[r] = "new"
    /\ IF inflight >= MaxConcurrency + MaxQueue
       THEN Goto(r, "done") /\ End(r, "error") /\ UNCHANGED inflight
       ELSE /\ inflight' = inflight + 1
            /\ \/ Goto(r, "makedirs") /\ UNCHANGED result
               \/ Goto(r, "done") /\ End(r, "error")
    /\ UNCHANGED <<gateVars, files>>

\* Shed with 503, or count the upload in; an unknown provider is refused with
\* 400 before the first await.
Arrive(r) ==
    /\ at[r] = "new"
    /\ \/ /\ inflight >= MaxConcurrency + MaxQueue
          /\ Goto(r, "done") /\ End(r, "error") /\ UNCHANGED inflight
       \/ /\ inflight < MaxConcurrency + MaxQueue
          /\ \/ Goto(r, "makedirs") /\ inflight' = inflight + 1
                /\ UNCHANGED result
             \/ Goto(r, "done") /\ End(r, "error") /\ UNCHANGED inflight
    /\ UNCHANGED <<gateVars, files>>

\* The storage directory is there, mkstemp makes the file ...
OpenFile(r) ==
    /\ at[r] = "makedirs"
    /\ files' = files \cup {r}
    /\ Goto(r, "read")
    /\ UNCHANGED <<result, inflight, gateVars>>

\* ... or one of them raises.
OpenFails(r) ==
    /\ at[r] = "makedirs"
    /\ Return(r, "error")
    /\ UNCHANGED <<gateVars, files>>

\* The body is in the file; it was larger than the cap; or reading it raised.
ReadBody(r) ==
    /\ at[r] = "read"
    /\ \/ Goto(r, "context") /\ UNCHANGED result
       \/ Goto(r, "unlink") /\ End(r, "error")
    /\ UNCHANGED <<inflight, gateVars, files>>

\* retrieve_context is best effort, but a reply of the wrong shape raises in
\* _format.
ContextRaises(r) ==
    /\ at[r] = "context"
    /\ Goto(r, "unlink")
    /\ End(r, "error")
    /\ UNCHANGED <<inflight, gateVars, files>>

\* The RAG context is there, or there is none; take a permit or queue for one.
EnterGate(r) ==
    /\ at[r] = "context"
    /\ IF permits > 0 /\ waiters = <<>>
       THEN /\ Goto(r, "verify")
            /\ permits' = permits - 1
            /\ UNCHANGED waiters
       ELSE /\ Goto(r, "acquire")
            /\ waiters' = Append(waiters, r)
            /\ UNCHANGED permits
    /\ UNCHANGED <<result, inflight, files>>

\* The places in the queue of those not woken yet, and the first of these.
Asleep == {i \in DOMAIN waiters : at[waiters[i]] = "acquire"}
First == waiters[Min(Asleep)]

\* The queue without handler r.
Without(r) == RemoveAt(waiters, CHOOSE i \in DOMAIN waiters : waiters[i] = r)

\* Semaphore._wake_up_next: handler r goes on to step with n permits left over,
\* of which the first sleeper, if there is one, is given one.
WakeNext(r, step, n) ==
    IF n > 0 /\ Asleep # {}
    THEN /\ at' = [at EXCEPT ![r] = step, ![First] = "woken"]
         /\ permits' = n - 1
    ELSE /\ Goto(r, step)
         /\ permits' = n

\* Mutant of Resume: it does not wake the next.
ResumeAlone(r) ==
    /\ at[r] = "woken"
    /\ Goto(r, "verify")
    /\ waiters' = Without(r)
    /\ UNCHANGED <<result, inflight, permits, files>>

\* A woken handler runs again: it holds a permit, leaves the queue and wakes the
\* next sleeper when a permit is left.
Resume(r) ==
    /\ at[r] = "woken"
    /\ waiters' = Without(r)
    /\ WakeNext(r, "verify", permits)
    /\ UNCHANGED <<result, inflight, files>>

\* Semaphore.release.
Release(r, step) == WakeNext(r, step, permits + 1) /\ UNCHANGED waiters

\* verify_clip returns a verdict.
Verified(r) ==
    /\ at[r] = "verify"
    /\ Release(r, "embed")
    /\ UNCHANGED <<result, inflight, files>>

\* Mutant of VerifyRaises: no release on the way out (acquire and release
\* instead of async with).
VerifyRaisesHolding(r) ==
    /\ at[r] = "verify"
    /\ Goto(r, "unlink")
    /\ End(r, "error")
    /\ UNCHANGED <<inflight, gateVars, files>>

\* verify_clip raises: second transport error, unreadable clip.
VerifyRaises(r) ==
    /\ at[r] = "verify"
    /\ Release(r, "unlink")
    /\ End(r, "error")
    /\ UNCHANGED <<inflight, files>>

\* The embedding is best effort.
Embed(r) ==
    /\ at[r] = "embed"
    /\ Goto(r, "unlink")
    /\ End(r, "verdict")
    /\ UNCHANGED <<inflight, gateVars, files>>

\* Mutant of Unlink: only a verdict removes the file.
UnlinkVerdictsOnly(r) ==
    /\ at[r] = "unlink"
    /\ Return(r, result[r])
    /\ files' = IF result[r] = "verdict" THEN files \ {r} ELSE files
    /\ UNCHANGED <<gateVars>>

\* The finally blocks.
Unlink(r) ==
    /\ at[r] = "unlink"
    /\ Return(r, result[r])
    /\ files' = files \ {r}
    /\ UNCHANGED <<gateVars>>

\* unlink itself raises: the file stays, and its error replaces the result.
UnlinkRaises(r) ==
    /\ at[r] = "unlink"
    /\ Return(r, "kept_file")
    /\ UNCHANGED <<gateVars, files>>

-----------------------------------------------------------------------------
Handler(r) ==
    \/ OpenFile(r) \/ OpenFails(r) \/ ReadBody(r)
    \/ ContextRaises(r) \/ EnterGate(r)
    \/ Resume(r) \/ Verified(r) \/ VerifyRaises(r) \/ Embed(r) \/ Unlink(r)
    \/ UnlinkRaises(r)

Next == \E r \in Uploads : Arrive(r) \/ Handler(r)

\* A handler is resumed when what it awaits is there, and awaits nothing for
\* ever: reads, the VLM call and the RAG calls carry timeouts.  Nobody need
\* ever upload.
Spec == Init /\ [][Next]_vars /\ \A r \in Uploads : WF_vars(Handler(r))

-----------------------------------------------------------------------------
(* Properties.                                                             *)

Verifying == {r \in Uploads : at[r] = "verify"}
Woken == {r \in Uploads : at[r] = "woken"}
Inside == {r \in Uploads : at[r] \notin {"new", "done"}}

\* On every path, raised exceptions included, the admission count is that of the
\* handlers under way and the permits are those nobody holds: neither leaks, so
\* the endpoint cannot wedge itself shut.
CountsExact ==
    /\ inflight = Cardinality(Inside)
    /\ permits + Cardinality(Verifying \cup Woken) = Permits

\* No permit lies idle while handlers sleep, unless a woken one is about to pass
\* it on; the queue holds exactly those who wait, each once.
NoLostWakeup ==
    /\ permits > 0 /\ Asleep # {} => Woken # {}
    /\ IsInjective(waiters)
    /\ ToSet(waiters) = {r \in Uploads : at[r] \in {"acquire", "woken"}}

\* test_edge_clip_upload.py: "the temp file is cleaned up": no file outlives its
\* handler, unless unlinking it raised.
FilesCleanedUp ==
    \A r \in files : r \in Inside \/ result[r] = "kept_file"

\* The endpoint implements a bounded pool with fair service.
Stage(r) ==
    CASE at[r] = "new" -> "outside"
      [] at[r] \in {"makedirs", "read", "context", "acquire", "woken"}
            -> "admitted"
      [] at[r] = "verify" -> "served"
      [] at[r] \in {"embed", "unlink"} -> "finished"
      [] at[r] = "done" -> "left"

Pool == INSTANCE AdmissionPool WITH
            Requests <- Uploads, Slots <- Permits,
            Room <- MaxConcurrency + MaxQueue,
            state <- [r \in Uploads |-> Stage(r)]

ImplementsPool == Pool!Spec
=============================================================================
