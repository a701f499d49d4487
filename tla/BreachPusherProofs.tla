------------------------- MODULE BreachPusherProofs -------------------------
(***************************************************************************)
(* Proofs about BreachPusher for every set of cameras and every bound.     *)
(***************************************************************************)
EXTENDS BreachPusherProps, FiniteSetTheorems, SequenceTheorems, TLAPS

\* A queue that is not empty and holds at most one element holds just its head.
LEMMA SingletonQueue ==
    ASSUME NEW S, NEW q \in Seq(S), q # <<>>, Len(q) <= 1
    PROVE  Len(q) = 1 /\ Head(q) = q[1] /\ Tail(q) = <<>> /\ DOMAIN q = {1}
<1>1. Len(q) = 1
  <2>1. Len(q) \in Nat \ {0}
    BY EmptySeq
  <2> QED BY <2>1
<1>2. Tail(q) = <<>>
  <2>1. Tail(q) \in Seq(S) /\ Len(Tail(q)) = 0
    BY <1>1, HeadTailProperties
  <2> QED BY <2>1, EmptySeq
<1> QED BY <1>1, <1>2

\* The types of the pipeline's variables, in every reachable state.
THEOREM TypeCorrect == SafetySpec => []TypeOK
<1>0. <<>> \in Seq(Jobs)
  OBVIOUS
<1>1. Init => TypeOK
  <2> SUFFICES ASSUME Init PROVE TypeOK
    OBVIOUS
  <2> USE DEF Init, Jobs, NoJob
  <2>1. mode \in Modes /\ admitted \in 0..MaxJobs /\ crashes \in 0..MaxCrashes
    BY BreachAssumption DEF BreachAssumption
  <2>2. /\ camPc \in [Cameras -> CamPcs]
        /\ camJob \in [Cameras -> Jobs \cup {NoJob}]
        /\ \A c \in Cameras : camPc[c] = "enqueue" => camJob[c] \in Jobs
    BY DEF CamPcs
  <2>3. /\ outcome \in [Jobs -> Outcomes]
        /\ alerts \in [Jobs -> Nat]
        /\ report \in [Jobs -> {"none", "lost", "received"}]
    BY DEF Outcomes, Reasons
  <2>4. /\ workerPc \in WorkerPcs
        /\ workerPc # "idle" => job \in Jobs
        /\ reason \in Reasons
        /\ workerPc = "backoff" => attempt = 0
        /\ attempt \in {0, 1} /\ clips \subseteq Jobs /\ busy \in BOOLEAN
        /\ job \in Jobs \cup {NoJob}
    BY DEF WorkerPcs, Reasons
  <2> QED BY <1>0, <2>1, <2>2, <2>3, <2>4 DEF TypeOK
<1>2. TypeOK /\ [Next]_vars => TypeOK'
  <2> SUFFICES ASSUME TypeOK, [Next]_vars PROVE TypeOK'
    OBVIOUS
  <2> USE BreachAssumption DEF BreachAssumption, Modes, TypeOK, CamPcs, WorkerPcs, Reasons,
          Outcomes, Jobs, NoJob, camVars, gateVars, workVars, resultVars
  <2>1. ASSUME NEW c \in Cameras, Submit(c) PROVE TypeOK'
    <3>1. CASE ReadMode(c) BY <3>1 DEF ReadMode
    <3>2. CASE FindBusy(c) BY <3>2 DEF FindBusy
    <3>3. CASE TakeGate(c) BY <3>3 DEF TakeGate
    <3>4. CASE Enqueue(c) BY <3>4 DEF Enqueue
    <3> QED BY <2>1, <3>1, <3>2, <3>3, <3>4 DEF Submit
  <2>2. CASE Handle
    <3>1. CASE StartJob BY <3>1 DEF StartJob
    <3>2. CASE CutClip BY <3>2 DEF CutClip
    <3>3. CASE CutFails BY <3>3 DEF CutFails
    <3>4. CASE CutRaises BY <3>4 DEF CutRaises, EndWith
    <3>5. CASE JudgeNoAlert BY <3>5 DEF JudgeNoAlert
    <3>6. CASE JudgeTheft BY <3>6 DEF JudgeTheft
    <3>7. CASE DiscardClip BY <3>7 DEF DiscardClip
    <3>8. CASE ReadClip BY <3>8 DEF ReadClip
    <3>9. CASE FileRaises BY <3>9 DEF FileRaises, EndWith
    <3>10. CASE ReportCleared BY <3>10 DEF ReportCleared, EndWith
    <3>11. CASE PostAccepted BY <3>11 DEF PostAccepted, EndWith
    <3>12. CASE PostRejected BY <3>12 DEF PostRejected, EndWith
    <3>13. CASE PostFails
      <4>1. alerts' \in [Jobs -> Nat]
        BY <3>13 DEF PostFails
      <4>2. /\ workerPc' \in WorkerPcs /\ outcome' \in [Jobs -> Outcomes]
            /\ workerPc' = "backoff" => attempt' = 0
        BY <3>13 DEF PostFails, EndWith
      <4> QED BY <3>13, <4>1, <4>2 DEF PostFails
    <3>14. CASE Retry BY <3>14 DEF Retry
    <3>15. CASE Release BY <3>15 DEF Release
    <3> QED BY <2>2, <3>1, <3>2, <3>3, <3>4, <3>5, <3>6, <3>7, <3>8, <3>9,
               <3>10, <3>11, <3>12, <3>13, <3>14, <3>15 DEF Handle
  <2>3. ASSUME NEW m \in Modes, SetMode(m) PROVE TypeOK'
    BY <2>3 DEF SetMode
  <2>4. CASE Crash
    <3>1. /\ camPc' \in [Cameras -> CamPcs]
          /\ camJob' \in [Cameras -> Jobs \cup {NoJob}]
          /\ \A c \in Cameras : camPc'[c] = "enqueue" => camJob'[c] \in Jobs
      BY <2>4 DEF Crash
    <3>2. outcome' \in [Jobs -> Outcomes]
      BY <2>4 DEF Crash
    <3>3. /\ mode' \in Modes /\ admitted' \in 0..MaxJobs
          /\ pending' \in Seq(Jobs)
          /\ crashes' \in 0..MaxCrashes
      BY <1>0, <2>4 DEF Crash
    <3>4. /\ workerPc' \in WorkerPcs /\ job' \in Jobs \cup {NoJob}
          /\ workerPc' # "idle" => job' \in Jobs
          /\ workerPc' = "backoff" => attempt' = 0
          /\ busy' \in BOOLEAN /\ attempt' \in {0, 1} /\ reason' \in Reasons
      BY <2>4 DEF Crash
    <3>5. /\ clips' \subseteq Jobs
          /\ alerts' \in [Jobs -> Nat]
          /\ report' \in [Jobs -> {"none", "lost", "received"}]
      BY <2>4 DEF Crash
    <3> HIDE DEF Jobs, NoJob, WorkerPcs, Outcomes, Reasons, CamPcs, Modes
    <3> QED BY <3>1, <3>2, <3>3, <3>4, <3>5 DEF TypeOK
  <2>5. CASE UNCHANGED vars BY <2>5 DEF vars
  <2> QED BY <2>1, <2>2, <2>3, <2>4, <2>5 DEF Next
<1>3. QED BY <1>1, <1>2, PTL DEF SafetySpec

-----------------------------------------------------------------------------
\* The gate: at every moment _busy is set exactly while one breach is in the
\* pipeline, so the executor's queue never holds a breach behind another one.
THEOREM GateIsExclusive == SafetySpec => []OneBreachInFlight
<1>1. Init => OneBreachInFlight
  BY DEF Init, OneBreachInFlight, Handing, Working
<1>2. TypeOK /\ OneBreachInFlight /\ [Next]_vars => OneBreachInFlight'
  <2> SUFFICES ASSUME TypeOK, OneBreachInFlight, [Next]_vars
               PROVE  OneBreachInFlight'
    OBVIOUS
  <2>0. camPc \in [Cameras -> CamPcs] /\ pending \in Seq(Jobs)
    BY DEF TypeOK
  <2> USE <2>0 DEF OneBreachInFlight, Handing, Working
  <2>1. ASSUME NEW c \in Cameras, Submit(c) PROVE OneBreachInFlight'
    <3>1. CASE ReadMode(c)
      <4>1. \A d \in Cameras : Handing(d)' <=> Handing(d)
        BY <3>1 DEF ReadMode
      <4> QED BY <3>1, <4>1 DEF ReadMode, gateVars, workVars
    <3>2. CASE FindBusy(c)
      <4>1. \A d \in Cameras : Handing(d)' <=> Handing(d)
        BY <3>2 DEF FindBusy
      <4> QED BY <3>2, <4>1 DEF FindBusy, gateVars, workVars
    <3>3. CASE TakeGate(c)
      <4>1. \A d \in Cameras : Handing(d)' <=> d = c
        BY <3>3 DEF TakeGate
      <4> QED BY <3>3, <4>1 DEF TakeGate, workVars
    <3>4. CASE Enqueue(c)
      <4>1. \A d \in Cameras : ~Handing(d)'
        BY <3>4 DEF Enqueue
      <4>2. pending = <<>> /\ ~Working /\ busy
        BY <3>4 DEF Enqueue
      <4>3. pending' = <<camJob[c]>>
        BY <3>4, <4>2 DEF Enqueue
      <4> QED BY <3>4, <4>1, <4>2, <4>3 DEF Enqueue, workVars
    <3> QED BY <2>1, <3>1, <3>2, <3>3, <3>4 DEF Submit
  <2>2. CASE Handle
    <3>1. CASE StartJob
      <4>1. pending' = <<>>
        BY <3>1 DEF StartJob
      <4> QED BY <3>1, <4>1 DEF StartJob, camVars
    <3>2. CASE Release
      BY <3>2 DEF Release, camVars
    <3>3. ASSUME Working, Working', UNCHANGED <<camVars, gateVars>>
          PROVE  OneBreachInFlight'
      BY <3>3 DEF camVars, gateVars
    <3> QED BY <2>2, <3>1, <3>2, <3>3 DEF Handle, CutClip, CutFails, CutRaises,
               JudgeNoAlert, JudgeTheft, DiscardClip, ReadClip, FileRaises,
               ReportCleared, PostAccepted, PostRejected, PostFails, Retry,
               EndWith
  <2>3. ASSUME NEW m \in Modes, SetMode(m) PROVE OneBreachInFlight'
    BY <2>3 DEF SetMode, camVars, gateVars, workVars
  <2>4. CASE Crash
    BY <2>4 DEF Crash
  <2>5. CASE UNCHANGED vars
    BY <2>5 DEF vars, camVars, gateVars, workVars
  <2> QED BY <2>1, <2>2, <2>3, <2>4, <2>5 DEF Next
<1>3. QED BY <1>1, <1>2, TypeCorrect, PTL DEF SafetySpec

-----------------------------------------------------------------------------
\* The inductive strengthening of ClipOwned and AlertXorCleared: what a job may
\* have left behind depends on where it is, and a job not yet cut has left nothing.
Accounted == JobsFresh /\ ClipOwned /\ AlertXorCleared

\* A step of the executor thread inside _handle, with respect to the jobs that
\* are not its own: it touches none of them.
OwnJobOnly ==
    /\ UNCHANGED <<camVars, gateVars>>
    /\ Working /\ Working' /\ job' = job
    /\ \A j \in Jobs : j # job =>
          /\ j \in clips' <=> j \in clips
          /\ outcome'[j] = outcome[j]
          /\ alerts'[j] = alerts[j]
          /\ report'[j] = report[j]

\* What such a step owes for its own job is then all there is to show.
LEMMA OwnJobSuffices ==
    ASSUME TypeOK, OneBreachInFlight, Accounted, OwnJobOnly,
           clips' \subseteq Jobs,
           workerPc' # "cut",
           workerPc' # "release" => outcome'[job] = "none",
           workerPc' \in {"verify", "discard", "read", "report"}
              => alerts'[job] = 0 /\ report'[job] = "none",
           workerPc' \in {"post", "backoff"} => report'[job] = "none",
           alerts'[job] > 0 => report'[job] = "none",
           job \in clips' =>
              \/ outcome'[job] \in Leaky
              \/ workerPc' \in {"verify", "discard", "read"}
              \/ workerPc' = "report" /\ reason' = "cut_failed"
    PROVE  Accounted'
<1> USE DEF Accounted, OwnJobOnly
<1>0. /\ job \in Jobs /\ job \in 1..admitted /\ admitted \in Nat
      /\ pending = <<>> /\ \A c \in Cameras : ~Handing(c)
  BY BreachAssumption DEF BreachAssumption, TypeOK, OneBreachInFlight,
     JobsFresh, Working, Jobs
<1>1. JobsFresh'
  <2>1. \A j \in Jobs : j > admitted' => Untouched(j)'
    BY <1>0 DEF JobsFresh, Untouched, gateVars, Jobs
  <2>2. pending' = <<>> /\ \A c \in Cameras : ~Handing(c)'
    BY <1>0 DEF Handing, camVars, gateVars
  <2>3. /\ \A c \in Cameras : Handing(c)' => camJob'[c] \in 1..admitted'
                                                /\ Untouched(camJob[c])'
        /\ \A i \in DOMAIN pending' : pending'[i] \in 1..admitted'
                                       /\ Untouched(pending[i])'
        /\ Working' => job' \in 1..admitted'
    BY <1>0, <2>2 DEF gateVars
  <2> QED BY <1>0, <2>1, <2>3 DEF JobsFresh, gateVars, Working
<1>2. ClipOwned'
  BY <1>0 DEF ClipOwned, Working
<1>3. AlertXorCleared'
  BY DEF AlertXorCleared
<1> QED BY <1>1, <1>2, <1>3

\* A step of the executor thread inside _handle keeps the books.
LEMMA HandleAccounted ==
    ASSUME TypeOK, OneBreachInFlight, Accounted, Handle, ~StartJob, ~Release,
           TypeOK'
    PROVE  Accounted'
<1>0. job \in Jobs /\ Working
  BY DEF TypeOK, Handle, StartJob, Release, CutClip, CutFails, CutRaises,
     JudgeNoAlert, JudgeTheft, DiscardClip, ReadClip, FileRaises,
     ReportCleared, PostAccepted, PostRejected, PostFails, Retry, Working
<1>1. /\ clips' \subseteq Jobs /\ clips \subseteq Jobs
      /\ outcome \in [Jobs -> Outcomes]
      /\ alerts \in [Jobs -> Nat]
      /\ report \in [Jobs -> {"none", "lost", "received"}]
  BY DEF TypeOK
<1>2. /\ workerPc = "cut" => Untouched(job)
      /\ workerPc # "release" => outcome[job] = "none"
      /\ workerPc \in {"verify", "discard", "read", "report"}
           => alerts[job] = 0 /\ report[job] = "none"
      /\ workerPc \in {"post", "backoff"} => report[job] = "none"
      /\ alerts[job] > 0 => report[job] = "none"
      /\ job \in clips =>
              \/ outcome[job] \in Leaky
              \/ workerPc \in {"verify", "discard", "read"}
              \/ workerPc = "report" /\ reason = "cut_failed"
  BY <1>0 DEF Accounted, JobsFresh, ClipOwned, AlertXorCleared, Working
<1> USE <1>0, <1>1, <1>2 DEF Leaky, Untouched, Working, OwnJobOnly
<1>3. CASE CutClip
  BY <1>3, OwnJobSuffices DEF CutClip
<1>4. CASE CutFails
  BY <1>4, OwnJobSuffices DEF CutFails
<1>5. CASE CutRaises
  BY <1>5, OwnJobSuffices DEF CutRaises, EndWith
<1>6. CASE JudgeNoAlert
  BY <1>6, OwnJobSuffices DEF JudgeNoAlert, resultVars
<1>7. CASE JudgeTheft
  BY <1>7, OwnJobSuffices DEF JudgeTheft, resultVars
<1>8. CASE DiscardClip
  BY <1>8, OwnJobSuffices DEF DiscardClip
<1>9. CASE ReadClip
  BY <1>9, OwnJobSuffices DEF ReadClip
<1>10. CASE FileRaises
  BY <1>10, OwnJobSuffices DEF FileRaises, EndWith
<1>11. CASE ReportCleared
  BY <1>11, OwnJobSuffices DEF ReportCleared, EndWith
<1>12. CASE PostAccepted
  BY <1>12, OwnJobSuffices DEF PostAccepted, EndWith
<1>13. CASE PostRejected
  BY <1>13, OwnJobSuffices DEF PostRejected, EndWith
<1>14. CASE PostFails
  BY <1>14, OwnJobSuffices DEF PostFails, EndWith
<1>15. CASE Retry
  BY <1>15, OwnJobSuffices DEF Retry, resultVars
<1> QED BY <1>3, <1>4, <1>5, <1>6, <1>7, <1>8, <1>9, <1>10, <1>11, <1>12,
           <1>13, <1>14, <1>15 DEF Handle

\* No clip is left behind and no breach is both alerted and cleared, whatever
\* the interleaving of threads, the failures and the crashes.
LEMMA AccountedAlways == SafetySpec => []Accounted
<1>1. Init => Accounted
  BY DEF Init, Accounted, JobsFresh, Untouched, ClipOwned, AlertXorCleared,
     Handing, Working
<1>2. /\ TypeOK /\ TypeOK' /\ OneBreachInFlight /\ OneBreachInFlight'
      /\ Accounted /\ [Next]_vars
      => Accounted'
  <2> SUFFICES ASSUME TypeOK, TypeOK', OneBreachInFlight, OneBreachInFlight',
                      Accounted, [Next]_vars
               PROVE  Accounted'
    OBVIOUS
  <2>0. /\ admitted \in Nat /\ clips \subseteq Jobs
        /\ camPc \in [Cameras -> CamPcs]
        /\ camJob \in [Cameras -> Jobs \cup {NoJob}]
        /\ \A c \in Cameras : Handing(c) => camJob[c] \in Jobs
        /\ pending \in Seq(Jobs)
    BY BreachAssumption DEF BreachAssumption, TypeOK, Handing
  <2>1. ASSUME UNCHANGED <<workVars, resultVars>> PROVE ClipOwned' /\ AlertXorCleared'
    BY <2>1 DEF Accounted, ClipOwned, AlertXorCleared, workVars, resultVars
  <2>2. ASSUME NEW c \in Cameras, Submit(c) PROVE Accounted'
    <3>0. UNCHANGED <<workVars, resultVars>> /\ admitted' >= admitted /\ admitted' \in Nat
      BY <2>0, <2>2 DEF Submit, ReadMode, FindBusy, TakeGate, Enqueue, gateVars
    <3>1. \A j \in Jobs : Untouched(j)' <=> Untouched(j)
      BY <3>0 DEF Untouched, resultVars
    <3>2. \A j \in Jobs : j > admitted' => Untouched(j)'
      BY <2>0, <3>0, <3>1 DEF Accounted, JobsFresh, Jobs
    <3>3. Working' => job' \in 1..admitted'
      BY <2>0, <3>0 DEF Accounted, JobsFresh, Working, workVars
    <3>4. \A d \in Cameras : Handing(d)' =>
             camJob'[d] \in 1..admitted' /\ Untouched(camJob[d])'
      <4>1. CASE TakeGate(c)
        <5>1. \A d \in Cameras : Handing(d)' => d = c
          BY <4>1, <2>0 DEF TakeGate, Handing, OneBreachInFlight
        <5>2. PICK k \in Jobs : k = admitted + 1
          BY <4>1, <2>0, BreachAssumption DEF TakeGate, Jobs, BreachAssumption
        <5>3. camJob'[c] = k /\ admitted' = k
          BY <4>1, <2>0, <5>2 DEF TakeGate
        <5>4. Untouched(k)
          BY <2>0, <5>2 DEF Accounted, JobsFresh
        <5>5. Untouched(k)'
          BY <3>1, <5>4
        <5>6. Untouched(camJob[c])'
          BY <5>3, <5>5
        <5>7. k \in 1..admitted'
          BY <5>3 DEF Jobs
        <5> QED BY <5>1, <5>3, <5>6, <5>7
      <4>2. CASE ~TakeGate(c)
        <5>1. \A d \in Cameras : Handing(d)' => Handing(d) /\ camJob'[d] = camJob[d]
          BY <4>2, <2>2, <2>0 DEF Submit, ReadMode, FindBusy, Enqueue, Handing
        <5>2. admitted' = admitted
          BY <4>2, <2>2 DEF Submit, ReadMode, FindBusy, Enqueue, gateVars
        <5> QED BY <2>0, <3>1, <5>1, <5>2 DEF Accounted, JobsFresh
      <4> QED BY <4>1, <4>2
    <3>5. \A i \in DOMAIN pending' :
             pending'[i] \in 1..admitted' /\ Untouched(pending[i])'
      <4>1. CASE Enqueue(c)
        <5>1. pending = <<>> /\ camJob[c] \in Jobs
          BY <4>1, <2>0 DEF Enqueue, OneBreachInFlight, Handing
        <5>2. pending' = <<camJob[c]>> /\ admitted' = admitted
          BY <4>1, <5>1 DEF Enqueue
        <5>3. camJob[c] \in 1..admitted /\ Untouched(camJob[c])
          BY <4>1 DEF Enqueue, Accounted, JobsFresh, Handing
        <5> QED BY <3>1, <5>1, <5>2, <5>3
      <4>2. CASE ~Enqueue(c)
        <5>1. pending' = pending
          BY <4>2, <2>2 DEF Submit, ReadMode, FindBusy, TakeGate, gateVars
        <5>2. \A i \in DOMAIN pending : pending[i] \in Jobs
          BY <2>0
        <5> QED BY <2>0, <3>0, <3>1, <5>1, <5>2 DEF Accounted, JobsFresh
      <4> QED BY <4>1, <4>2
    <3>6. JobsFresh'
      BY <3>0, <3>2, <3>3, <3>4, <3>5 DEF Accounted, JobsFresh, Untouched, Working,
         workVars, resultVars
    <3> QED BY <3>0, <3>6, <2>1 DEF Accounted
  <2>3. CASE StartJob
    <3>1. pending # <<>> /\ Len(pending) <= 1
      BY <2>3 DEF StartJob, OneBreachInFlight
    <3>2. /\ Head(pending) = pending[1] /\ Tail(pending) = <<>>
          /\ DOMAIN pending = {1}
      BY <2>0, <3>1, SingletonQueue
    <3>3. 1 \in DOMAIN pending /\ ~Working /\ \A c \in Cameras : ~Handing(c)
      BY <2>3, <3>2 DEF StartJob, OneBreachInFlight, Working
    <3>4. /\ job' = Head(pending) /\ pending' = <<>> /\ workerPc' = "cut"
          /\ admitted' = admitted
      BY <2>3, <3>2 DEF StartJob
    <3>5. Head(pending) \in 1..admitted /\ Untouched(Head(pending))
      BY <3>3, <3>2 DEF Accounted, JobsFresh
    <3>6. \A j \in Jobs \cup {Head(pending)} : Untouched(j)' <=> Untouched(j)
      BY <2>3 DEF StartJob, Untouched, resultVars
    <3>7. \A c \in Cameras : ~Handing(c)'
      BY <2>3, <3>3 DEF StartJob, Handing, camVars
    <3>8. JobsFresh'
      BY <2>0, <2>3, <3>4, <3>5, <3>6, <3>7 DEF StartJob, resultVars, Accounted,
         JobsFresh, Untouched, Working
    <3>9. ClipOwned'
      BY <2>3, <3>3 DEF StartJob, resultVars, Accounted, ClipOwned, Working,
         Leaky
    <3>10. AlertXorCleared'
      BY <2>3 DEF StartJob, resultVars, Accounted, AlertXorCleared
    <3> QED BY <3>8, <3>9, <3>10 DEF Accounted
  <2>4. CASE Release
    <3>1. \A c \in Cameras : Handing(c)' <=> Handing(c)
      BY <2>4 DEF Release, Handing, camVars
    <3>2. JobsFresh'
      BY <2>0, <2>4, <3>1 DEF Release, camVars, resultVars, Accounted, JobsFresh,
         Untouched, Working
    <3>3. ClipOwned' /\ AlertXorCleared'
      BY <2>4 DEF Release, resultVars, Accounted, ClipOwned, AlertXorCleared,
         Leaky
    <3> QED BY <3>2, <3>3 DEF Accounted
  <2>5. CASE Crash
    <3>1. ~Working' /\ pending' = <<>> /\ \A c \in Cameras : ~Handing(c)'
      BY <2>5 DEF Crash, Working, Handing
    <3>2. /\ \A j \in Jobs : outcome[j] # "none" => outcome'[j] = outcome[j]
          /\ \A j \in Jobs : outcome[j] = "none" /\ j \in InFlight
                => outcome'[j] = "crashed"
          /\ \A j \in Jobs : j \notin InFlight => outcome'[j] = outcome[j]
          /\ UNCHANGED <<admitted, clips, alerts, report>>
      BY <2>5 DEF Crash
    <3>3. \A j \in InFlight : j \in 1..admitted
      BY DEF InFlight, Accounted, JobsFresh, Handing, Working
    <3>4. JobsFresh'
      <4>1. \A j \in Jobs : j > admitted => j \notin InFlight
        BY <2>0, <3>3 DEF Jobs
      <4>2. \A j \in Jobs : j > admitted' => Untouched(j)'
        BY <3>2, <4>1 DEF Accounted, JobsFresh, Untouched
      <4> QED BY <2>5, <3>1, <4>2 DEF JobsFresh, Working, Crash
    <3>5. ClipOwned'
      <4> SUFFICES ASSUME NEW j \in clips PROVE outcome'[j] \in Leaky
        BY <3>2 DEF ClipOwned
      <4>1. CASE outcome[j] \in Leaky
        BY <2>0, <3>2, <4>1 DEF Leaky
      <4>2. CASE outcome[j] \notin Leaky
        <5>1. job = j /\ workerPc \notin {"idle", "release"}
          BY <4>2 DEF Accounted, ClipOwned
        <5>2. j \in InFlight /\ outcome[j] = "none"
          BY <2>0, <5>1 DEF InFlight, Accounted, JobsFresh
        <5> QED BY <2>0, <3>2, <5>2 DEF Leaky
      <4> QED BY <4>1, <4>2
    <3>6. AlertXorCleared'
      BY <3>2 DEF Accounted, AlertXorCleared
    <3> QED BY <3>4, <3>5, <3>6 DEF Accounted
  <2>6. ASSUME NEW m \in Modes, SetMode(m) PROVE Accounted'
    BY <2>6 DEF SetMode, camVars, gateVars, workVars, resultVars, Accounted,
       JobsFresh, ClipOwned, AlertXorCleared, Untouched, Handing, Working
  <2>7. CASE UNCHANGED vars
    BY <2>7 DEF vars, camVars, gateVars, workVars, resultVars, Accounted,
       JobsFresh, ClipOwned, AlertXorCleared, Untouched, Handing, Working
  <2>8. CASE Handle /\ ~StartJob /\ ~Release
    BY <2>8, HandleAccounted
  <2> QED BY <2>2, <2>3, <2>4, <2>5, <2>6, <2>7, <2>8 DEF Next
<1>3. QED BY <1>1, <1>2, TypeCorrect, GateIsExclusive, PTL DEF SafetySpec

\* A clip on disk belongs to the breach in flight or to one of the three leaky
\* endings, for every number of cameras, breaches and crashes.
THEOREM ClipsOwned == SafetySpec => []ClipOwned
BY AccountedAlways, PTL DEF Accounted

\* The backend never gets both an alert and a cleared report of one breach.
THEOREM AlertedNeverCleared == SafetySpec => []AlertXorCleared
BY AccountedAlways, PTL DEF Accounted

-----------------------------------------------------------------------------
(* Switching off.                                                          *)

\* The cameras that have read the mode and not yet tried the gate.
AtGate == {c \in Cameras : camPc[c] = "gate"}

\* While the mode is and stays "off" nobody comes to the gate, and who leaves it is
\* admitted or not.
LEMMA OffStep ==
    ASSUME TypeOK, Next, mode = "off"
    PROVE  \/ admitted' = admitted /\ AtGate' \subseteq AtGate
           \/ /\ admitted' = admitted + 1
              /\ \E c \in AtGate : AtGate' = AtGate \ {c}
<1>0. camPc \in [Cameras -> CamPcs]  BY DEF TypeOK
<1>1. ASSUME NEW c \in Cameras, Submit(c)
      PROVE  \/ admitted' = admitted /\ AtGate' \subseteq AtGate
             \/ /\ admitted' = admitted + 1
                /\ \E d \in AtGate : AtGate' = AtGate \ {d}
  <2>1. CASE ReadMode(c)  BY <2>1 DEF ReadMode
  <2>2. CASE FindBusy(c)
    BY <1>0, <2>2 DEF FindBusy, AtGate, gateVars
  <2>3. CASE TakeGate(c)
    <3>1. camPc[c] = "gate" /\ camPc' = [camPc EXCEPT ![c] = "enqueue"]
          /\ admitted' = admitted + 1
      BY <2>3 DEF TakeGate
    <3>2. c \in AtGate /\ AtGate' = AtGate \ {c}  BY <1>0, <3>1 DEF AtGate
    <3>3. QED  BY <3>1, <3>2
  <2>4. CASE Enqueue(c)  BY <1>0, <2>4 DEF Enqueue, AtGate
  <2>5. QED  BY <1>1, <2>1, <2>2, <2>3, <2>4 DEF Submit
<1>2. ASSUME Handle PROVE admitted' = admitted /\ AtGate' = AtGate
  <2>1. admitted' = admitted /\ camPc' = camPc
    BY <1>2 DEF Handle, StartJob, CutClip, CutFails, CutRaises, JudgeNoAlert, JudgeTheft,
         DiscardClip, ReadClip, FileRaises, ReportCleared, PostAccepted, PostRejected,
         PostFails, Retry, Release, camVars, gateVars
  <2>2. QED  BY <2>1 DEF AtGate
<1>3. ASSUME NEW m \in Modes, SetMode(m) PROVE admitted' = admitted /\ AtGate' = AtGate
  BY <1>3 DEF SetMode, camVars, gateVars, AtGate
<1>4. ASSUME Crash PROVE admitted' = admitted /\ AtGate' = {}
  BY <1>4 DEF Crash, AtGate
<1>5. QED  BY <1>1, <1>2, <1>3, <1>4 DEF Next

\* Switching the alerts off ends them, whichever cameras had already read the mode:
\* what has been admitted and what still can be does not grow while the mode is "off"
\* (breach_pusher.py submit_breach).
THEOREM OffEndsAdmission == SafetySpec => OffAdmitsNoMore
<1>1. ASSUME TypeOK, Next, mode = "off" PROVE Exposure' <= Exposure
  <2>1. IsFiniteSet(Cameras) /\ admitted \in Nat
    BY <1>1, BreachAssumption DEF BreachAssumption, TypeOK
  <2>2. IsFiniteSet(AtGate) /\ Cardinality(AtGate) \in Nat
    BY <2>1, FS_Subset, FS_CardinalityType DEF AtGate
  <2>3. Exposure = admitted + Cardinality(AtGate)
        /\ Exposure' = admitted' + Cardinality(AtGate')
    BY DEF Exposure, AtGate
  <2>4. CASE admitted' = admitted /\ AtGate' \subseteq AtGate
    <3>1. IsFiniteSet(AtGate') /\ Cardinality(AtGate') <= Cardinality(AtGate)
      BY <2>2, <2>4, FS_Subset
    <3>2. Cardinality(AtGate') \in Nat  BY <3>1, FS_CardinalityType
    <3>3. QED  BY <2>1, <2>2, <2>3, <2>4, <3>1, <3>2
  <2>5. ASSUME admitted' = admitted + 1, NEW c \in AtGate, AtGate' = AtGate \ {c}
        PROVE  Exposure' <= Exposure
    <3>1. Cardinality(AtGate') = Cardinality(AtGate) - 1
      BY <2>2, <2>5, FS_RemoveElement
    <3>2. QED  BY <2>1, <2>2, <2>3, <2>5, <3>1
  <2>6. QED  BY <1>1, <2>4, <2>5, OffStep
<1>2. TypeOK /\ [Next]_vars
        => [mode = "off" /\ mode' = "off" => Exposure' <= Exposure]_vars
  BY <1>1
<1>3. QED  BY <1>2, TypeCorrect, PTL DEF SafetySpec, OffAdmitsNoMore

-----------------------------------------------------------------------------
\* Every behaviour of the pipeline is one of SingleFlight, seen through the
\* breaches in flight: threads, queue, failures and crashes add nothing to it.
THEOREM RefinesSingleFlight == SafetySpec => SF!SafetySpec
<1>1. Init => SF!Init
  BY DEF Init, SF!Init, InFlight
<1>2. /\ TypeOK /\ OneBreachInFlight /\ OneBreachInFlight' /\ [Next]_vars
      => [SF!Next]_(SF!vars)
  <2> SUFFICES ASSUME TypeOK, OneBreachInFlight, OneBreachInFlight', [Next]_vars
               PROVE  SF!Next \/ UNCHANGED <<admitted, InFlight>>
    BY DEF SF!vars
  <2>0. /\ camPc \in [Cameras -> CamPcs]
        /\ camJob \in [Cameras -> Jobs \cup {NoJob}]
        /\ \A c \in Cameras : camPc[c] = "enqueue" => camJob[c] \in Jobs
        /\ pending \in Seq(Jobs)
        /\ admitted \in 0..MaxJobs
    BY DEF TypeOK
  <2>1. ~busy => InFlight = {}
    BY DEF OneBreachInFlight, InFlight, Handing, Working
  <2>2. ~busy' => InFlight' = {}
    BY DEF OneBreachInFlight, InFlight, Handing, Working
  <2>3. ASSUME NEW c \in Cameras, Submit(c)
        PROVE  SF!Next \/ UNCHANGED <<admitted, InFlight>>
    <3>1. CASE ReadMode(c) \/ FindBusy(c)
      <4>1. \A d \in Cameras : camPc'[d] = "enqueue" <=> camPc[d] = "enqueue"
        BY <2>0, <3>1 DEF ReadMode, FindBusy
      <4> QED BY <3>1, <4>1 DEF ReadMode, FindBusy, InFlight, gateVars, workVars
    <3>2. CASE TakeGate(c)
      <4>1. /\ \A d \in Cameras : camPc'[d] = "enqueue" <=> d = c
            /\ camJob'[c] = admitted + 1 /\ admitted + 1 \in Jobs
            /\ pending' = <<>> /\ workerPc' = "idle"
        BY <2>0, <3>2, BreachAssumption
           DEF TakeGate, OneBreachInFlight, Handing, Working, workVars, Jobs,
               BreachAssumption
      <4>2. InFlight' = {admitted + 1}
        BY <4>1 DEF InFlight
      <4>3. InFlight = {} /\ admitted < MaxJobs /\ admitted' = admitted + 1
        BY <3>2, <2>1 DEF TakeGate
      <4> QED BY <4>2, <4>3 DEF SF!Next, SF!Admit
    <3>3. CASE Enqueue(c)
      <4>1. /\ pending = <<>> /\ workerPc = "idle"
            /\ \A d \in Cameras : camPc[d] = "enqueue" <=> d = c
        BY <3>3 DEF Enqueue, OneBreachInFlight, Handing, Working
      <4>2. /\ pending' = <<camJob[c]>> /\ workerPc' = "idle"
            /\ \A d \in Cameras : camPc'[d] # "enqueue"
            /\ admitted' = admitted
        BY <2>0, <3>3, <4>1 DEF Enqueue, workVars
      <4>3. InFlight = {camJob[c]}
        BY <2>0, <4>1 DEF InFlight
      <4>4. InFlight' = {camJob[c]}
        BY <2>0, <4>1, <4>2 DEF InFlight
      <4> QED BY <4>2, <4>3, <4>4
    <3> QED BY <2>3, <3>1, <3>2, <3>3 DEF Submit
  <2>4. CASE StartJob
    <3>1. workerPc = "idle" /\ pending # <<>> /\ Len(pending) <= 1
          /\ \A c \in Cameras : camPc[c] # "enqueue"
      BY <2>4 DEF StartJob, OneBreachInFlight, Handing, Working
    <3>2. /\ Head(pending) = pending[1] /\ Tail(pending) = <<>>
          /\ DOMAIN pending = {1}
      BY <2>0, <3>1, SingletonQueue
    <3>3. pending' = <<>>
      BY <2>4, <3>2 DEF StartJob
    <3>4. InFlight = {pending[1]}
      BY <2>0, <3>1, <3>2 DEF InFlight
    <3>5. /\ job' = pending[1] /\ workerPc' = "cut"
          /\ \A c \in Cameras : camPc'[c] # "enqueue"
          /\ admitted' = admitted
      BY <2>4, <3>1, <3>2 DEF StartJob, camVars
    <3>6. InFlight' = {pending[1]}
      BY <2>0, <3>2, <3>3, <3>5 DEF InFlight
    <3> QED BY <3>4, <3>5, <3>6
  <2>5. CASE Release \/ Crash
    <3>1. InFlight' = {} /\ admitted' = admitted
      BY <2>2, <2>5 DEF Release, Crash
    <3> QED BY <3>1 DEF SF!Next, SF!Finish
  <2>6. CASE Handle /\ ~StartJob /\ ~Release
    <3>1. /\ UNCHANGED <<camVars, gateVars>> /\ job' = job
          /\ workerPc # "idle" /\ workerPc' # "idle"
      BY <2>6 DEF Handle, CutClip, CutFails, CutRaises, JudgeNoAlert,
         JudgeTheft, DiscardClip, ReadClip, FileRaises, ReportCleared,
         PostAccepted, PostRejected, PostFails, Retry, EndWith
    <3> QED BY <3>1 DEF InFlight, camVars, gateVars
  <2>7. CASE UNCHANGED vars \/ \E m \in Modes : SetMode(m)
    BY <2>7 DEF SetMode, vars, camVars, gateVars, workVars, InFlight
  <2> QED BY <2>3, <2>4, <2>5, <2>6, <2>7 DEF Next
<1>3. QED BY <1>1, <1>2, TypeCorrect, GateIsExclusive, PTL
          DEF SafetySpec, SF!SafetySpec
=============================================================================
