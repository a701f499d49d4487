--------------------------- MODULE EdgeVerifyProofs ---------------------------
(***************************************************************************)
(* Proofs about EdgeVerify, for any uploads, however many, and any limits. *)
(***************************************************************************)
EXTENDS EdgeVerify, FiniteSetTheorems, SequenceTheorems, WellFoundedInduction, TLAPS

-----------------------------------------------------------------------------
(* Data.                                                                   *)

LEMMA LimitsTyped ==
    /\ MaxConcurrency \in Nat /\ MaxQueue \in Nat
    /\ Permits \in Nat /\ Permits > 0
BY EdgeAssumption DEF EdgeAssumption, Permits

\* A set of positions has a first.
LEMMA FirstPosition ==
    ASSUME NEW S \in SUBSET Nat, S # {}
    PROVE  Min(S) \in S
<1>1. PICK x \in S : \A y \in S : ~(<<y, x>> \in OpToRel(<, Nat))
  BY NatLessThanWellFounded, WFMin
<1>2. \A y \in S : x <= y
  <2> SUFFICES ASSUME NEW y \in S PROVE x <= y  OBVIOUS
  <2>1. x \in Nat /\ y \in Nat  OBVIOUS
  <2>2. ~(y < x)
    <3>1. <<y, x>>[1] = y /\ <<y, x>>[2] = x /\ <<y, x>> \in Nat \X Nat  BY <2>1
    <3>2. y < x => <<y, x>> \in OpToRel(<, Nat)  BY <3>1 DEF OpToRel
    <3>3. QED  BY <1>1, <3>2
  <2>3. QED  BY <2>1, <2>2
<1>3. \E z \in S : \A y \in S : z =< y  BY <1>1, <1>2
<1>4. QED  BY <1>3 DEF Min

\* What is left of a queue without repetitions once a place is taken out.
LEMMA TakenOut ==
    ASSUME NEW S, NEW s \in Seq(S), IsInjective(s), NEW i \in DOMAIN s
    PROVE  /\ RemoveAt(s, i) \in Seq(S)
           /\ IsInjective(RemoveAt(s, i))
           /\ ToSet(RemoveAt(s, i)) = ToSet(s) \ {s[i]}
<1> DEFINE a == SubSeq(s, 1, i - 1)
           b == SubSeq(s, i + 1, Len(s))
           t == a \o b
           n == Len(s)
<1>1. n \in Nat /\ DOMAIN s = 1..n /\ i \in 1..n /\ \A k \in 1..n : s[k] \in S
  OBVIOUS
<1>2. a \in Seq(S) /\ Len(a) = i - 1 /\ \A k \in 1..(i - 1) : a[k] = s[k]
  <2>1. \A k \in 1..(i - 1) : s[k] \in S  BY <1>1
  <2>2. 1 \in Int /\ i - 1 \in Int  BY <1>1
  <2>3. /\ a \in Seq(S) /\ Len(a) = (IF 1 <= i - 1 THEN (i - 1) - 1 + 1 ELSE 0)
        /\ \A k \in 1..((i - 1) - 1 + 1) : a[k] = s[1 + k - 1]
    BY <2>1, <2>2, SubSeqProperties
  <2>4. Len(a) = i - 1  BY <1>1, <2>3
  <2>5. ASSUME NEW k \in 1..(i - 1) PROVE a[k] = s[k]
    <3>1. k \in 1..((i - 1) - 1 + 1) /\ 1 + k - 1 = k  BY <1>1
    <3>2. QED  BY <2>3, <3>1
  <2>6. QED  BY <2>3, <2>4, <2>5
<1>3. b \in Seq(S) /\ Len(b) = n - i /\ \A k \in 1..(n - i) : b[k] = s[i + k]
  <2>1. \A k \in (i + 1)..n : s[k] \in S  BY <1>1
  <2>2. i + 1 \in Int /\ n \in Int  BY <1>1
  <2>3. /\ b \in Seq(S) /\ Len(b) = (IF i + 1 <= n THEN n - (i + 1) + 1 ELSE 0)
        /\ \A k \in 1..(n - (i + 1) + 1) : b[k] = s[(i + 1) + k - 1]
    BY <2>1, <2>2, SubSeqProperties
  <2>4. Len(b) = n - i  BY <1>1, <2>3
  <2>5. ASSUME NEW k \in 1..(n - i) PROVE b[k] = s[i + k]
    <3>1. k \in 1..(n - (i + 1) + 1) /\ (i + 1) + k - 1 = i + k  BY <1>1
    <3>2. QED  BY <2>3, <3>1
  <2>6. QED  BY <2>3, <2>4, <2>5
<1> HIDE DEF a, b
<1>4. t \in Seq(S) /\ Len(t) = n - 1
      /\ \A k \in 1..(n - 1) : t[k] = IF k < i THEN s[k] ELSE s[k + 1]
  <2>1. /\ t \in Seq(S) /\ Len(t) = Len(a) + Len(b)
        /\ \A k \in 1..(Len(a) + Len(b)) :
              t[k] = IF k <= Len(a) THEN a[k] ELSE b[k - Len(a)]
    BY <1>2, <1>3, ConcatProperties
  <2>2. Len(a) + Len(b) = n - 1  BY <1>1, <1>2, <1>3
  <2>3. ASSUME NEW k \in 1..(n - 1)
        PROVE  t[k] = IF k < i THEN s[k] ELSE s[k + 1]
    <3>1. t[k] = IF k <= i - 1 THEN a[k] ELSE b[k - (i - 1)]
      BY <1>2, <2>1, <2>2
    <3>2. CASE k < i
      <4>1. k \in 1..(i - 1)  BY <1>1, <3>2
      <4>2. QED  BY <1>2, <3>1, <3>2, <4>1
    <3>3. CASE ~(k < i)
      <4>1. k - (i - 1) \in 1..(n - i) /\ i + (k - (i - 1)) = k + 1 /\ ~(k <= i - 1)
        BY <1>1, <3>3
      <4>2. b[k - (i - 1)] = s[k + 1]  BY <1>3, <4>1
      <4>3. QED  BY <3>1, <3>3, <4>1, <4>2
    <3>4. QED  BY <3>2, <3>3
  <2>4. QED  BY <2>1, <2>2, <2>3
<1>5. RemoveAt(s, i) = t  BY DEF RemoveAt, a, b
<1> HIDE DEF t
<1>6. DOMAIN t = 1..(n - 1)  BY <1>4
<1>7. IsInjective(t)
  <2> SUFFICES ASSUME NEW j \in 1..(n - 1), NEW k \in 1..(n - 1), t[j] = t[k]
               PROVE  j = k
    BY <1>6 DEF IsInjective
  <2> DEFINE p(x) == IF x < i THEN x ELSE x + 1
  <2>1. t[j] = s[p(j)] /\ t[k] = s[p(k)]  BY <1>4
  <2>2. p(j) \in 1..n /\ p(k) \in 1..n  BY <1>1
  <2>3. p(j) = p(k)  BY <1>1, <2>1, <2>2 DEF IsInjective
  <2>4. QED  BY <1>1, <2>3
<1>8. ToSet(t) = ToSet(s) \ {s[i]}
  <2>1. ASSUME NEW x \in ToSet(t) PROVE x \in ToSet(s) \ {s[i]}
    <3>1. PICK k \in 1..(n - 1) : x = t[k]  BY <1>6 DEF ToSet
    <3>2. CASE k < i
      <4>1. x = s[k] /\ k \in 1..n /\ k # i  BY <1>1, <1>4, <3>1, <3>2
      <4>2. QED  BY <1>1, <4>1 DEF ToSet, IsInjective
    <3>3. CASE ~(k < i)
      <4>1. x = s[k + 1] /\ k + 1 \in 1..n /\ k + 1 # i
        BY <1>1, <1>4, <3>1, <3>3
      <4>2. QED  BY <1>1, <4>1 DEF ToSet, IsInjective
    <3>4. QED  BY <3>2, <3>3
  <2>2. ASSUME NEW x \in ToSet(s) \ {s[i]} PROVE x \in ToSet(t)
    <3>1. PICK k \in 1..n : x = s[k]  BY <1>1 DEF ToSet
    <3>2. k # i  BY <2>2, <3>1
    <3>3. CASE k < i
      <4>1. k \in 1..(n - 1)  BY <1>1, <3>3
      <4>2. t[k] = x  BY <1>4, <3>1, <3>3, <4>1
      <4>3. QED  BY <1>6, <4>1, <4>2 DEF ToSet
    <3>4. CASE ~(k < i)
      <4>1. k - 1 \in 1..(n - 1) /\ ~(k - 1 < i) /\ (k - 1) + 1 = k
        BY <1>1, <3>2, <3>4
      <4>2. t[k - 1] = x  BY <1>4, <3>1, <4>1
      <4>3. QED  BY <1>6, <4>1, <4>2 DEF ToSet
    <3>5. QED  BY <3>3, <3>4
  <2>3. QED  BY <2>1, <2>2
<1>9. QED  BY <1>4, <1>5, <1>7, <1>8

\* What a queue without repetitions is once a newcomer has joined it.
LEMMA Joined ==
    ASSUME NEW S, NEW s \in Seq(S), IsInjective(s), NEW x \in S, x \notin ToSet(s)
    PROVE  /\ Append(s, x) \in Seq(S)
           /\ IsInjective(Append(s, x))
           /\ ToSet(Append(s, x)) = ToSet(s) \cup {x}
<1> DEFINE t == Append(s, x)
           n == Len(s)
<1>1. n \in Nat /\ DOMAIN s = 1..n  OBVIOUS
<1>2. /\ t \in Seq(S) /\ Len(t) = n + 1 /\ DOMAIN t = 1..(n + 1)
      /\ \A k \in 1..n : t[k] = s[k]
      /\ t[n + 1] = x
  BY AppendProperties
<1> HIDE DEF t
<1>3. \A k \in 1..(n + 1) : k \in 1..n \/ k = n + 1  BY <1>1
<1>4. \A k \in 1..n : s[k] # x  BY <1>1 DEF ToSet
<1>5. IsInjective(t)
  BY <1>1, <1>2, <1>3, <1>4 DEF IsInjective
<1>6. ToSet(t) = ToSet(s) \cup {x}
  <2>1. ASSUME NEW y \in ToSet(t) PROVE y \in ToSet(s) \cup {x}
    BY <1>1, <1>2, <1>3, <2>1 DEF ToSet
  <2>2. ASSUME NEW y \in ToSet(s) PROVE y \in ToSet(t)
    <3>1. PICK k \in 1..n : y = s[k]  BY <1>1, <2>2 DEF ToSet
    <3>2. k \in 1..(n + 1) /\ t[k] = y  BY <1>1, <1>2, <3>1
    <3>3. QED  BY <1>2, <3>2 DEF ToSet
  <2>3. x \in ToSet(t)
    <3>1. n + 1 \in 1..(n + 1)  BY <1>1
    <3>2. QED  BY <1>2, <3>1 DEF ToSet
  <2>4. QED  BY <2>1, <2>2, <2>3
<1>7. QED  BY <1>2, <1>5, <1>6 DEF t

-----------------------------------------------------------------------------
(* The inductive invariant.                                                *)

Steps == {"new", "makedirs", "read", "context", "acquire", "woken", "verify", "embed",
          "unlink", "done"}

\* Steps in which a handler neither waits for the semaphore nor holds a permit.
Apart == Steps \ {"acquire", "woken", "verify"}

Holding == Verifying \cup Woken

\* A handler that has not made its file has none.
FilesAreMade == \A r \in files : at[r] \notin {"new", "makedirs"}

IInv ==
    /\ TypeOK /\ IsFiniteSet(Inside) /\ FilesAreMade
    /\ CountsExact /\ NoLostWakeup /\ FilesCleanedUp

LEMMA StepsTyped == ASSUME TypeOK PROVE at \in [Uploads -> Steps]
BY DEF TypeOK, Steps

LEMMA Sizes ==
    ASSUME IInv
    PROVE  /\ IsFiniteSet(Holding) /\ Cardinality(Holding) \in Nat
           /\ permits + Cardinality(Holding) = Permits
           /\ Cardinality(Inside) \in Nat /\ inflight = Cardinality(Inside)
           /\ permits \in Nat
<1>1. Holding \subseteq Inside  BY DEF Holding, Verifying, Woken, Inside
<1>2. IsFiniteSet(Inside) /\ IsFiniteSet(Holding)  BY <1>1, FS_Subset DEF IInv
<1>3. QED
  BY <1>2, FS_CardinalityType, LimitsTyped DEF IInv, CountsExact, Holding, TypeOK

\* Somebody sleeps in the queue if and only if a handler is at the step.
LEMMA SleepersQueued ==
    ASSUME IInv
    PROVE  Asleep # {} <=> \E u \in Uploads : at[u] = "acquire"
<1>1. ASSUME NEW i \in Asleep PROVE \E u \in Uploads : at[u] = "acquire"
  BY DEF Asleep, IInv, TypeOK
<1>2. ASSUME NEW u \in Uploads, at[u] = "acquire" PROVE Asleep # {}
  <2>1. u \in ToSet(waiters)  BY <1>2 DEF IInv, NoLostWakeup
  <2>2. PICK i \in DOMAIN waiters : waiters[i] = u  BY <2>1 DEF ToSet
  <2>3. QED  BY <1>2, <2>2 DEF Asleep
<1>3. QED  BY <1>1, <1>2

\* A handler that goes on apart from the semaphore leaves its state as it was.
LEMMA ApartStep ==
    ASSUME IInv, NEW r \in Uploads, at[r] \in Apart, NEW step \in Apart,
           Goto(r, step), UNCHANGED gateVars
    PROVE  /\ NoLostWakeup'
           /\ permits' + Cardinality(Verifying' \cup Woken') = Permits
           /\ at' \in [Uploads -> Steps]
           /\ at'[r] = step /\ \A u \in Uploads : u # r => at'[u] = at[u]
<1>1. at \in [Uploads -> Steps]  BY StepsTyped DEF IInv
<1>2. /\ at' \in [Uploads -> Steps]
      /\ at'[r] = step /\ \A u \in Uploads : u # r => at'[u] = at[u]
  BY <1>1 DEF Goto, Apart
<1>3. \A u \in Uploads : \A p \in {"acquire", "woken", "verify"} :
          at'[u] = p <=> at[u] = p
  BY <1>2 DEF Apart
<1>4. permits' = permits /\ waiters' = waiters  BY DEF gateVars
<1>5. Verifying' = Verifying /\ Woken' = Woken  BY <1>3 DEF Verifying, Woken
<1>6. Asleep' = Asleep
  <2>1. \A i \in DOMAIN waiters : waiters[i] \in Uploads  BY DEF IInv, TypeOK
  <2>2. QED  BY <1>3, <1>4, <2>1 DEF Asleep
<1>7. NoLostWakeup'
  BY <1>3, <1>4, <1>5, <1>6 DEF IInv, NoLostWakeup
<1>8. QED  BY <1>2, <1>4, <1>5, <1>7 DEF IInv, CountsExact

\* ... and what is inside is as it was when it was inside and stays there.
LEMMA InsideSame ==
    ASSUME IInv, \A u \in Uploads : at'[u] \in {"new", "done"} <=> at[u] \in {"new", "done"}
    PROVE  /\ Inside' = Inside /\ IsFiniteSet(Inside')
           /\ UNCHANGED inflight => inflight' = Cardinality(Inside')
<1>1. Inside' = Inside  BY DEF Inside
<1>2. QED  BY <1>1 DEF IInv, CountsExact

LEMMA InitInv == Init => IInv
<1> SUFFICES ASSUME Init PROVE IInv  OBVIOUS
<1>1. \A r \in Uploads : at[r] = "new"  BY DEF Init
<1>2. TypeOK
  <2>1. inflight \in 0..(MaxConcurrency + MaxQueue) /\ permits \in 0..Permits
    BY LimitsTyped DEF Init
  <2>2. waiters \in Seq(Uploads)  BY DEF Init
  <2>3. QED  BY <2>1, <2>2 DEF Init, TypeOK
<1>3. Inside = {} /\ Verifying \cup Woken = {}
  BY <1>1 DEF Inside, Verifying, Woken
<1>4. IsFiniteSet({}) /\ Cardinality({}) = 0  BY FS_EmptySet
<1>5. CountsExact
  <2>1. Cardinality(Inside) = 0 /\ Cardinality(Verifying \cup Woken) = 0
    BY <1>3, <1>4
  <2>2. inflight = 0 /\ permits = Permits  BY DEF Init
  <2>3. QED  BY <2>1, <2>2, LimitsTyped DEF CountsExact
<1>6. NoLostWakeup
  <2>1. waiters = <<>> /\ DOMAIN waiters = {}  BY DEF Init
  <2>2. Asleep = {} /\ ToSet(waiters) = {} /\ IsInjective(waiters)
    BY <2>1 DEF Asleep, ToSet, IsInjective
  <2>3. QED  BY <1>1, <2>2 DEF NoLostWakeup
<1>7. FilesAreMade /\ FilesCleanedUp  BY DEF Init, FilesAreMade, FilesCleanedUp
<1>8. QED  BY <1>2, <1>3, <1>4, <1>5, <1>6, <1>7 DEF IInv

-----------------------------------------------------------------------------
(* The steps apart from the semaphore.                                     *)

LEMMA ArriveInv == ASSUME IInv, NEW r \in Uploads, Arrive(r) PROVE IInv'
<1>1. at[r] = "new" /\ UNCHANGED <<permits, waiters, gateVars, files>>
  BY DEF Arrive, gateVars
<1>2. r \notin Inside  BY <1>1 DEF Inside
<1>3. CASE /\ inflight < MaxConcurrency + MaxQueue
           /\ Goto(r, "makedirs") /\ inflight' = inflight + 1 /\ UNCHANGED result
  <2>1. /\ NoLostWakeup' /\ permits' + Cardinality(Verifying' \cup Woken') = Permits
        /\ at' \in [Uploads -> Steps]
        /\ at'[r] = "makedirs" /\ \A u \in Uploads : u # r => at'[u] = at[u]
    BY <1>1, <1>3, ApartStep DEF Apart, Steps
  <2>2. Inside' = Inside \cup {r}  BY <2>1 DEF Inside
  <2>3. IsFiniteSet(Inside') /\ Cardinality(Inside') = Cardinality(Inside) + 1
    BY <1>2, <2>2, FS_AddElement DEF IInv
  <2>4. CountsExact'  BY <1>3, <2>1, <2>3 DEF IInv, CountsExact
  <2>5. inflight' \in 0..(MaxConcurrency + MaxQueue)
    BY <1>3, LimitsTyped DEF IInv, TypeOK
  <2>6. TypeOK'  BY <1>1, <1>3, <2>1, <2>5 DEF IInv, TypeOK, Steps
  <2>7. FilesAreMade' /\ FilesCleanedUp'
    BY <1>1, <1>3, <2>1, <2>2 DEF IInv, TypeOK, FilesAreMade, FilesCleanedUp
  <2>8. QED  BY <2>1, <2>3, <2>4, <2>6, <2>7 DEF IInv
<1>4. CASE Goto(r, "done") /\ End(r, "error") /\ UNCHANGED inflight
  <2>1. /\ NoLostWakeup' /\ permits' + Cardinality(Verifying' \cup Woken') = Permits
        /\ at' \in [Uploads -> Steps]
        /\ at'[r] = "done" /\ \A u \in Uploads : u # r => at'[u] = at[u]
    BY <1>1, <1>4, ApartStep DEF Apart, Steps
  <2>2. Inside' = Inside /\ IsFiniteSet(Inside') /\ inflight' = Cardinality(Inside')
    BY <1>1, <1>4, <2>1, InsideSame
  <2>3. TypeOK'  BY <1>1, <1>4, <2>1 DEF IInv, TypeOK, Steps, End
  <2>4. r \notin files  BY <1>1 DEF IInv, FilesAreMade
  <2>5. FilesAreMade' /\ FilesCleanedUp'
    BY <1>1, <1>4, <2>1, <2>2, <2>4 DEF IInv, TypeOK, FilesAreMade, FilesCleanedUp, End
  <2>6. QED  BY <2>1, <2>2, <2>3, <2>5 DEF IInv, CountsExact
<1>5. QED  BY <1>3, <1>4 DEF Arrive

\* The steps of a handler from one await to another, none of them the semaphore's.
LEMMA InnerInv ==
    ASSUME IInv, NEW r \in Uploads,
           OpenFile(r) \/ ReadBody(r) \/ ContextRaises(r) \/ Embed(r)
    PROVE  IInv'
<1>1. PICK step \in {"read", "context", "unlink"} :
        /\ Goto(r, step)
        /\ UNCHANGED result \/ \E how \in {"error", "verdict"} : End(r, how)
        /\ UNCHANGED <<inflight, permits, waiters, gateVars>>
        /\ files' \in {files, files \cup {r}}
        /\ at[r] \in {"makedirs", "read", "context", "embed"}
  BY DEF OpenFile, ReadBody, ContextRaises, Embed, gateVars
<1>2. /\ NoLostWakeup' /\ permits' + Cardinality(Verifying' \cup Woken') = Permits
      /\ at' \in [Uploads -> Steps]
      /\ at'[r] = step /\ \A u \in Uploads : u # r => at'[u] = at[u]
  BY <1>1, ApartStep DEF Apart, Steps
<1>3. Inside' = Inside /\ IsFiniteSet(Inside') /\ inflight' = Cardinality(Inside')
  BY <1>1, <1>2, InsideSame
<1>4. /\ result' \in [Uploads -> {"none", "verdict", "error", "kept_file"}]
      /\ \A u \in Uploads : u # r => result'[u] = result[u]
  BY <1>1 DEF IInv, TypeOK, End
<1>5. TypeOK'  BY <1>1, <1>2, <1>4 DEF IInv, TypeOK, Steps
<1>6. r \in Inside'  BY <1>1, <1>2 DEF Inside
<1>7. FilesAreMade' /\ FilesCleanedUp'
  BY <1>1, <1>2, <1>3, <1>4, <1>6 DEF IInv, TypeOK, FilesAreMade, FilesCleanedUp
<1>8. QED  BY <1>2, <1>3, <1>5, <1>7 DEF IInv, CountsExact

\* The ways out.
LEMMA LeaveInv ==
    ASSUME IInv, NEW r \in Uploads, OpenFails(r) \/ Unlink(r) \/ UnlinkRaises(r)
    PROVE  IInv'
<1>1. /\ Goto(r, "done") /\ inflight' = inflight - 1
      /\ at[r] \in {"makedirs", "unlink"}
      /\ UNCHANGED <<permits, waiters, gateVars>>
      /\ files' \subseteq files
      /\ \E how \in {"none", "verdict", "error", "kept_file"} : End(r, how)
  BY DEF OpenFails, Unlink, UnlinkRaises, Return, gateVars, IInv, TypeOK
<1>2. /\ NoLostWakeup' /\ permits' + Cardinality(Verifying' \cup Woken') = Permits
      /\ at' \in [Uploads -> Steps]
      /\ at'[r] = "done" /\ \A u \in Uploads : u # r => at'[u] = at[u]
  BY <1>1, ApartStep DEF Apart, Steps
<1>3. /\ result' \in [Uploads -> {"none", "verdict", "error", "kept_file"}]
      /\ \A u \in Uploads : u # r => result'[u] = result[u]
  BY <1>1 DEF IInv, TypeOK, End
<1>4. r \in Inside /\ Inside' = Inside \ {r}  BY <1>1, <1>2 DEF Inside
<1>5. IsFiniteSet(Inside') /\ Cardinality(Inside') = Cardinality(Inside) - 1
  BY <1>4, FS_RemoveElement DEF IInv
<1>6. CountsExact'  BY <1>1, <1>2, <1>5 DEF IInv, CountsExact
<1>7. inflight' \in 0..(MaxConcurrency + MaxQueue)
  <2>1. Cardinality(Inside') \in Nat  BY <1>5, FS_CardinalityType
  <2>2. inflight' \in Nat  BY <2>1, <1>6 DEF CountsExact
  <2>3. QED  BY <1>1, <2>2, LimitsTyped DEF IInv, TypeOK
<1>8. TypeOK'
  <2>1. files' \subseteq Uploads  BY <1>1 DEF IInv, TypeOK
  <2>2. QED  BY <1>1, <1>2, <1>3, <1>7, <2>1 DEF IInv, TypeOK, Steps
<1>9. r \notin files' \/ result'[r] = "kept_file"
  <2>1. CASE OpenFails(r)
    BY <2>1 DEF OpenFails, IInv, FilesAreMade
  <2>2. CASE Unlink(r)  BY <2>2 DEF Unlink
  <2>3. CASE UnlinkRaises(r)
    BY <2>3 DEF UnlinkRaises, Return, End, IInv, TypeOK
  <2>4. QED  BY <2>1, <2>2, <2>3
<1>10. FilesAreMade' /\ FilesCleanedUp'
  BY <1>1, <1>2, <1>3, <1>4, <1>9 DEF IInv, TypeOK, FilesAreMade, FilesCleanedUp
<1>11. QED  BY <1>2, <1>5, <1>6, <1>8, <1>10 DEF IInv

-----------------------------------------------------------------------------
(* The steps of the semaphore.                                             *)

LEMMA EnterInv == ASSUME IInv, NEW r \in Uploads, EnterGate(r) PROVE IInv'
<1>1. /\ at[r] = "context" /\ UNCHANGED <<result, inflight, files>>
      /\ waiters \in Seq(Uploads) /\ permits \in 0..Permits
  BY DEF EnterGate, IInv, TypeOK
<1>2. r \notin ToSet(waiters)  BY <1>1 DEF IInv, NoLostWakeup
<1>3. PICK step \in {"verify", "acquire"} : Goto(r, step)  BY DEF EnterGate
<1>4. /\ at' \in [Uploads -> Steps]
      /\ at'[r] = step /\ \A u \in Uploads : u # r => at'[u] = at[u]
  <2>1. at \in [Uploads -> Steps]  BY StepsTyped DEF IInv
  <2>2. QED  BY <1>3, <2>1 DEF Goto, Steps
<1>5. Inside' = Inside /\ IsFiniteSet(Inside') /\ inflight' = Cardinality(Inside')
  BY <1>1, <1>4, InsideSame
<1>6. FilesAreMade' /\ FilesCleanedUp'
  BY <1>1, <1>4, <1>5 DEF IInv, TypeOK, FilesAreMade, FilesCleanedUp
<1>7. CASE step = "verify"
  <2>1. permits > 0 /\ waiters = <<>> /\ permits' = permits - 1 /\ waiters' = waiters
    BY <1>1, <1>3, <1>4, <1>7 DEF EnterGate, Goto, IInv, TypeOK
  <2>2. Verifying' \cup Woken' = Holding \cup {r} /\ r \notin Holding
    BY <1>1, <1>4, <1>7 DEF Holding, Verifying, Woken
  <2>3. Cardinality(Verifying' \cup Woken') = Cardinality(Holding) + 1
    BY <2>2, FS_AddElement, Sizes
  <2>4. permits' + Cardinality(Verifying' \cup Woken') = Permits
    BY <2>1, <2>3, Sizes
  <2>5. permits' \in 0..Permits  BY <1>1, <2>1, LimitsTyped
  <2>6. TypeOK'  BY <1>1, <1>4, <2>1, <2>5 DEF IInv, TypeOK, Steps
  <2>7. Asleep' = {}  BY <2>1 DEF Asleep
  <2>8. NoLostWakeup'
    BY <1>1, <1>4, <1>7, <2>1, <2>7 DEF IInv, NoLostWakeup
  <2>9. QED  BY <1>5, <1>6, <2>4, <2>6, <2>8 DEF IInv, CountsExact
<1>8. CASE step = "acquire"
  <2>1. /\ ~(permits > 0 /\ waiters = <<>>)
        /\ permits' = permits /\ waiters' = Append(waiters, r)
    BY <1>1, <1>3, <1>4, <1>8 DEF EnterGate, Goto, IInv, TypeOK
  <2>2. Verifying' = Verifying /\ Woken' = Woken
    BY <1>1, <1>4, <1>8 DEF Verifying, Woken
  <2>3. /\ waiters' \in Seq(Uploads) /\ IsInjective(waiters')
        /\ ToSet(waiters') = ToSet(waiters) \cup {r}
    BY <1>1, <1>2, <2>1, Joined DEF IInv, NoLostWakeup
  <2>4. TypeOK'  BY <1>1, <1>4, <2>1, <2>3 DEF IInv, TypeOK, Steps
  <2>5. ToSet(waiters') = {u \in Uploads : at'[u] \in {"acquire", "woken"}}
    BY <1>1, <1>4, <1>8, <2>3 DEF IInv, NoLostWakeup
  <2>6. permits' > 0 => Woken' # {}
    <3> SUFFICES ASSUME permits > 0 PROVE Woken # {}  BY <2>1, <2>2
    <3>1. waiters # <<>>  BY <2>1
    <3>2. 1 \in DOMAIN waiters  BY <1>1, <3>1
    <3>3. waiters[1] \in ToSet(waiters)  BY <3>2 DEF ToSet
    <3>4. /\ waiters[1] \in Uploads
          /\ at[waiters[1]] = "acquire" \/ at[waiters[1]] = "woken"
      BY <3>3 DEF IInv, NoLostWakeup
    <3>5. CASE at[waiters[1]] = "acquire"
      BY <3>2, <3>5 DEF Asleep, IInv, NoLostWakeup
    <3>6. CASE at[waiters[1]] = "woken"  BY <3>4, <3>6 DEF Woken
    <3>7. QED  BY <3>4, <3>5, <3>6
  <2>7. NoLostWakeup'  BY <2>3, <2>5, <2>6 DEF NoLostWakeup
  <2>8. CountsExact'  BY <1>5, <2>1, <2>2 DEF IInv, CountsExact
  <2>9. QED  BY <1>5, <1>6, <2>4, <2>7, <2>8 DEF IInv
<1>9. QED  BY <1>7, <1>8

\* Waking the next: there is a sleeper and it gets a permit, or there is nobody or
\* nothing to give.
LEMMA Waking ==
    ASSUME IInv, NEW r \in Uploads, at[r] # "acquire",
           NEW step \in {"verify", "embed", "unlink"},
           NEW n \in Nat, WakeNext(r, step, n)
    PROVE  \/ /\ n > 0 /\ permits' = n - 1
              /\ \E w \in Uploads :
                   /\ at[w] = "acquire" /\ w # r
                   /\ at' = [at EXCEPT ![r] = step, ![w] = "woken"]
           \/ /\ n = 0 \/ \A u \in Uploads : at[u] # "acquire"
              /\ at' = [at EXCEPT ![r] = step] /\ permits' = n
<1>1. CASE n > 0 /\ Asleep # {}
  <2>1. Asleep \in SUBSET Nat
    <3>1. DOMAIN waiters = 1..Len(waiters) /\ Len(waiters) \in Nat
      BY DEF IInv, TypeOK
    <3>2. QED  BY <3>1 DEF Asleep
  <2>2. Min(Asleep) \in Asleep  BY <1>1, <2>1, FirstPosition
  <2>3. First \in Uploads /\ at[First] = "acquire"
    BY <2>2 DEF Asleep, First, IInv, TypeOK
  <2>4. permits' = n - 1 /\ at' = [at EXCEPT ![r] = step, ![First] = "woken"]
    BY <1>1 DEF WakeNext
  <2>5. QED  BY <1>1, <2>3, <2>4
<1>2. CASE ~(n > 0 /\ Asleep # {})
  <2>1. n = 0 \/ Asleep = {}  BY <1>2
  <2>2. n = 0 \/ \A u \in Uploads : at[u] # "acquire"  BY <2>1, SleepersQueued
  <2>3. permits' = n /\ at' = [at EXCEPT ![r] = step]  BY <1>2 DEF WakeNext, Goto
  <2>4. QED  BY <2>2, <2>3
<1>3. QED  BY <1>1, <1>2

\* Where the handlers are after a step that wakes.
LEMMA Moved ==
    ASSUME at \in [Uploads -> Steps], NEW r \in Uploads, NEW step \in Steps,
           \/ at' = [at EXCEPT ![r] = step]
           \/ \E w \in Uploads :
                /\ at[w] = "acquire" /\ w # r
                /\ at' = [at EXCEPT ![r] = step, ![w] = "woken"]
    PROVE  /\ at' \in [Uploads -> Steps] /\ at'[r] = step
           /\ \A u \in Uploads : u # r =>
                 at'[u] = at[u] \/ (at[u] = "acquire" /\ at'[u] = "woken")
<1>1. CASE at' = [at EXCEPT ![r] = step]
  <2>1. at' \in [Uploads -> Steps]  BY <1>1
  <2>2. at'[r] = step /\ \A u \in Uploads : u # r => at'[u] = at[u]  BY <1>1
  <2>3. QED  BY <2>1, <2>2
<1>2. ASSUME NEW w \in Uploads, at[w] = "acquire", w # r,
             at' = [at EXCEPT ![r] = step, ![w] = "woken"]
      PROVE  /\ at' \in [Uploads -> Steps] /\ at'[r] = step
             /\ \A u \in Uploads : u # r =>
                   at'[u] = at[u] \/ (at[u] = "acquire" /\ at'[u] = "woken")
  <2>1. "woken" \in Steps  BY DEF Steps
  <2>2. at' \in [Uploads -> Steps]  BY <1>2, <2>1
  <2>3. at'[r] = step /\ at'[w] = "woken"  BY <1>2
  <2>4. \A u \in Uploads : u # r /\ u # w => at'[u] = at[u]  BY <1>2
  <2>5. QED  BY <1>2, <2>2, <2>3, <2>4
<1>3. QED  BY <1>1, <1>2

\* What both steps that wake have in common: the files, the count and the queue of
\* those who wait for the permits.
LEMMA WakingInv ==
    ASSUME IInv, NEW r \in Uploads, NEW step \in {"verify", "embed", "unlink"},
           NEW n \in Nat, WakeNext(r, step, n),
           at[r] \in {"woken", "verify"},
           step = "verify" => at[r] = "woken" /\ n = permits,
           step # "verify" => at[r] = "verify" /\ n = permits + 1,
           waiters' \in Seq(Uploads), IsInjective(waiters'),
           ToSet(waiters') = ToSet(waiters) \ (IF step = "verify" THEN {r} ELSE {}),
           UNCHANGED <<inflight, files>>,
           UNCHANGED result \/ End(r, "error")
    PROVE  IInv'
<1>0. at \in [Uploads -> Steps]  BY StepsTyped DEF IInv
<1> DEFINE Wakes(w) == /\ at[w] = "acquire" /\ w # r
                       /\ at' = [at EXCEPT ![r] = step, ![w] = "woken"]
<1>1. \/ /\ n > 0 /\ permits' = n - 1
         /\ \E w \in Uploads : Wakes(w)
      \/ /\ n = 0 \/ \A u \in Uploads : at[u] # "acquire"
         /\ at' = [at EXCEPT ![r] = step] /\ permits' = n
  BY Waking
<1>2. /\ at' \in [Uploads -> Steps] /\ at'[r] = step
      /\ \A u \in Uploads : u # r =>
            at'[u] = at[u] \/ (at[u] = "acquire" /\ at'[u] = "woken")
  <2>1. step \in Steps  BY DEF Steps
  <2>2. QED  BY <1>0, <1>1, <2>1, Moved
<1>3. Inside' = Inside /\ IsFiniteSet(Inside') /\ inflight' = Cardinality(Inside')
  BY <1>2, InsideSame
<1>4. /\ result' \in [Uploads -> {"none", "verdict", "error", "kept_file"}]
      /\ \A u \in Uploads : u # r => result'[u] = result[u]
  BY DEF IInv, TypeOK, End
<1>5. FilesAreMade' /\ FilesCleanedUp'
  <2>1. r \in Inside  BY DEF Inside
  <2>2. QED
    BY <1>2, <1>3, <1>4, <2>1 DEF IInv, TypeOK, FilesAreMade, FilesCleanedUp
<1>6. permits' \in Nat /\ permits' + Cardinality(Verifying' \cup Woken') = Permits
  <2>1. /\ r \in Holding
        /\ IsFiniteSet(Holding \ {r})
        /\ Cardinality(Holding \ {r}) = Cardinality(Holding) - 1
    <3>1. r \in Holding  BY DEF Holding, Verifying, Woken
    <3>2. QED  BY <3>1, Sizes, FS_RemoveElement
  <2>2. CASE n > 0 /\ permits' = n - 1 /\ \E w \in Uploads : Wakes(w)
    <3>1. PICK w \in Uploads : Wakes(w)  BY <2>2
    <3>2. at'[w] = "woken" /\ \A u \in Uploads : u # r /\ u # w => at'[u] = at[u]
      BY <1>0, <3>1
    <3>3. w \notin Holding  BY <3>1 DEF Holding, Verifying, Woken
    <3>4. CASE step = "verify"
      <4>1. Verifying' \cup Woken' = Holding \cup {w}
        BY <1>2, <3>1, <3>2, <3>4 DEF Holding, Verifying, Woken
      <4>2. Cardinality(Holding \cup {w}) = Cardinality(Holding) + 1
        BY <3>3, Sizes, FS_AddElement
      <4>3. Cardinality(Verifying' \cup Woken') = Cardinality(Holding) + 1
        BY <4>1, <4>2
      <4>4. permits' = permits - 1 /\ permits' \in Nat  BY <2>2, <3>4
      <4>5. QED  BY <4>3, <4>4, Sizes
    <3>5. CASE step # "verify"
      <4>1. Verifying' \cup Woken' = (Holding \ {r}) \cup {w}
        BY <1>2, <3>1, <3>2, <3>5 DEF Holding, Verifying, Woken
      <4>2. Cardinality((Holding \ {r}) \cup {w}) = Cardinality(Holding \ {r}) + 1
        BY <2>1, <3>3, FS_AddElement
      <4>3. Cardinality(Verifying' \cup Woken') = Cardinality(Holding \ {r}) + 1
        BY <4>1, <4>2
      <4>4. Cardinality(Holding \ {r}) + 1 = Cardinality(Holding)  BY <2>1, Sizes
      <4>5. permits' = permits  BY <2>2, <3>5, Sizes
      <4>6. QED  BY <4>3, <4>4, <4>5, Sizes
    <3>6. QED  BY <3>4, <3>5
  <2>3. CASE at' = [at EXCEPT ![r] = step] /\ permits' = n
    <3>1. \A u \in Uploads : u # r => at'[u] = at[u]  BY <1>0, <2>3
    <3>2. CASE step = "verify"
      <4>1. Verifying' \cup Woken' = Holding
        BY <1>2, <3>1, <3>2 DEF Holding, Verifying, Woken
      <4>2. QED  BY <2>3, <3>2, <4>1, Sizes
    <3>3. CASE step # "verify"
      <4>1. Verifying' \cup Woken' = Holding \ {r}
        BY <1>2, <3>1, <3>3 DEF Holding, Verifying, Woken
      <4>2. Cardinality(Verifying' \cup Woken') = Cardinality(Holding) - 1
        BY <2>1, <4>1
      <4>3. permits' = permits + 1  BY <2>3, <3>3
      <4>4. QED  BY <4>2, <4>3, Sizes
    <3>4. QED  BY <3>2, <3>3
  <2>4. QED  BY <1>1, <2>2, <2>3
<1>7. permits' \in 0..Permits
  <2>1. Verifying' \cup Woken' \subseteq Inside'  BY DEF Verifying, Woken, Inside
  <2>2. Cardinality(Verifying' \cup Woken') \in Nat
    BY <1>3, <2>1, FS_Subset, FS_CardinalityType
  <2>3. QED  BY <1>6, <2>2, LimitsTyped
<1>8. TypeOK'  BY <1>2, <1>4, <1>7 DEF IInv, TypeOK, Steps
<1>9. ToSet(waiters') = {u \in Uploads : at'[u] \in {"acquire", "woken"}}
  <2>1. ToSet(waiters) = {u \in Uploads : at[u] \in {"acquire", "woken"}}
    BY DEF IInv, NoLostWakeup
  <2>2. QED  BY <1>2, <2>1
<1>10. permits' > 0 /\ Asleep' # {} => Woken' # {}
  <2> SUFFICES ASSUME permits' > 0, NEW i \in Asleep' PROVE Woken' # {}  OBVIOUS
  <2>1. waiters'[i] \in Uploads /\ at'[waiters'[i]] = "acquire"  BY DEF Asleep
  <2>2. at[waiters'[i]] = "acquire"  BY <1>2, <2>1
  <2>3. PICK w \in Uploads : Wakes(w)  BY <1>1, <2>1, <2>2
  <2>4. at'[w] = "woken"  BY <1>0, <2>3
  <2>5. QED  BY <2>4 DEF Woken
<1>11. NoLostWakeup'  BY <1>9, <1>10 DEF NoLostWakeup
<1>12. QED  BY <1>3, <1>5, <1>6, <1>8, <1>11 DEF IInv, CountsExact

LEMMA ResumeInv == ASSUME IInv, NEW r \in Uploads, Resume(r) PROVE IInv'
<1>1. /\ at[r] = "woken" /\ waiters' = Without(r)
      /\ WakeNext(r, "verify", permits) /\ UNCHANGED <<result, inflight, files>>
  BY DEF Resume
<1>2. r \in ToSet(waiters)  BY <1>1 DEF IInv, NoLostWakeup
<1>3. \E i \in DOMAIN waiters : waiters[i] = r  BY <1>2 DEF ToSet
<1>4. PICK i \in DOMAIN waiters : waiters[i] = r /\ waiters' = RemoveAt(waiters, i)
  BY <1>1, <1>3 DEF Without
<1>5. /\ waiters' \in Seq(Uploads) /\ IsInjective(waiters')
      /\ ToSet(waiters') = ToSet(waiters) \ {r}
  BY <1>4, TakenOut DEF IInv, TypeOK, NoLostWakeup
<1>6. QED  BY <1>1, <1>5, Sizes, WakingInv

LEMMA ReleaseInv ==
    ASSUME IInv, NEW r \in Uploads, Verified(r) \/ VerifyRaises(r)
    PROVE  IInv'
<1>1. PICK step \in {"embed", "unlink"} : Release(r, step)
  BY DEF Verified, VerifyRaises
<1>2. /\ at[r] = "verify" /\ UNCHANGED <<inflight, files>>
      /\ UNCHANGED result \/ End(r, "error")
  BY DEF Verified, VerifyRaises
<1>3. WakeNext(r, step, permits + 1) /\ waiters' = waiters  BY <1>1 DEF Release
<1>4. /\ waiters' \in Seq(Uploads) /\ IsInjective(waiters')
      /\ ToSet(waiters') = ToSet(waiters) \ {}
  BY <1>3 DEF IInv, TypeOK, NoLostWakeup
<1>5. permits + 1 \in Nat  BY Sizes
<1>6. QED  BY <1>2, <1>3, <1>4, <1>5, WakingInv

LEMMA StepInv == IInv /\ [Next]_vars => IInv'
<1> SUFFICES ASSUME IInv, [Next]_vars PROVE IInv'  OBVIOUS
<1>1. ASSUME NEW r \in Uploads, Arrive(r) PROVE IInv'  BY <1>1, ArriveInv
<1>2. ASSUME NEW r \in Uploads, Handler(r) PROVE IInv'
  BY <1>2, InnerInv, LeaveInv, EnterInv, ResumeInv, ReleaseInv DEF Handler
<1>3. CASE UNCHANGED vars
  <2>1. UNCHANGED <<at, result, inflight, permits, waiters, files>>
    BY <1>3 DEF vars, gateVars
  <2>2. QED
    BY <2>1 DEF IInv, TypeOK, Inside, FilesAreMade, CountsExact, NoLostWakeup,
                FilesCleanedUp, Verifying, Woken, Asleep
<1>4. QED  BY <1>1, <1>2, <1>3 DEF Next

\* The inductive invariant holds throughout.
THEOREM EdgeInvariant == Spec => []IInv
<1>1. Init => IInv  BY InitInv
<1>2. IInv /\ [Next]_vars => IInv'  BY StepInv
<1>3. QED  BY <1>1, <1>2, PTL DEF Spec

-----------------------------------------------------------------------------
(* What follows from it.                                                   *)

\* Every variable keeps its type: no more uploads are under way than the limits
\* allow (verify.py edge_clip_upload).
THEOREM EdgeTypeCorrect == Spec => []TypeOK
<1>1. IInv => TypeOK  BY DEF IInv
<1>2. QED  BY <1>1, EdgeInvariant, PTL

\* On every path, raised exceptions included, the admission count and the permits are
\* given back (verify.py edge_clip_upload, the finally blocks and async with).
THEOREM CountsAreExact == Spec => []CountsExact
<1>1. IInv => CountsExact  BY DEF IInv
<1>2. QED  BY <1>1, EdgeInvariant, PTL

\* No wakeup is lost, whatever handlers run between a release and the moment the woken
\* one goes on (verify.py edge_clip_upload, async with gate).
THEOREM NoWakeupIsLost == Spec => []NoLostWakeup
<1>1. IInv => NoLostWakeup  BY DEF IInv
<1>2. QED  BY <1>1, EdgeInvariant, PTL

\* No temporary file outlives its handler (verify.py edge_clip_upload, finally).
THEOREM FilesAreCleanedUp == Spec => []FilesCleanedUp
<1>1. IInv => FilesCleanedUp  BY DEF IInv
<1>2. QED  BY <1>1, EdgeInvariant, PTL

-----------------------------------------------------------------------------
(* The endpoint implements the pool, as far as safety goes.                *)

\* What each step is for the pool.
LEMMA StageOf ==
    ASSUME NEW r \in Uploads, at[r] \in Steps
    PROVE  /\ at[r] = "new" => Stage(r) = "outside"
           /\ at[r] \in {"makedirs", "read", "context", "acquire", "woken"}
                => Stage(r) = "admitted"
           /\ at[r] = "verify" => Stage(r) = "served"
           /\ at[r] \in {"embed", "unlink"} => Stage(r) = "finished"
           /\ at[r] = "done" => Stage(r) = "left"
BY DEF Stage, Steps

\* The pool counts as the endpoint does.
LEMMA SameCardinality == \A S : Pool!Cardinality(S) = Cardinality(S)
BY DEF Pool!Cardinality, Cardinality

\* The pool's sets are the endpoint's.
LEMMA StageSets ==
    ASSUME IInv
    PROVE  /\ Pool!In("served") = Verifying
           /\ Uploads \ (Pool!In("outside") \cup Pool!In("left")) = Inside
<1>1. \A r \in Uploads : at[r] \in Steps  BY StepsTyped DEF IInv
<1>2. \A r \in Uploads :
        /\ Stage(r) = "served" <=> at[r] = "verify"
        /\ Stage(r) \in {"outside", "left"} <=> at[r] \in {"new", "done"}
  BY <1>1, StageOf DEF Steps
<1>3. \A s : Pool!In(s) = {r \in Uploads : Stage(r) = s}  BY DEF Pool!In
<1>4. QED  BY <1>2, <1>3 DEF Verifying, Inside

\* How a handler's step moves it, and that it moves the others at most from their
\* sleep.
LEMMA Moves ==
    ASSUME IInv, NEW r \in Uploads, Arrive(r) \/ Handler(r)
    PROVE  /\ \A u \in Uploads : u # r =>
                 at'[u] = at[u] \/ (at[u] = "acquire" /\ at'[u] = "woken")
           /\ \/ /\ at[r] = "new" /\ at'[r] = "makedirs"
                 /\ inflight < MaxConcurrency + MaxQueue
              \/ at[r] = "new" /\ at'[r] = "done"
              \/ at[r] \in {"makedirs", "read", "context"}
                 /\ at'[r] \in {"read", "context", "acquire", "unlink", "done"}
              \/ at[r] = "context" /\ at'[r] = "verify" /\ permits > 0
              \/ at[r] = "woken" /\ at'[r] = "verify"
              \/ at[r] = "verify" /\ at'[r] \in {"embed", "unlink"}
              \/ at[r] = "embed" /\ at'[r] = "unlink"
              \/ at[r] = "unlink" /\ at'[r] = "done"
<1>0. at \in [Uploads -> Steps]  BY StepsTyped DEF IInv
<1>1. ASSUME NEW step \in Steps, Goto(r, step)
      PROVE  at'[r] = step /\ \A u \in Uploads : u # r => at'[u] = at[u]
  BY <1>0, <1>1 DEF Goto
<1>2. CASE Arrive(r)
  BY <1>1, <1>2 DEF Arrive, Steps
<1>3. CASE OpenFile(r) \/ OpenFails(r) \/ ReadBody(r) \/ ContextRaises(r)
  BY <1>1, <1>3 DEF OpenFile, OpenFails, ReadBody, ContextRaises, Return, Steps
<1>4. CASE EnterGate(r)
  BY <1>1, <1>4 DEF EnterGate, Steps
<1>5. CASE Embed(r) \/ Unlink(r) \/ UnlinkRaises(r)
  BY <1>1, <1>5 DEF Embed, Unlink, UnlinkRaises, Return, Steps
<1>6. ASSUME NEW step \in {"verify", "embed", "unlink"}, NEW n \in Nat,
             at[r] # "acquire", WakeNext(r, step, n)
      PROVE  /\ at'[r] = step
             /\ \A u \in Uploads : u # r =>
                   at'[u] = at[u] \/ (at[u] = "acquire" /\ at'[u] = "woken")
  <2>1. \/ at' = [at EXCEPT ![r] = step]
        \/ \E w \in Uploads : /\ at[w] = "acquire" /\ w # r
                             /\ at' = [at EXCEPT ![r] = step, ![w] = "woken"]
    BY <1>6, Waking
  <2>2. step \in Steps  BY DEF Steps
  <2>3. QED  BY <1>0, <2>1, <2>2, Moved
<1>7. permits \in Nat /\ permits + 1 \in Nat  BY Sizes
<1>8. CASE Resume(r)  BY <1>6, <1>7, <1>8 DEF Resume
<1>9. CASE Verified(r) \/ VerifyRaises(r)
  BY <1>6, <1>7, <1>9 DEF Verified, VerifyRaises, Release
<1>10. QED  BY <1>2, <1>3, <1>4, <1>5, <1>8, <1>9 DEF Handler

\* Every step of a handler is one of the pool's or leaves the pool as it is.
LEMMA PoolStep ==
    ASSUME IInv, IInv', NEW r \in Uploads, Arrive(r) \/ Handler(r)
    PROVE  Pool!Next \/ UNCHANGED Pool!vars
<1> DEFINE S == [u \in Uploads |-> Stage(u)]
<1>1. \A u \in Uploads : at[u] \in Steps /\ at'[u] \in Steps
  BY StepsTyped DEF IInv, TypeOK, Steps
<1>2. \A u \in Uploads :
        /\ at'[u] = "new" => Stage(u)' = "outside"
        /\ at'[u] \in {"makedirs", "read", "context", "acquire", "woken"}
             => Stage(u)' = "admitted"
        /\ at'[u] = "verify" => Stage(u)' = "served"
        /\ at'[u] \in {"embed", "unlink"} => Stage(u)' = "finished"
        /\ at'[u] = "done" => Stage(u)' = "left"
  BY <1>1 DEF Stage, Steps
<1>3. \A u \in Uploads : u # r => Stage(u)' = Stage(u)
  <2> SUFFICES ASSUME NEW u \in Uploads, u # r PROVE Stage(u)' = Stage(u)  OBVIOUS
  <2>1. CASE at'[u] = at[u]  BY <2>1 DEF Stage
  <2>2. CASE at[u] = "acquire" /\ at'[u] = "woken"  BY <1>1, <1>2, <2>2, StageOf
  <2>3. QED  BY <2>1, <2>2, Moves
<1>4. ASSUME NEW to, Stage(r)' = to PROVE S' = [S EXCEPT ![r] = to]
  BY <1>3, <1>4
<1>5. /\ Pool!Cardinality(Pool!In("served")) = Cardinality(Verifying)
      /\ Pool!Cardinality(Uploads \ (Pool!In("outside") \cup Pool!In("left"))) = inflight
  BY StageSets, Sizes, SameCardinality
<1>6. ASSUME permits > 0 \/ at[r] = "woken"
      PROVE  Cardinality(Verifying) < Permits
  <2>1. /\ IsFiniteSet(Holding) /\ Verifying \subseteq Holding
        /\ Cardinality(Verifying) <= Cardinality(Holding)
        /\ Cardinality(Verifying) = Cardinality(Holding) => Verifying = Holding
        /\ Cardinality(Verifying) \in Nat
    BY Sizes, FS_Subset, FS_CardinalityType DEF Holding
  <2>2. CASE permits > 0  BY <2>1, <2>2, Sizes, LimitsTyped
  <2>3. CASE at[r] = "woken"
    <3>1. r \in Holding /\ r \notin Verifying  BY <2>3 DEF Holding, Verifying, Woken
    <3>2. Cardinality(Verifying) < Cardinality(Holding)  BY <2>1, <3>1, Sizes
    <3>3. QED  BY <2>1, <3>2, Sizes, LimitsTyped
  <2>4. QED  BY <1>6, <2>2, <2>3
<1>7. S[r] = Stage(r)  OBVIOUS
<1>8. CASE at[r] = "new" /\ at'[r] = "makedirs" /\ inflight < MaxConcurrency + MaxQueue
  <2>1. S[r] = "outside" /\ S' = [S EXCEPT ![r] = "admitted"]
    BY <1>1, <1>2, <1>4, <1>8, StageOf
  <2>2. Pool!Become(r, "outside", "admitted")  BY <2>1 DEF Pool!Become
  <2>3. Pool!Admit(r)  BY <1>5, <1>8, <2>2 DEF Pool!Admit
  <2>4. QED  BY <2>3 DEF Pool!Next
<1>9. CASE at[r] = "new" /\ at'[r] = "done"
  <2>1. S[r] = "outside" /\ S' = [S EXCEPT ![r] = "left"]
    BY <1>1, <1>2, <1>4, <1>9, StageOf
  <2>2. Pool!Refuse(r)  BY <2>1 DEF Pool!Become, Pool!Refuse
  <2>3. QED  BY <2>2 DEF Pool!Next
<1>10. CASE /\ at[r] \in {"makedirs", "read", "context"}
            /\ at'[r] \in {"read", "context", "acquire", "unlink", "done"}
  <2>1. S[r] = "admitted"  BY <1>1, <1>10, StageOf
  <2>2. CASE at'[r] \in {"read", "context", "acquire"}
    <3>1. S' = [S EXCEPT ![r] = "admitted"]  BY <1>2, <1>4, <2>2
    <3>2. S' = S  BY <2>1, <3>1
    <3>3. QED  BY <3>2 DEF Pool!vars
  <2>3. CASE at'[r] = "unlink"
    <3>1. S' = [S EXCEPT ![r] = "finished"]  BY <1>2, <1>4, <2>3
    <3>2. Pool!Finish(r)  BY <2>1, <3>1 DEF Pool!Become, Pool!Finish
    <3>3. QED  BY <3>2 DEF Pool!Next
  <2>4. CASE at'[r] = "done"
    <3>1. S' = [S EXCEPT ![r] = "left"]  BY <1>2, <1>4, <2>4
    <3>2. Pool!Leave(r)  BY <2>1, <3>1 DEF Pool!Become, Pool!Leave
    <3>3. QED  BY <3>2 DEF Pool!Next
  <2>5. QED  BY <1>10, <2>2, <2>3, <2>4
<1>11. CASE /\ at'[r] = "verify"
            /\ (at[r] = "context" /\ permits > 0) \/ at[r] = "woken"
  <2>1. S[r] = "admitted" /\ S' = [S EXCEPT ![r] = "served"]
    BY <1>1, <1>2, <1>4, <1>11, StageOf
  <2>2. Pool!Become(r, "admitted", "served")  BY <2>1 DEF Pool!Become
  <2>3. Pool!Serve(r)  BY <1>5, <1>6, <1>11, <2>2 DEF Pool!Serve
  <2>4. QED  BY <2>3 DEF Pool!Next
<1>12. CASE at[r] = "verify" /\ at'[r] \in {"embed", "unlink"}
  <2>1. S[r] = "served" /\ S' = [S EXCEPT ![r] = "finished"]
    BY <1>1, <1>2, <1>4, <1>12, StageOf
  <2>2. Pool!Finish(r)  BY <2>1 DEF Pool!Become, Pool!Finish
  <2>3. QED  BY <2>2 DEF Pool!Next
<1>13. CASE at[r] = "embed" /\ at'[r] = "unlink"
  <2>1. S[r] = "finished" /\ S' = [S EXCEPT ![r] = "finished"]
    BY <1>1, <1>2, <1>4, <1>13, StageOf
  <2>2. S' = S  BY <2>1
  <2>3. QED  BY <2>2 DEF Pool!vars
<1>14. CASE at[r] = "unlink" /\ at'[r] = "done"
  <2>1. S[r] = "finished" /\ S' = [S EXCEPT ![r] = "left"]
    BY <1>1, <1>2, <1>4, <1>14, StageOf
  <2>2. Pool!Leave(r)  BY <2>1 DEF Pool!Become, Pool!Leave
  <2>3. QED  BY <2>2 DEF Pool!Next
<1>15. QED
  BY <1>8, <1>9, <1>10, <1>11, <1>12, <1>13, <1>14, Moves

\* Of the uploads it admits, a bounded number, the endpoint serves at most as many at
\* once as it has permits, each at most once and after its admission (verify.py
\* edge_clip_upload).  That every one of them leaves is the part of ImplementsPool
\* that is left to TLC.
THEOREM ImplementsPoolSafely == Spec => Pool!Init /\ [][Pool!Next]_(Pool!vars)
<1>1. Init => Pool!Init
  <2> SUFFICES ASSUME Init PROVE Pool!Init  OBVIOUS
  <2>1. \A r \in Uploads : Stage(r) = "outside"  BY DEF Init, Stage
  <2>2. QED  BY <2>1 DEF Pool!Init
<1>2. IInv /\ IInv' /\ [Next]_vars => [Pool!Next]_(Pool!vars)
  <2> SUFFICES ASSUME IInv, IInv', [Next]_vars
               PROVE  Pool!Next \/ UNCHANGED Pool!vars
    OBVIOUS
  <2>1. CASE Next  BY <2>1, PoolStep DEF Next
  <2>2. CASE UNCHANGED vars
    BY <2>2 DEF vars, Pool!vars, Stage
  <2>3. QED  BY <2>1, <2>2
<1>3. QED  BY <1>1, <1>2, EdgeInvariant, PTL DEF Spec
=============================================================================
