--------------------------- MODULE ScanScheduler ---------------------------
(***************************************************************************)
(* Which person a camera worker hands to the VLM, and when: the scan tick  *)
(* of _process_frame (camera_worker.py) with its interval, its per-person  *)
(* cooldown and the pruning of the cooldown table, in front of             *)
(* submit_breach, which drops the breach while another one is handled.     *)
(*                                                                         *)
(* Time is a count of ticks; a person is a tracker id.                     *)
(***************************************************************************)
EXTENDS Integers

CONSTANTS Persons,
          MaxRisk,        \* risks at or above the scan floor are 1..MaxRisk
          Interval,       \* live_scan_interval_sec
          Cooldowns,      \* values of live_scan_person_cooldown_sec looked at
          StaleAfter,     \* age at which the cooldown table is pruned: 300 s
          CleanupEvery,   \* frames between two prunings
          MaxTime         \* bound on the clock

ASSUME ScanAssumption ==
    /\ MaxRisk \in Nat \ {0} /\ Interval \in Nat
    /\ Cooldowns \subseteq Nat /\ StaleAfter \in Nat /\ CleanupEvery \in Nat
    /\ MaxTime \in Nat

Never == -1
Times == 0..MaxTime

VARIABLES
    cooldown,    \* live_scan_person_cooldown_sec, as the node was started with
    now,
    lastScan,    \* _last_scan
    scanned,     \* _scan_last_by_tid
    frames,      \* frames since the last cleanup
    busy,        \* breach_pusher._busy
    pushing,     \* the breach mode is node_push
    verified     \* history: per person, when submit_breach last took one

scanVars == <<cooldown, now, lastScan, scanned, frames, busy, pushing, verified>>

ScanTypeOK ==
    /\ cooldown \in Cooldowns
    /\ now \in Times
    /\ lastScan \in Times \cup {Never}
    /\ scanned \in [Persons -> Times \cup {Never}]
    /\ frames \in 0..CleanupEvery
    /\ busy \in BOOLEAN /\ pushing \in BOOLEAN
    /\ verified \in [Persons -> Times \cup {Never}]

ScanInit ==
    /\ cooldown \in Cooldowns
    /\ now = 0
    /\ lastScan = Never
    /\ scanned = [p \in Persons |-> Never]
    /\ frames = 0
    /\ busy = FALSE /\ pushing = TRUE
    /\ verified = [p \in Persons |-> Never]

\* Mutant of Pruned: the table follows the persons in view, as _prev_raw does.
PrunedToView(view) ==
    [p \in Persons |-> IF p \in view THEN scanned[p] ELSE Never]

\* The cooldown table without its stale entries.
Pruned(view) ==
    [p \in Persons |-> IF now - scanned[p] > StaleAfter THEN Never
                       ELSE scanned[p]]

\* Mutant of Cooled: the camera's interval stands in for the cooldown.
CooledByInterval(table, p) == table[p] = Never \/ now - table[p] >= Interval

\* Person p is out of its cooldown.
Cooled(table, p) == table[p] = Never \/ now - table[p] >= cooldown

\* Mutant of Due: no interval.
DueAlways == TRUE

\* The camera's interval is over.
Due == lastScan = Never \/ now - lastScan >= Interval

\* The scan hands p over: the camera's and the person's clocks are set, and
\* submit_breach takes the breach or, being busy or off, drops it.
HandOver(p, table) ==
    /\ lastScan' = now
    /\ scanned' = [table EXCEPT ![p] = now]
    /\ IF busy \/ ~pushing
       THEN UNCHANGED <<busy, verified>>
       ELSE busy' = TRUE /\ verified' = [verified EXCEPT ![p] = now]

\* Mutant of Counted: the cleanup does not note when it ran.
CountedOn(cleanup) == frames' = frames + 1

Counted(cleanup) == frames' = IF cleanup THEN 0 ELSE frames + 1

\* One analysed frame: view holds the candidates (at or above the floor and no
\* mannequin), risk orders them.  The cleanup comes before the scan.
Frame(view, risk) ==
    LET cleanup == frames = CleanupEvery
        table == IF cleanup THEN Pruned(view) ELSE scanned
        eligible == {p \in view : Cooled(table, p)}
    IN  /\ Counted(cleanup)
        /\ \/ /\ Due
              /\ \E p \in eligible :
                    /\ \A q \in eligible : risk[q] <= risk[p]
                    /\ HandOver(p, table)
           \/ /\ ~Due \/ eligible = {}
              /\ scanned' = table
              /\ UNCHANGED <<lastScan, busy, verified>>
        /\ UNCHANGED <<cooldown, now, pushing>>

Tick ==
    /\ now < MaxTime
    /\ now' = now + 1
    /\ UNCHANGED <<cooldown, lastScan, scanned, frames, busy, pushing, verified>>

\* The breach executor becomes free.
Done ==
    /\ busy
    /\ busy' = FALSE
    /\ UNCHANGED <<cooldown, now, lastScan, scanned, frames, pushing, verified>>

\* A breach of another camera takes the executor.
TakenElsewhere ==
    /\ ~busy
    /\ busy' = TRUE
    /\ UNCHANGED <<cooldown, now, lastScan, scanned, frames, pushing, verified>>

\* The backend changes the breach mode.
SetMode ==
    /\ pushing' = ~pushing
    /\ UNCHANGED <<cooldown, now, lastScan, scanned, frames, busy, verified>>

ScanNext ==
    \/ \E view \in SUBSET Persons, risk \in [Persons -> 1..MaxRisk] :
          Frame(view, risk)
    \/ Tick \/ Done \/ TakenElsewhere \/ SetMode

ScanSpec == ScanInit /\ [][ScanNext]_scanVars

-----------------------------------------------------------------------------
(* Properties.                                                             *)

Taken(p) == verified'[p] # verified[p]

\* The VLM never saw p, or p's cooldown is over, or the table may have forgotten p
\* since.
CooldownOver(p) ==
    \/ verified[p] = Never
    \/ now - verified[p] >= cooldown
    \/ now - verified[p] > StaleAfter

\* "The same person is not re-scanned within this cooldown": two breaches of one
\* person that reach the VLM are a cooldown apart, although the table that
\* remembers them is pruned in between.  A cooldown above 300 s, which nothing
\* forbids, is cut short by that pruning, but to no less than 300 s.
CooldownKept ==
    [][\A p \in Persons : Taken(p) => CooldownOver(p)]_scanVars

\* One camera sends the VLM no more than one breach per interval, whatever the
\* number of persons.
IntervalKept ==
    [][\A p, q \in Persons : Taken(p) => verified[q] = Never
                                      \/ now - verified[q] >= Interval]_scanVars

\* The table never forgets a person who is still in the cooldown of a breach the
\* VLM has seen, unless the breach is old enough to be pruned.
CooldownRemembered ==
    \A p \in Persons :
        verified[p] # Never /\ now - verified[p] < cooldown
                            /\ now - verified[p] <= StaleAfter
            => scanned[p] # Never /\ scanned[p] >= verified[p]
=============================================================================
