-------------------------- MODULE MannequinFilter --------------------------
(***************************************************************************)
(* live_worker/mannequin.py: which tracks are taken for mannequins and     *)
(* left out of the scans.  A foot point is a place on a line instead of in *)
(* the frame, so that a spot has two neighbours instead of eight, and time *)
(* goes on in whole ticks, with at most one frame of a track in each.      *)
(***************************************************************************)
EXTENDS Integers, FiniteSets, FiniteSetsExt

CONSTANTS Tracks,      \* tracker ids; a lost body comes back under another one
          Places,      \* the places on the line are 0..Places - 1
          CellSize,    \* places in one cell of the spot bank
          MoveFrac,    \* a foot farther than this from its anchor has moved; less
                       \* than CellSize
          StillAfter,  \* still_after_sec
          CreditMax,   \* most a frame can add to a bank: 2 s
          TrackTTL, SpotTTL,
          MaxTime      \* bound: the clock

None  == -1
Spots == 0..(Places - 1)
Cell(x) == x \div CellSize
Cells == {Cell(x) : x \in Spots}
Times == 0..MaxTime

VARIABLES
    now,
    anchor,    \* per track: _anchor, a place and since when; place None without
    latched,   \* _latched
    seen,      \* per track: _last_seen, or None
    bankCell,  \* per track: _bank_cell, or None
    bank,      \* per cell: _spot_still, the credit and its last time, or None
    stood,     \* history, per cell: the ticks for which somebody was credited
    reason     \* history, per latched track: ticks of standing still behind it

vars == <<now, anchor, latched, seen, bankCell, bank, stood, reason>>

NoAnchor == [at |-> None, since |-> 0]
NoBank   == [credit |-> 0, last |-> None]

TypeOK ==
    /\ now \in Times
    /\ anchor \in [Tracks -> [at : Spots \cup {None}, since : Times]]
    /\ latched \subseteq Tracks
    /\ seen \in [Tracks -> Times \cup {None}]
    /\ bankCell \in [Tracks -> Cells \cup {None}]
    /\ bank \in [Cells -> [credit : Nat, last : Times \cup {None}]]
    /\ stood \in [Cells -> SUBSET Times]
    /\ reason \in [Tracks -> Nat]

Init ==
    /\ now = 0
    /\ anchor = [t \in Tracks |-> NoAnchor]
    /\ latched = {}
    /\ seen = [t \in Tracks |-> None]
    /\ bankCell = [t \in Tracks |-> None]
    /\ bank = [c \in Cells |-> NoBank]
    /\ stood = [c \in Cells |-> {}]
    /\ reason = [t \in Tracks |-> 0]

\* The best-funded cell next to c; c itself unless another is richer.
RichestCell(c) ==
    LET near == {d \in Cells : d \in (c - 1)..(c + 1)}
        most == {d \in near : \A e \in near : bank[d].credit >= bank[e].credit}
    IN  IF c \in most THEN c ELSE Min(most)

Moved(t, x) ==
    LET a == anchor[t].at IN x - a > MoveFrac \/ a - x > MoveFrac

\* The cell t banks into, or would.
CellOf(t) == IF bankCell[t] = None THEN Cell(anchor[t].at) ELSE bankCell[t]

Seen(t) == seen' = [seen EXCEPT ![t] = now]

Anchor(t, x) == anchor' = [anchor EXCEPT ![t] = [at |-> x, since |-> now]]

\* In a drawn fixture: a mannequin at once.
InFixture(t, x) ==
    /\ Seen(t) /\ Anchor(t, x)
    /\ latched' = latched \cup {t}
    /\ reason' = [reason EXCEPT ![t] = StillAfter]
    /\ UNCHANGED <<now, bankCell, bank, stood>>

FirstSight(t, x) ==
    /\ anchor[t].at = None
    /\ Seen(t) /\ Anchor(t, x)
    /\ UNCHANGED <<now, latched, bankCell, bank, stood, reason>>

\* Whoever walks is no mannequin, and was none on that spot.
Walks(t, x) ==
    /\ anchor[t].at # None /\ Moved(t, x)
    /\ Seen(t) /\ Anchor(t, x)
    /\ latched' = latched \ {t}
    /\ bank' = [bank EXCEPT ![CellOf(t)] = NoBank]
    /\ stood' = [stood EXCEPT ![CellOf(t)] = {}]
    /\ bankCell' = [bankCell EXCEPT ![t] = None]
    /\ reason' = [reason EXCEPT ![t] = 0]
    /\ UNCHANGED now

StaysLatched(t, x) ==
    /\ anchor[t].at # None /\ ~Moved(t, x) /\ t \in latched
    /\ Seen(t)
    /\ UNCHANGED <<now, anchor, latched, bankCell, bank, stood, reason>>

\* A still frame: the time since the last one is credited to the spot, and the track is
\* latched if it or the spot has been still for long.
Stands(t, x) ==
    /\ anchor[t].at # None /\ ~Moved(t, x) /\ t \notin latched
    /\ Seen(t)
    /\ LET c      == IF bankCell[t] = None THEN RichestCell(Cell(anchor[t].at))
                                           ELSE bankCell[t]
           credit == Min({now - seen[t], CreditMax})
           alone  == now - anchor[t].since
           ticks  == stood[c] \cup ((now - credit + 1)..now)
       IN  /\ bankCell' = [bankCell EXCEPT ![t] = c]
           /\ bank' = [bank EXCEPT ![c] = [credit |-> @.credit + credit, last |-> now]]
           /\ stood' = [stood EXCEPT ![c] = ticks]
           /\ IF alone >= StillAfter \/ bank'[c].credit >= StillAfter
              THEN /\ latched' = latched \cup {t}
                   /\ reason' = [reason EXCEPT ![t] = Max({alone, Cardinality(ticks)})]
              ELSE UNCHANGED <<latched, reason>>
    /\ UNCHANGED <<now, anchor>>

Observe(t, x) ==
    /\ seen[t] # now
    /\ FirstSight(t, x) \/ Walks(t, x) \/ StaysLatched(t, x) \/ Stands(t, x)

\* Tracks and banks that are not renewed are forgotten.
Prune ==
    LET stale == {t \in Tracks : seen[t] # None /\ now - seen[t] > TrackTTL}
        dead  == {c \in Cells : bank[c].last # None /\ now - bank[c].last > SpotTTL}
    IN  /\ stale \cup dead # {}
        /\ anchor' = [t \in Tracks |-> IF t \in stale THEN NoAnchor ELSE anchor[t]]
        /\ latched' = latched \ stale
        /\ seen' = [t \in Tracks |-> IF t \in stale THEN None ELSE seen[t]]
        /\ bankCell' = [t \in Tracks |-> IF t \in stale THEN None ELSE bankCell[t]]
        /\ bank' = [c \in Cells |-> IF c \in dead THEN NoBank ELSE bank[c]]
        /\ stood' = [c \in Cells |-> IF c \in dead THEN {} ELSE stood[c]]
        /\ reason' = [t \in Tracks |-> IF t \in stale THEN 0 ELSE reason[t]]
        /\ UNCHANGED now

Tick ==
    /\ now < MaxTime
    /\ now' = now + 1
    /\ UNCHANGED <<anchor, latched, seen, bankCell, bank, stood, reason>>

Next ==
    \/ \E t \in Tracks, x \in Spots :
          Observe(t, x) \/ (seen[t] # now /\ InFixture(t, x))
    \/ Prune
    \/ Tick

Spec == Init /\ [][Next]_vars

-----------------------------------------------------------------------------
(* Properties.                                                             *)

\* Whoever is taken for a mannequin outside the fixtures stood still for StillAfter, or
\* stands where somebody did for that long (mannequin.py:10-12 and 22-24).
LatchedAfterStillness == \A t \in latched : reason[t] >= StillAfter
=============================================================================
