---------------------------- MODULE SingleFlight ----------------------------
(***************************************************************************)
(* What breach_pusher.py promises: an admitted breach is handled alone, no *)
(* other breach being cut or judged and none queueing behind it, and its   *)
(* handling ends.  A breach offered meanwhile leaves no trace.             *)
(***************************************************************************)
EXTENDS Naturals

CONSTANT MaxJobs            \* bound on the number of breaches ever admitted

VARIABLES admitted,         \* how many breaches have been admitted so far
          inFlight          \* the breaches admitted and not yet finished

vars == <<admitted, inFlight>>

Init ==
    /\ admitted = 0
    /\ inFlight = {}

Admit ==
    /\ inFlight = {}
    /\ admitted < MaxJobs
    /\ admitted' = admitted + 1
    /\ inFlight' = {admitted + 1}

Finish ==
    /\ inFlight # {}
    /\ inFlight' = {}
    /\ UNCHANGED admitted

Next == Admit \/ Finish

SafetySpec == Init /\ [][Next]_vars

Spec == SafetySpec /\ WF_vars(Finish)
=============================================================================
