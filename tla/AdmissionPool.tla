---------------------------- MODULE AdmissionPool ----------------------------
(***************************************************************************)
(* What the edge upload endpoint promises: of the requests it admits, a    *)
(* bounded number, at most Slots are served at once, each at most once,    *)
(* and every one of them leaves.                                           *)
(***************************************************************************)
EXTENDS FiniteSets, Naturals

CONSTANTS Requests, Slots, Room     \* Room: how many are admitted at once

VARIABLES state         \* per request

vars == state

In(s) == {r \in Requests : state[r] = s}

Init == state = [r \in Requests |-> "outside"]

Become(r, from, to) ==
    state[r] = from /\ state' = [state EXCEPT ![r] = to]

Admit(r) ==
    /\ Cardinality(Requests \ (In("outside") \cup In("left"))) < Room
    /\ Become(r, "outside", "admitted")

Refuse(r) == Become(r, "outside", "left")

Serve(r) ==
    /\ Cardinality(In("served")) < Slots
    /\ Become(r, "admitted", "served")

\* Served, or given up before.
Finish(r) == Become(r, "served", "finished") \/ Become(r, "admitted", "finished")

Leave(r) == Become(r, "admitted", "left") \/ Become(r, "finished", "left")

Next == \E r \in Requests :
            Admit(r) \/ Refuse(r) \/ Serve(r) \/ Finish(r) \/ Leave(r)

\* Every admitted request leaves, served or not.
Fairness == \A r \in Requests : WF_vars(Finish(r) \/ Leave(r))

Spec == Init /\ [][Next]_vars /\ Fairness
=============================================================================
