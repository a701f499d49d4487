-------------------------- MODULE MCBehaviorEngine --------------------------
(***************************************************************************)
(* The frames TLC shows the behavior engine: a calm one, one without       *)
(* keypoints, each signal by itself and the pairs whose order within one   *)
(* frame matters.                                                          *)
(***************************************************************************)
EXTENDS BehaviorEngine

CalmFrame == [keypoints |-> TRUE, raw |-> {}, item |-> FALSE, hand |-> "out",
              hit |-> {}, place |-> "unseen", zones |-> {}]

MCObservations ==
    {CalmFrame,
     [CalmFrame EXCEPT !.keypoints = FALSE],
     [CalmFrame EXCEPT !.raw = {"looking_around"}],
     [CalmFrame EXCEPT !.item = TRUE],
     [CalmFrame EXCEPT !.hand = "in"],
     [CalmFrame EXCEPT !.hand = "in", !.item = TRUE],
     [CalmFrame EXCEPT !.hit = {"pocket_interaction"}],
     [CalmFrame EXCEPT !.hit = {"pocket_interaction"}, !.hand = "in"],
     [CalmFrame EXCEPT !.zones = {"exit"}],
     [CalmFrame EXCEPT !.zones = {"shelf"}],
     [CalmFrame EXCEPT !.place = "stays"]}

MCRules == {"seq_look_pickup", "concealment_sequence"}
=============================================================================
