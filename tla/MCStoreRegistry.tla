--------------------------- MODULE MCStoreRegistry ---------------------------
(* StoreRegistry for TLC: two cameras with a track each, which are alike. *)
EXTENDS StoreRegistry, TLC

CONSTANTS t1, t2, front, back

MCCam == (t1 :> front) @@ (t2 :> back)

Symmetry == {(t1 :> t2) @@ (t2 :> t1) @@ (front :> back) @@ (back :> front)}
=============================================================================
