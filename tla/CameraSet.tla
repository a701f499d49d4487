----------------------------- MODULE CameraSet -----------------------------
(* The cameras of one node: what their threads share is modelled in the     *)
(* modules that extend this one.                                            *)
EXTENDS FiniteSets

CONSTANT Cameras

ASSUME CamerasFinite == IsFiniteSet(Cameras)
=============================================================================
