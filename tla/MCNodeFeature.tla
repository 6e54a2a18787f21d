--------------------------- MODULE MCNodeFeature ---------------------------
(* Instances of NodeFeature for TLC: what others do to the object. *)
EXTENDS NodeFeature

AllMeddling == {"delete", "relabel"}
=============================================================================
