------------------------------ MODULE MCConfig ------------------------------
(* One flag with two values and one resource: flags and resources do not   *)
(* depend on one another.                                                  *)
EXTENDS Config
CONSTANTS v1, v2

FirstValue == [f \in Flags |-> v1]
=============================================================================
