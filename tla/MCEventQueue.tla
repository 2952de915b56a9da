---------------------------- MODULE MCEventQueue ----------------------------
(***************************************************************************)
(* A small instance of EventQueue: a valid event and one of any kind, on    *)
(* which two processes work.                                                *)
(***************************************************************************)
EXTENDS EventQueue

CONSTANTS e1, e2

MCBodies ==
  {[e \in Events |-> IF e = e1 THEN "valid" ELSE k] : k \in {"valid", "poison", "unhandled"}}
=============================================================================
