---------------------------- MODULE MCLogRing ----------------------------
(* A model of LogRing for TLC: a ring of four slots that overflows and      *)
(* wraps round.  A disturbed log is not followed any further, for every    *)
(* property of the run is silent about it.                                 *)
EXTENDS LogRing

Undisturbed == ~disturbed
=============================================================================
