---------------------------- MODULE MCHidRing ----------------------------
(* A model of HidRing for TLC: a ring of four slots, cleared at times, that *)
(* wraps round while packets that can be told apart are in it.             *)
EXTENDS HidRing

MCHalves == {"a", "b"}
=============================================================================
