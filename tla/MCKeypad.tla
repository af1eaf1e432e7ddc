---------------------------- MODULE MCKeypad ----------------------------
(* A model of Keypad for TLC.  The intervals keep their order, shortened.  *)
EXTENDS Keypad
=============================================================================
