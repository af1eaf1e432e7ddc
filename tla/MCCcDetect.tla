--------------------------- MODULE MCCcDetect ---------------------------
(* A model of CcDetect for TLC: one VBUS sample on each side of and between *)
(* the thresholds 2500 and 3000, and a counter of eight values.             *)
EXTENDS CcDetect

MCVbusSamples == {0, 2500, 2501, 3000, 3001, 5000}
=============================================================================
