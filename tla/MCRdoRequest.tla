-------------------------- MODULE MCRdoRequest --------------------------
(* A model of RdoRequest for TLC: a list of an SPR source with a type of   *)
(* every kind, and the list of an EPR source, with empty slots between its *)
(* SPR and its EPR part; 98 W is more than 5 A at 15 V, and just more than *)
(* the field for the current of a request holds.                           *)
EXTENDS RdoRequest

Pdo(t, low, high, amps, amps20, power) ==
    [type |-> t, min |-> low, max |-> high, current |-> amps, current20 |-> amps20,
     pdp |-> power]

SprList == << Pdo("FPDO", 5000, 5000, 100, 0, 0),
              Pdo("VPDO", 9000, 12000, 100, 0, 0),
              Pdo("BPDO", 5000, 9000, 0, 0, 250),
              Pdo("SPR_AVS_PDO", 0, 0, 60, 50, 0) >>
EprList == << Pdo("FPDO", 5000, 5000, 100, 0, 0),
              Pdo("PPS_PDO", 3300, 3400, 100, 0, 0),
              Empty, Empty, Empty, Empty, Empty,
              Pdo("FPDO", 28000, 28000, 100, 0, 0),
              Pdo("EPR_AVS_PDO", 15000, 15100, 0, 0, 9800) >>

MCLists == {SprList, EprList}

Command(t, v) == [type |-> t, value |-> v]
(* 15.077 V and the 6.5 A that steps of 50 mA reach are 98.0005 W: more    *)
(* than the supply has, by less than the milliwatt to which the code cuts  *)
(* the product.                                                            *)
MCHostCommands == { Command("SELECT_PDO", 9), Command("SET_VOLTAGE", 15077) }

(* For AvsAligned the host only selects: the key steps do the rest. *)
MCSelections == { Command("SELECT_PDO", 9) }
=============================================================================
