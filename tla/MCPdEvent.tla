---------------------------- MODULE MCPdEvent ----------------------------
(* A model of PdEvent for TLC: a source that is EPR capable and offers PPS, *)
(* and two EPR lists, so that a list put together from both would show.    *)
EXTENDS PdEvent

MCSprLists   == {"spr"}
MCEprLists   == {"eprA", "eprB"}
MCEprCapable == {"spr"}
MCPpsLists   == {"spr", "eprA"}
MCKinds      == {"GoodCRC", "PS_RDY", "Extended"}
MCSignals    == {"HARD_RESET"}

(* The smaller instances of the other runs. *)
OneEprList   == {"eprA"}
ReplyKinds   == {"GoodCRC", "PS_RDY", "Soft_Reset"}
NoSignals    == {}
=============================================================================
