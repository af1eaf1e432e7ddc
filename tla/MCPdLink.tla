------------------------------- MODULE MCPdLink -------------------------------
(* One SPR list with the EPR bit and one EPR list: entry, both contracts and *)
(* the way back from one to the other.                                       *)
EXTENDS PdLink

MCSprLists   == {"sprA"}
MCEprLists   == {"epr"}
MCEprCapable == {"sprA"}
MCPpsLists   == {}
MCKinds      == {"GoodCRC", "PS_RDY", "Soft_Reset", "Extended", "Other"}
MCSignals    == {"HARD_RESET"}
MCUserPhases == {"ready"}
===============================================================================
