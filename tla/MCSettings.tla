----------------------------- MODULE MCSettings -----------------------------
(* A board without an FRAM, with a small and with a large one, from the    *)
(* factory; a charger whose EPR list goes on after the SPR list, with an   *)
(* empty slot between.                                                     *)
EXTENDS Settings

MCChipSizes  == {0, 2048, 8192}
MCFirstBytes == {255}
MCCommanded  == [s \in Plain |-> CASE s = Priority -> {0}
                                    [] s = ReportType -> {}
                                    [] OTHER -> {1}]
MCSprLists   == {<<7>>}
MCEprLists   == {<<7, 0, 5>>}
MCEprCapable == {<<7>>}

(* A request for a slot no list has.                                       *)
MCHostRequests == {Request(255, 5)}
=============================================================================
