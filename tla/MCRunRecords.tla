---------------------------- MODULE MCRunRecords ----------------------------
(* Instances of RunRecords for TLC.                                         *)
EXTENDS RunRecords
KeysMC == {<<"A", 2>>, <<"B", 1>>}
PriorLogMC == << [key |-> <<"C", 1>>, run |-> 0, days |-> 0],
                 [key |-> <<"B", 0>>, run |-> 0, days |-> 0],
                 [key |-> <<"D", 1>>, run |-> 0, days |-> 1],
                 [key |-> <<"A", 1>>, run |-> 0, days |-> 0] >>
StockDaysMC == [t \in {"A", "B", "C", "D"} |-> 1..3]
BenchDaysMC == [t \in {"A", "B", "C", "D"} |-> IF t = "B" THEN {1, 3} ELSE 1..3]
=============================================================================
