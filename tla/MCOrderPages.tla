---------------------------- MODULE MCOrderPages ------------------------------
(***************************************************************************)
(* OrderPages for TLC: assets that are not ordered yet, and assets of      *)
(* which two are ordered and have arrived.                                 *)
(***************************************************************************)
EXTENDS OrderPages

NewAsset == [po |-> FALSE, spent |-> FALSE, cpr |-> FALSE, date |-> NoDate,
             qty |-> 2, received |-> 0]
Arrived == [po |-> TRUE, spent |-> TRUE, cpr |-> TRUE, date |-> Earlier,
            qty |-> 2, received |-> 2]
OneNewOneArrived == {<< NewAsset, Arrived >>}
TwoArrived == {<< Arrived, Arrived >>}
===============================================================================
