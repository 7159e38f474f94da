---------------------------- MODULE MCMultiYearPage ----------------------------
(***************************************************************************)
(* MultiYearPage for TLC: two multi-years, each with a period of its own.  *)
(***************************************************************************)
EXTENDS MultiYearPage

CONSTANTS q1, q2, y1, y2

OnePeriodEach == [q \in PlanPeriods |-> IF q = q1 THEN y1 ELSE y2]
===============================================================================
