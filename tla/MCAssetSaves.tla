---------------------------- MODULE MCAssetSaves ------------------------------
(***************************************************************************)
(* The ways in which assets and their plans get saved, as one instance: a  *)
(* behaviour is about the saves of a hospital unit's budget, about the     *)
(* pages of orders and receipts, or about the page of the multi-year       *)
(* budget, and the others stand still.                                     *)
(***************************************************************************)
EXTENDS MCBudgetSave, MCOrderPages, MCMultiYearPage

VARIABLE via

savesVars == << via, vars, orderVars, planVars >>

SavesInit == /\ via \in {"budget", "orders", "plans"}
             /\ Init /\ OrdersInit /\ PlansInit
             /\ via # "plans" => Existing = PlanPeriods

BudgetStep == via = "budget" /\ Next /\ UNCHANGED << via, orderVars, planVars >>
OrdersStep == via = "orders" /\ OrdersNext /\ UNCHANGED << via, vars, planVars >>

PlansStep == via = "plans" /\ PlansNext /\ UNCHANGED << via, vars, orderVars >>

SavesNext == BudgetStep \/ OrdersStep \/ PlansStep

SavesSpec == SavesInit /\ [][SavesNext]_savesVars

\* A behaviour ends when the page of plans has lost its own way: nothing is said of it then.
OwnWay == calm

\* The types of what moves: the rest keeps its first state.
SavesTypeOK ==
    CASE via = "budget" -> BudgetTypeOK
      [] via = "orders" -> OrdersTypeOK
      [] via = "plans" -> PlansTypeOK
===============================================================================
