---------------------------- MODULE MCBudgetSave ----------------------------
(***************************************************************************)
(* Three projects, two of them saved, one with an asset; the sequence of   *)
(* the project codes lags behind both (rows that were imported), and the   *)
(* payloads of clients that save, move and delete them.                    *)
(***************************************************************************)
EXTENDS BudgetSave, TLC

CONSTANTS p1, p2, p3, a1, a2

TheCodes == [x \in Rows |-> CASE x = p1 -> << Hu, 1 >> [] x = p2 -> << Hu, 2 >>
                              [] x = a1 -> << 1, 1 >> [] OTHER -> None]
TheOwners == [a \in Assets |-> IF a = a1 THEN p1 ELSE None]
TheSequence == [x \in Prefixes |-> IF x = 1 THEN 1 ELSE 0]

NoAssets == [p \in Projects |-> {}]
Plain == [kind |-> "period", changed |-> {}, deleted |-> {}, touched |-> {},
          pipeline |-> {}, assets |-> NoAssets, sent |-> TheCodes]

\* A unit with a new project below which an asset is moved, and a new asset.
MoveAsset == [Plain EXCEPT !.changed = {p1, p3}, !.touched = {a1, a2},
                           !.assets[p1] = {a2}, !.assets[p3] = {a1},
                           !.pipeline = {p1}, !.sent[p3] = << Hu, 2 >>]
\* A project is deleted with its asset; another asset is taken out.
DeleteProject == [Plain EXCEPT !.changed = {p1, p2}, !.deleted = {p1},
                               !.touched = {a1, a2}, !.assets[p2] = {a2}]
\* Two clients create the aggregator of the unit, one with an asset below it.
CreateRoutine == [Plain EXCEPT !.changed = {p3}, !.assets[p3] = {a2},
                               !.sent[p3] = Routine]
TurnRoutine == [Plain EXCEPT !.changed = {p2}, !.sent[p2] = Routine]
\* One row from the project list, and a code for a project yet to be saved.
OneProject == [Plain EXCEPT !.kind = "project", !.changed = {p3}, !.pipeline = {p3},
                            !.sent[p3] = << Hu, 1 >>]
OneAsset == [Plain EXCEPT !.kind = "asset", !.changed = {p2}, !.touched = {a2},
                          !.sent[a2] = << 2, 1 >>]
OneCode == [Plain EXCEPT !.kind = "code"]

ThePayloads == {MoveAsset, DeleteProject, CreateRoutine, TurnRoutine, OneProject,
                OneAsset, OneCode}

\* Slots are interchangeable; no liveness is checked under this symmetry.
SlotSymmetry == Permutations(Requests)
=============================================================================
