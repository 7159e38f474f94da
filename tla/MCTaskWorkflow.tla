---------------------------- MODULE MCTaskWorkflow ----------------------------
(***************************************************************************)
(* A workflow set of three steps, in two orders, to check TaskWorkflow on, *)
(* and who may complete what.                                              *)
(***************************************************************************)
EXTENDS TaskWorkflow

CONSTANTS ann, root

Three == {"a", "b", "c"}
\* After a gap in step_order: "b" has nothing before it and starts open.
GapOrder == [a |-> 0, b |-> 2, c |-> 3]
\* "b" has no triggers and so follows "a".
ChainOrder == [a |-> 0, b |-> 1, c |-> 3]
\* "c" waits for both others.
ThreeTriggers == [a |-> {}, b |-> {}, c |-> {"a", "b"}]
ThreeEvent == {"a", "c"}

TwoUsers == {ann, root}
OneUser == {root}
Roots == {root}
ThreeCanComplete == {<< ann, "a" >>, << root, "a" >>, << root, "b" >>}
SoloCanComplete == OneUser \X {"a", "b"}
===============================================================================
