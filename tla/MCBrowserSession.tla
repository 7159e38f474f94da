----------------------------- MODULE MCBrowserSession --------------------------
(***************************************************************************)
(* BrowserSession for TLC: two tabs of which one has two calls, or one     *)
(* with a call, a data request and a logout.                               *)
(***************************************************************************)
EXTENDS BrowserSession

CONSTANTS c1, c2, c3, d1, l1

ThreeCalls == {c1, c2, c3}
TwoCalls == {c1, c2}
OneCall == {c1}
OneData == {d1}
OneLogout == {l1}
None == {}

OneEach == {c1, d1, l1}
WithData == {c1, d1}

SharedTab == [c \in ThreeCalls |-> IF c = c3 THEN 2 ELSE 1]
TwoTabs == [c \in TwoCalls |-> IF c = c1 THEN 1 ELSE 2]
SameTab == [c \in OneCall |-> 1]
===============================================================================
