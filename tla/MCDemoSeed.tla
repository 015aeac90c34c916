------------------------------- MODULE MCDemoSeed -------------------------------
(* Three scripts started from two terminals, and two days of one employee. *)
EXTENDS DemoSeed, TLC

CONSTANTS t1, t2

(* Today, the morning over and the afternoon to come, and the first day of *)
(* the leave.                                                              *)
TwoDays == <<0, 12>>
OnePick == {<<<<30, 5>>, <<180, 20>>>>}
TwoChats == <<1, 7>>

Symmetry == Permutations({t1, t2})
=============================================================================
