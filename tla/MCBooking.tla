------------------------------ MODULE MCBooking ------------------------------
(* Small salons for model checking Booking. *)
EXTENDS Booking, TLC

CONSTANTS r1, r2, r3

ThreeRequests == {r1, r2, r3}
TwoRequests == {r1, r2}
RequestSymmetry == Permutations(Requests)

Visit(e, d, b) == [emp |-> e, dur |-> d, buf |-> b]

(* One employee, a visit of one slot and a longer one with a buffer: the   *)
(* two meet in whole, in part, in the buffer, or not at all.               *)
OnePlans == {<<Visit(1, 1, 0)>>, <<Visit(1, 2, 1)>>}
OneHours == (1 :> {[open |-> 0, close |-> 4]})

(* Two employees named in either order, a visit to a third, and one of two *)
(* lines that collide with each other in the buffer.                       *)
TeamPlans ==
    {<<Visit(1, 1, 0), Visit(2, 1, 0)>>, <<Visit(2, 1, 0), Visit(1, 1, 0)>>,
     <<Visit(3, 1, 1)>>, <<Visit(1, 1, 1), Visit(1, 1, 0)>>}
TeamHours == [e \in 1..3 |-> {[open |-> 0, close |-> 4]}]
=============================================================================
