------------------------------- MODULE MCCheckout -------------------------------
(* Three checkouts with two keys and one coupon left. *)
EXTENDS Checkout, TLC

CONSTANTS r1, r2, r3, k1, k2
Symmetry == Permutations({r1, r2, r3}) \cup Permutations({k1, k2})
=============================================================================
