------------------------------ MODULE MCAssistant ------------------------------
(* Two messages of a customer, which two processes may take at once, and    *)
(* one look of the staff at the AI's context.                               *)
EXTENDS Assistant, TLC

CONSTANTS t1, t2, a, b
Symmetry == Permutations({t1, t2}) \cup Permutations({a, b})
=============================================================================
