------------------------------ MODULE MCAccounts ------------------------------
(* Small instances of Accounts for model checking. *)
EXTENDS Accounts, TLC

CONSTANTS r1, r2, r3, t1, t2

ThreeRequests == {r1, r2, r3}

(* Two requests of any kind, beside a third that continues or ends a       *)
(* session.                                                                *)
TwoAny == [r \in Requests |-> IF r = r3 THEN {"refresh"} ELSE AllKinds]

(* Two tabs of one browser. *)
TwoTabs == {t1, t2}
Home == [t \in Tabs |-> "b"]

(* A link of each purpose has been mailed. *)
Mail == [reset |-> "reset", verify |-> "verify", invite |-> "accept"]

Symmetry == Permutations({r1, r2}) \cup Permutations({t1, t2})
=============================================================================
