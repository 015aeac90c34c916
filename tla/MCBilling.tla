------------------------------- MODULE MCBilling -------------------------------
(* Small instances of Billing for model checking. *)
EXTENDS Billing

(* A status the tenant is let in by, one it is kept out by, one without a  *)
(* tenant status and one without a name here.                              *)
MixedStatuses == {"trialing", "canceled", "incomplete", "paused"}

TwoPlans == {"basic", "pro"}

AllKinds == {"cancel", "reactivate", "changePlan", "suspend", "unsuspend"}
=============================================================================
