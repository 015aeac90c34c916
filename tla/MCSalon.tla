------------------------------- MODULE MCSalon -------------------------------
(* Two requests of any kind and a third that deletes; one employee, one     *)
(* service, no customer yet, and two days of six ticks with a visit each.   *)
EXTENDS Salon, TLC

CONSTANTS r1, r2, r3, ann, joe, cut, hair

MCKinds == r1 :> AllKinds @@ r2 :> AllKinds
           @@ r3 :> {"deleteEmployee", "deleteCustomer"}
MCClients == [c \in {} |-> 1]
MCCatalog == cut :> [length |-> 2, buffer |-> 0]
Shift(d, from, to, active) == [day |-> d, from |-> from, to |-> to, active |-> active]
MCPlan == {Shift(0, 1, 5, TRUE), Shift(1, 0, 4, TRUE)}
MCWeekPlans == {{}, {Shift(0, 0, 3, TRUE), Shift(0, 3, 5, TRUE), Shift(1, 1, 4, FALSE)}}
Week(sunday, monday) == [d \in Weekdays |-> CASE d = 0 -> sunday [] d = 1 -> monday [] OTHER -> None]
Open(from, to) == [from |-> from, to |-> to]
MCWeek == Week(Open(0, 5), Open(0, 5))
MCBusinessWeeks == {Week(Open(2, 5), None), Week(Open(3, 1), None)}
MCBookings == {[employee |-> ann, start |-> 3, until |-> 4],
               [employee |-> ann, start |-> 6, until |-> 7]}
MCRawForm == {"raw", "buffer"}
MCAiForm == {"ai"}
MCNamespace == [k \in {"raw", "buffer", "ai"} |-> IF k = "buffer" THEN "business" ELSE "general"]
Symmetry == Permutations({r1, r2})
=============================================================================
