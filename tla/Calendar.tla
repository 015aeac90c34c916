------------------------------ MODULE Calendar ------------------------------
(***************************************************************************)
(* What the scheduling module promises its clients: every visit takes its  *)
(* stretch of the employees' calendar at most once, in one step, clear of  *)
(* every other visit, keeps it unchanged, and gives it back once and for   *)
(* all.  A visit is moved by taking a new stretch and giving back the old  *)
(* one in the same step.  No request, lock or transaction appears here.    *)
(***************************************************************************)
EXTENDS Integers, Sequences

CONSTANT Ids   \* one id per visit ever taken

VARIABLE visits  \* visits[i]: its state and the lines it holds

Clash(l, m) == l.emp = m.emp /\ l.start < m.blocked /\ m.start < l.blocked

Fresh == [state |-> "fresh", lines |-> << >>]
Gone == [state |-> "gone", lines |-> << >>]

Held(i) == visits[i].state = "held"

ClearOf(ls, ms) == \A k \in DOMAIN ls, n \in DOMAIN ms : ~Clash(ls[k], ms[n])

(* No two stretches held clash, of two visits or of one. *)
Exclusive ==
    /\ \A i, j \in Ids : i # j /\ Held(i) /\ Held(j) =>
          ClearOf(visits[i].lines, visits[j].lines)
    /\ \A i \in Ids : Held(i) =>
          \A k, n \in DOMAIN visits[i].lines :
              k # n => ~Clash(visits[i].lines[k], visits[i].lines[n])

Init == visits = [i \in Ids |-> Fresh]

Others(S) == \A i \in Ids \ S : visits'[i] = visits[i]

(* i takes a stretch; whatever it is, the calendar stays exclusive. *)
Take(i) ==
    /\ visits[i] = Fresh
    /\ Held(i)'
    /\ Others({i})
    /\ Exclusive'

GiveBack(i) ==
    /\ Held(i)
    /\ visits'[i] = Gone
    /\ Others({i})

(* The visit i goes on as j. *)
Move(i, j) ==
    /\ Held(i)
    /\ visits[j] = Fresh
    /\ visits'[i] = Gone
    /\ Held(j)'
    /\ Others({i, j})
    /\ Exclusive'

Next == \/ \E i \in Ids : Take(i) \/ GiveBack(i)
        \/ \E i, j \in Ids : Move(i, j)

Spec == Init /\ [][Next]_visits
=============================================================================
