-------------------------- MODULE MCWhatsAppInbound --------------------------
(* Small instances of WhatsAppInbound for model checking. *)
EXTENDS WhatsAppInbound, TLC

CONSTANTS e1, e2, c1, c2, c3

TwoEvents == {e1, e2}
TwoConvs == {c1, c2}
ThreeConvs == {c1, c2, c3}

(* Meta batches messages, and batches them differently when it retries. *)
BatchPayloads == {<<1>>, <<1, 2>>}

Symmetry == Permutations(Events) \cup Permutations(Convs)
=============================================================================
