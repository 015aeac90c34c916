------------------------- MODULE MCWhatsAppOutbound -------------------------
(* A small instance of WhatsAppOutbound for model checking. *)
EXTENDS WhatsAppOutbound

CONSTANTS m1

OneMessage == {m1}

AllReceipts == {"SENT", "DELIVERED", "READ", "FAILED"}
=============================================================================
