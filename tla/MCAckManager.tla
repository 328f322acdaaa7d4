----------------------------- MODULE MCAckManager -----------------------------
(* One packet to one endpoint. *)
EXTENDS AckManager

CONSTANTS p1, e1, ack

OneNum == p1 :> 0
OneDest == p1 :> <<e1>>
=============================================================================
