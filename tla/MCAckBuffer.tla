----------------------------- MODULE MCAckBuffer -----------------------------
(* Instances of AckBuffer: two packets of the application's thread and one
   handshake follow-up, two endpoints. *)
EXTENDS AckBuffer

CONSTANTS p1, p2, f, e1, e2, ack

MCPackets == {p1, p2, f}
MCFollowUps == {f}
MCEndpoints == {e1, e2}

(* HolePunch or startHandshake sends p1 with number 0, the follow-up has 1, and
   the application numbers p2. *)
NumberedNum == (p1 :> 0) @@ (p2 :> 2) @@ (f :> 1)
UnicastDest == (p1 :> <<e1>>) @@ (p2 :> <<e2>>) @@ (f :> <<e1>>)

(* The application sends p2 to two endpoints with the follow-up's number, 1,
   the one the README's client gives its packets. *)
LibraryNum == (p1 :> 0) @@ (p2 :> 1) @@ (f :> 1)
MulticastDest == (p1 :> <<e1>>) @@ (p2 :> <<e1, e2>>) @@ (f :> <<e1>>)
=============================================================================
