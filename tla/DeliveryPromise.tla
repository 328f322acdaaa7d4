--------------------------- MODULE DeliveryPromise ---------------------------
(***************************************************************************)
(* What an awaitACK packet promises the application: the delivered flag    *)
(* of a packet is set only after the packet reached a peer, which it can   *)
(* only reach after sendto took it, and a set flag is never withdrawn.     *)
(* How many packets, threads, datagrams and buffers there are is left to   *)
(* the implementation.                                                     *)
(***************************************************************************)
CONSTANT Packets

VARIABLES sent, reached, confirmed

vars == <<sent, reached, confirmed>>

Init == sent = {} /\ reached = {} /\ confirmed = {}

Send(p) ==
    /\ sent' = sent \cup {p}
    /\ UNCHANGED <<reached, confirmed>>

Reach(p) ==
    /\ p \in sent
    /\ reached' = reached \cup {p}
    /\ UNCHANGED <<sent, confirmed>>

Confirm(p) ==
    /\ p \in reached
    /\ confirmed' = confirmed \cup {p}
    /\ UNCHANGED <<sent, reached>>

Next == \E p \in Packets : Send(p) \/ Reach(p) \/ Confirm(p)

Spec == Init /\ [][Next]_vars
=============================================================================
