---------------------------- MODULE EndpointTable ----------------------------
(* ServersideEndpoints: a list of endpoints with their addresses, as
   onHandshakeReceive changes it. *)
EXTENDS Sequences

(* Mutants: an endpoint that is known is added again; every entry becomes e. *)
RegisteredAgain(endpoints, e) == Append(endpoints, e)
RegisteredEverywhere(endpoints, e) ==
    IF endpoints = <<>> THEN <<e>> ELSE [k \in DOMAIN endpoints |-> e]

(* Every entry with the address of e becomes e; with no such entry e is added. *)
Registered(endpoints, e) ==
    IF \E k \in DOMAIN endpoints : endpoints[k].addr = e.addr
    THEN [k \in DOMAIN endpoints |->
            IF endpoints[k].addr = e.addr THEN e ELSE endpoints[k]]
    ELSE Append(endpoints, e)
=============================================================================
