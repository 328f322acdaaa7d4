----------------------------- MODULE MCHandshake -----------------------------
(* Two clients and a server over the prime 11, with small keys. *)
EXTENDS Handshake, TLC

K == INSTANCE RuledKey

CONSTANTS c1, c2, s

OneClient == {c1}
TwoClients == {c1, c2}
MCRuledKey(a, b) == K!generateRuledKey(a, b, 11)
OneClientKeys == (c1 :> <<3, 4>>) @@ (s :> <<5, 8>>)
TwoClientKeys == OneClientKeys @@ (c2 :> <<6>>)
PublicKeys2 == <<2, 7>>

(* No process is restarted; the client and the server are both restarted. *)
OneStart == (c1 :> 1) @@ (c2 :> 1) @@ (s :> 1)
BothRestart == (c1 :> 2) @@ (s :> 2)

MCKeys == 0 .. 10
=============================================================================
