------------------------------ MODULE Handshake ------------------------------
(***************************************************************************)
(* The key exchange between one server MPInterfacer and its clients, from  *)
(* the moment the constructor has started ListenerThread.                  *)
(*                                                                         *)
(* The constructor goes on while the listener already handles packets: it  *)
(* assigns privateKey (0 until then), a client sends its HANDSHAKE_PACKET, *)
(* and only the last statement initialises the member isServer.            *)
(* onHandshakeReceive reads privateKey twice and isServer once, so each of *)
(* these reads is an action of its own.  (publicKey is always assigned     *)
(* right before it is read, so it is no variable here.)                    *)
(*                                                                         *)
(* The network keeps every datagram for ever: a datagram may arrive late,  *)
(* more than once, out of order, or never.  A process may be terminated    *)
(* and started again at any moment, with the same address.                 *)
(***************************************************************************)
EXTENDS Naturals, EndpointTable

CONSTANTS
    Clients,        \* the clients' addresses (IP and OutboundPublic port)
    Server,         \* the server's address
    Keys,           \* the numbers keys and powers are taken from
    RuledKey(_, _), \* generateRuledKey(a, b, Config.SecurePrimeNumber)
    PrivateKey,     \* generatePrivateKey, for each node and each of its starts
    PublicKey,      \* generatePublicKey, for each reference time
    MaxStarts,      \* bounds on the starts of each process
    MaxTime         \* bound on the handshakes that are begun

Nodes == Clients \cup {Server}

ASSUME KeysAssumption ==
    /\ Server \notin Clients
    /\ MaxStarts \in [Nodes -> Nat \ {0}] /\ MaxTime \in Nat
    /\ 0 \in Keys
    /\ PrivateKey \in [Nodes -> Seq(Keys)]
    /\ \A n \in Nodes : Len(PrivateKey[n]) >= MaxStarts[n]
    /\ PublicKey \in [1 .. MaxTime -> Keys]
    /\ \A a, b \in Keys : RuledKey(a, b) \in Keys

VARIABLES
    phase,         \* how far the constructor has come
    starts,        \* how often the process was started
    privateKey,
    sharedSecret,
    isServer,      \* indeterminate until the constructor's last statement
    ServersideEndpoints,
    handling,      \* the HANDSHAKE_PACKET inside onHandshakeReceive, if any
    step,          \* where onHandshakeReceive is
    net,           \* every HANDSHAKE_PACKET that was put on the network
    time           \* the reference time of the last handshake begun

ctor == <<phase, starts, isServer>>
vars == <<ctor, privateKey, sharedSecret, ServersideEndpoints,
          handling, step, net, time>>

(* A HANDSHAKE_PACKET: its number, the power it carries and, in number 0, the
   reference time. *)
Messages == [from : Nodes, to : Nodes, num : {0, 1}, pwr : Keys, time : 0 .. MaxTime]
NoMessage == [num |-> 2]
Endpoint == [addr : Nodes, privateKey : Keys]

(* A listener handles a datagram of the network that was sent to it, and
   responds to number 0 only. *)
HandlingOK ==
    \A n \in Nodes :
        /\ step[n] # "idle" => handling[n] \in net /\ handling[n].to = n
        /\ step[n] = "respond" => handling[n].num = 0

TypeOK ==
    /\ phase \in [Nodes -> {"started", "keyed", "greeted", "ready"}]
    /\ starts \in [Nodes -> Nat]
    /\ \A n \in Nodes : starts[n] \in 1 .. MaxStarts[n]
    /\ privateKey \in [Nodes -> Keys]
    /\ sharedSecret \in [Nodes -> Keys]
    /\ isServer \in [Nodes -> BOOLEAN]
    /\ ServersideEndpoints \in [Nodes -> Seq(Endpoint)]
    /\ handling \in [Nodes -> Messages \cup {NoMessage}]
    /\ step \in [Nodes -> {"idle", "respond", "derive", "register"}]
    /\ net \subseteq Messages
    /\ HandlingOK
    /\ \A m \in net : m.num = 0 => m.time \in 1 .. MaxTime
    /\ time \in 0 .. MaxTime

Init ==
    /\ phase = [n \in Nodes |-> "started"]
    /\ starts = [n \in Nodes |-> 1]
    /\ privateKey = [n \in Nodes |-> 0]
    /\ sharedSecret = [n \in Nodes |-> 0]
    /\ isServer \in [Nodes -> BOOLEAN]
    /\ ServersideEndpoints = [n \in Nodes |-> <<>>]
    /\ handling = [n \in Nodes |-> NoMessage]
    /\ step = [n \in Nodes |-> "idle"]
    /\ net = {}
    /\ time = 0

-----------------------------------------------------------------------------
(***************************************************************************)
(* The constructor, after the threads were started.                        *)
(***************************************************************************)

SetPrivateKey(n) ==
    /\ phase[n] = "started"
    /\ phase' = [phase EXCEPT ![n] = "keyed"]
    /\ privateKey' = [privateKey EXCEPT ![n] = PrivateKey[n][starts[n]]]
    /\ UNCHANGED <<starts, isServer, sharedSecret,
                   ServersideEndpoints, handling, step, net, time>>

startHandshake(c) ==
    /\ phase[c] = "keyed"
    /\ c \in Clients
    /\ time < MaxTime
    /\ time' = time + 1
    /\ phase' = [phase EXCEPT ![c] = "greeted"]
    /\ net' = net \cup
        {[from |-> c, to |-> Server, num |-> 0,
          pwr |-> RuledKey(PublicKey[time'], privateKey[c]), time |-> time']}
    /\ UNCHANGED <<starts, isServer, privateKey, sharedSecret,
                   ServersideEndpoints, handling, step>>

SetIsServer(n) ==
    /\ phase[n] = IF n = Server THEN "keyed" ELSE "greeted"
    /\ phase' = [phase EXCEPT ![n] = "ready"]
    /\ isServer' = [isServer EXCEPT ![n] = (n = Server)]
    /\ UNCHANGED <<starts, privateKey, sharedSecret,
                   ServersideEndpoints, handling, step, net, time>>

(* Mutant: the endpoints outlive the process's start. *)
RestartKeepsEndpoints(n) ==
    /\ starts[n] < MaxStarts[n]
    /\ starts' = [starts EXCEPT ![n] = @ + 1]
    /\ phase' = [phase EXCEPT ![n] = "started"]
    /\ \E garbage \in BOOLEAN : isServer' = [isServer EXCEPT ![n] = garbage]
    /\ privateKey' = [privateKey EXCEPT ![n] = 0]
    /\ sharedSecret' = [sharedSecret EXCEPT ![n] = 0]
    /\ handling' = [handling EXCEPT ![n] = NoMessage]
    /\ step' = [step EXCEPT ![n] = "idle"]
    /\ UNCHANGED <<ServersideEndpoints, net, time>>

(* The process ends, wherever its threads are, and is started again. *)
Restart(n) ==
    /\ starts[n] < MaxStarts[n]
    /\ starts' = [starts EXCEPT ![n] = @ + 1]
    /\ phase' = [phase EXCEPT ![n] = "started"]
    /\ \E garbage \in BOOLEAN : isServer' = [isServer EXCEPT ![n] = garbage]
    /\ privateKey' = [privateKey EXCEPT ![n] = 0]
    /\ sharedSecret' = [sharedSecret EXCEPT ![n] = 0]
    /\ ServersideEndpoints' = [ServersideEndpoints EXCEPT ![n] = <<>>]
    /\ handling' = [handling EXCEPT ![n] = NoMessage]
    /\ step' = [step EXCEPT ![n] = "idle"]
    /\ UNCHANGED <<net, time>>

-----------------------------------------------------------------------------
(***************************************************************************)
(* The listener: onHandshakeReceive.                                       *)
(***************************************************************************)

(* Mutant: a follow-up is answered as well. *)
ReceiveHandshakeAnswersAll(n, m) ==
    /\ step[n] = "idle"
    /\ m \in net
    /\ m.to = n
    /\ handling' = [handling EXCEPT ![n] = m]
    /\ step' = [step EXCEPT ![n] = "respond"]
    /\ UNCHANGED <<ctor, privateKey, sharedSecret,
                   ServersideEndpoints, net, time>>

ReceiveHandshake(n, m) ==
    /\ step[n] = "idle"
    /\ m \in net
    /\ m.to = n
    /\ handling' = [handling EXCEPT ![n] = m]
    /\ step' = [step EXCEPT ![n] = IF m.num = 0 THEN "respond" ELSE "derive"]
    /\ UNCHANGED <<ctor, privateKey, sharedSecret,
                   ServersideEndpoints, net, time>>

(* Mutant: the follow-up goes to m_SocketAddress, on a server its own address. *)
RespondToSelf(n) ==
    /\ step[n] = "respond"
    /\ step' = [step EXCEPT ![n] = "derive"]
    /\ net' = net \cup
        {[from |-> n, to |-> n, num |-> 1,
          pwr |-> RuledKey(privateKey[n], PublicKey[handling[n].time]), time |-> 0]}
    /\ UNCHANGED <<ctor, privateKey, sharedSecret, ServersideEndpoints,
                   handling, time>>

(* The follow-up's power is privateKey ^ publicKey. *)
Respond(n) ==
    /\ step[n] = "respond"
    /\ step' = [step EXCEPT ![n] = "derive"]
    /\ net' = net \cup
        {[from |-> n, to |-> handling[n].from, num |-> 1,
          pwr |-> RuledKey(privateKey[n], PublicKey[handling[n].time]), time |-> 0]}
    /\ UNCHANGED <<ctor, privateKey, sharedSecret, ServersideEndpoints,
                   handling, time>>

(* Mutant: base and exponent swapped. *)
DeriveSwapped(n) ==
    /\ step[n] = "derive"
    /\ step' = [step EXCEPT ![n] = "register"]
    /\ sharedSecret' =
        [sharedSecret EXCEPT ![n] = RuledKey(privateKey[n], handling[n].pwr)]
    /\ UNCHANGED <<ctor, privateKey, ServersideEndpoints, handling,
                   net, time>>

Derive(n) ==
    /\ step[n] = "derive"
    /\ step' = [step EXCEPT ![n] = "register"]
    /\ sharedSecret' =
        [sharedSecret EXCEPT ![n] = RuledKey(handling[n].pwr, privateKey[n])]
    /\ UNCHANGED <<ctor, privateKey, ServersideEndpoints, handling,
                   net, time>>

Register(n) ==
    /\ step[n] = "register"
    /\ step' = [step EXCEPT ![n] = "idle"]
    /\ handling' = [handling EXCEPT ![n] = NoMessage]
    /\ ServersideEndpoints' =
        IF isServer[n]
        THEN [ServersideEndpoints EXCEPT ![n] =
                Registered(@, [addr |-> handling[n].from, privateKey |-> sharedSecret[n]])]
        ELSE ServersideEndpoints
    /\ UNCHANGED <<ctor, privateKey, sharedSecret, net, time>>

-----------------------------------------------------------------------------
Next ==
    \E n \in Nodes :
        \/ SetPrivateKey(n)
        \/ startHandshake(n)
        \/ SetIsServer(n)
        \/ Restart(n)
        \/ \E m \in net : ReceiveHandshake(n, m)
        \/ Respond(n)
        \/ Derive(n)
        \/ Register(n)

Spec == Init /\ [][Next]_vars

(* Both threads of a process are scheduled, and the network delivers what was
   sent: of each client's handshakes, and of the follow-ups to it, it delivers
   some to a listener that keeps listening. *)
Fairness ==
    /\ \A n \in Nodes :
        /\ WF_vars(SetPrivateKey(n) \/ startHandshake(n) \/ SetIsServer(n))
        /\ WF_vars(Respond(n) \/ Derive(n) \/ Register(n))
    /\ \A c \in Clients :
        /\ SF_vars(\E m \in net : m.from = c /\ m.num = 0 /\ ReceiveHandshake(Server, m))
        /\ SF_vars(\E m \in net : m.num = 1 /\ ReceiveHandshake(c, m))

FairSpec == Spec /\ Fairness

-----------------------------------------------------------------------------
(* No two entries of ServersideEndpoints have the same address, however often
   and in whatever order handshakes arrive: the lookups of recvPacket and the
   loop of multicastPacket count on it. *)
EndpointsUnique ==
    \A n \in Nodes : \A j, k \in DOMAIN ServersideEndpoints[n] :
        ServersideEndpoints[n][j].addr = ServersideEndpoints[n][k].addr => j = k

(* The private keys process n has worked with since it was started: 0 until
   the constructor assigns privateKey. *)
KeysInUse(n) == {0, PrivateKey[n][starts[n]]}

(* The key under which a node keeps an endpoint was derived from a handshake
   that endpoint sent it and from a private key of the running process: no
   handshake of another endpoint, and no key of an earlier start, leaks in. *)
EndpointKeysAreDerived ==
    \A n \in Nodes : \A k \in DOMAIN ServersideEndpoints[n] :
        \E m \in net, pk \in KeysInUse(n) :
            /\ m.from = ServersideEndpoints[n][k].addr
            /\ m.to = n
            /\ ServersideEndpoints[n][k].privateKey = RuledKey(m.pwr, pk)

(* A step never replaces or drops another endpoint than the one whose
   handshake is being handled, unless the process is started again. *)
OthersKeepTheirEntry ==
    [][\A n \in Nodes : \A k \in DOMAIN ServersideEndpoints[n] :
            \/ starts'[n] # starts[n]
            \/ /\ k \in DOMAIN ServersideEndpoints'[n]
               /\ \/ ServersideEndpoints'[n][k] = ServersideEndpoints[n][k]
                  \/ /\ step[n] = "register"
                     /\ ServersideEndpoints[n][k].addr = handling[n].from
                     /\ ServersideEndpoints'[n][k].addr = handling[n].from]_vars

(* When nothing is lost for ever, a client that has sent its handshake comes to
   derive a secret from a follow-up, unless it or the server is started again:
   one handshake and one follow-up are enough, whatever the listeners were
   doing and however far the constructors were when they arrived. *)
SecretArrives ==
    \A c \in Clients : \A j \in 1 .. MaxStarts[Server] :
        phase[c] = "greeted" /\ starts[Server] = j
            ~> \/ step[c] = "register" /\ handling[c].num = 1
               \/ phase[c] = "started" \/ starts[Server] # j

(* A client's shared secret is the key the server keeps for the client:
   "calculate the shared secret ... SHOULD be the same as on other side".
   Asked only where both have one (a power computed from the privateKey 0 of a
   constructor still running makes the client's 0 and the server's 1) and
   neither process was started again. *)
Agreement ==
    \A c \in Clients, k \in DOMAIN ServersideEndpoints[Server] :
        LET e == ServersideEndpoints[Server][k]
        IN  /\ e.addr = c /\ e.privateKey # 1 /\ sharedSecret[c] # 0
            /\ starts[c] = 1 /\ starts[Server] = 1
            => sharedSecret[c] = e.privateKey
=============================================================================
