------------------------------- MODULE Session -------------------------------
(***************************************************************************)
(* Encrypted packets between a server and its clients: which key a packet  *)
(* is encrypted with, who can read it, and what happens to a multicast     *)
(* while handshakes change the endpoint table.                             *)
(*                                                                         *)
(* An exchange is a number, and so is the key the server derives from it.  *)
(* Whether the client derives the same key is the question of Handshake;   *)
(* here Agreeing is any set of exchanges on which it does.  Every datagram *)
(* may arrive late, repeatedly or never.  The data of a packet is known by *)
(* its layers: the keys it was encrypted and decrypted with, in order.     *)
(***************************************************************************)
EXTENDS Naturals, SequencesExt, EndpointTable

CONSTANTS
    Clients,       \* the clients' addresses
    Agreeing,      \* the exchanges on which both sides derive one key
    MaxExchanges,  \* bound on the handshakes that clients begin
    MaxCasts       \* bound on the multicasts

ASSUME SessionAssumption ==
    /\ MaxExchanges \in Nat /\ MaxCasts \in Nat
    /\ Agreeing \subseteq 1 .. MaxExchanges

VARIABLES
    begun,                \* the client of each exchange that was begun
    answered,             \* the exchanges whose follow-up was sent
    clientSecret,         \* sharedSecret of each client
    sharedSecret,         \* sharedSecret of the server
    ServersideEndpoints,
    handling,             \* where the server's listener is in onHandshakeReceive
    send,                 \* where each thread of the server is in multicastPacket
    casts,                \* the multicasts that were called
    wire,                 \* the datagrams to clients
    uplink,               \* the datagrams to the server that clients can have sent
    registered,           \* history: the last exchange registered for a client
    isServer,             \* isServer of the server: garbage while it is constructed
    constructed           \* the server's constructor has returned

clientVars == <<begun, clientSecret, uplink>>
roleVars == <<isServer, constructed>>
tableVars == <<sharedSecret, ServersideEndpoints, handling, registered, roleVars>>
castVars == <<send, casts, wire>>
vars == <<clientVars, answered, tableVars, castVars>>

Threads == {"app", "listener"}
Exchanges == 1 .. MaxExchanges
Keys == 0 .. 2 * MaxExchanges
Layers == Seq({"enc", "dec"} \X Keys)
Idle == [at |-> "idle", exchange |-> 0]

TypeOK ==
    /\ begun \in Seq(Clients) /\ Len(begun) <= MaxExchanges
    /\ answered \subseteq DOMAIN begun
    /\ clientSecret \in [Clients -> Keys]
    /\ sharedSecret \in 0 .. Len(begun)
    /\ ServersideEndpoints \in Seq([addr : Clients, privateKey : DOMAIN begun])
    /\ handling \in [at : {"idle", "derive", "register"}, exchange : 0 .. Len(begun)]
    /\ send \in [Threads -> [at : {"rest", "copy", "send"}, cast : 0 .. MaxCasts,
                             i : Nat, layers : Layers]]
    /\ send["listener"].at # "rest" => handling = Idle
    /\ Len(casts) <= MaxCasts
    /\ \A d \in wire : d.cast \in DOMAIN casts /\ d.pos \in DOMAIN casts[d.cast].group
    /\ uplink \subseteq [from : Clients, key : Keys]
    /\ registered \in [Clients -> 0 .. Len(begun)]
    /\ isServer \in BOOLEAN /\ constructed \in BOOLEAN /\ (constructed => isServer)

Init ==
    /\ begun = <<>> /\ answered = {}
    /\ clientSecret = [c \in Clients |-> 0]
    /\ sharedSecret = 0
    /\ ServersideEndpoints = <<>>
    /\ handling = Idle
    /\ send = [t \in Threads |-> [at |-> "rest", cast |-> 0, i |-> 1, layers |-> <<>>]]
    /\ casts = <<>> /\ wire = {} /\ uplink = {}
    /\ registered = [c \in Clients |-> 0]
    /\ isServer \in BOOLEAN /\ constructed = FALSE

-----------------------------------------------------------------------------
(* Handshakes, step by step on the server, where its application may multicast
   in between.  The listener runs before the constructor's last statement. *)

SetIsServer ==
    /\ isServer' = TRUE /\ constructed' = TRUE
    /\ UNCHANGED <<clientVars, answered, sharedSecret, ServersideEndpoints, handling,
                   registered, castVars>>

(* A client may send under each secret it comes to have; what it sent arrives
   at any time. *)
ClientGets(c, key) ==
    /\ clientSecret' = [clientSecret EXCEPT ![c] = key]
    /\ uplink' = uplink \cup {[from |-> c, key |-> key]}

(* The client starts, or starts again with a new private key. *)
startHandshake(c) ==
    /\ Len(begun) < MaxExchanges
    /\ begun' = Append(begun, c)
    /\ ClientGets(c, 0)
    /\ UNCHANGED <<answered, tableVars, castVars>>

(* The key a client derives from the follow-up of exchange n: a key of its own
   when the sides do not agree, or when n belongs to its earlier private key. *)
ClientKey(c, n) ==
    IF n \in Agreeing /\ \A later \in n + 1 .. Len(begun) : begun[later] # c
    THEN n ELSE MaxExchanges + n

ClientDerives(n) ==
    /\ n \in answered
    /\ ClientGets(begun[n], ClientKey(begun[n], n))
    /\ UNCHANGED <<begun, answered, tableVars, castVars>>

(* Mutant: a handshake is handled while the listener's callback multicasts. *)
ServerAnswersAnytime(n) ==
    /\ handling = Idle
    /\ n \in DOMAIN begun
    /\ answered' = answered \cup {n}
    /\ handling' = [at |-> "derive", exchange |-> n]
    /\ UNCHANGED <<clientVars, sharedSecret, ServersideEndpoints, registered, roleVars, castVars>>

(* Mutant: the endpoint is registered before the secret is computed. *)
ServerAnswersRegistering(n) ==
    /\ handling = Idle /\ send["listener"].at = "rest"
    /\ n \in DOMAIN begun
    /\ answered' = answered \cup {n}
    /\ handling' = [at |-> "register", exchange |-> n]
    /\ UNCHANGED <<clientVars, sharedSecret, ServersideEndpoints, registered, roleVars, castVars>>

ServerAnswers(n) ==
    /\ handling = Idle /\ send["listener"].at = "rest"
    /\ n \in DOMAIN begun
    /\ answered' = answered \cup {n}
    /\ handling' = [at |-> "derive", exchange |-> n]
    /\ UNCHANGED <<clientVars, sharedSecret, ServersideEndpoints, registered,
                   roleVars, castVars>>

ServerDerives ==
    /\ handling.at = "derive"
    /\ sharedSecret' = handling.exchange
    /\ handling' = [handling EXCEPT !.at = "register"]
    /\ UNCHANGED <<clientVars, answered, ServersideEndpoints, registered,
                   roleVars, castVars>>

Addresses(endpoints) == [k \in DOMAIN endpoints |-> endpoints[k].addr]

(* An application that is copying the table copies while it changes. *)
ServerRegisters ==
    /\ handling.at = "register" /\ isServer
    /\ LET c == begun[handling.exchange]
       IN  /\ ServersideEndpoints' =
                Registered(ServersideEndpoints, [addr |-> c, privateKey |-> sharedSecret])
           /\ registered' = [registered EXCEPT ![c] = handling.exchange]
    /\ handling' = Idle
    /\ IF send["app"].at = "copy"
       THEN casts' = [casts EXCEPT ![send["app"].cast].raced = TRUE]
       ELSE UNCHANGED casts
    /\ UNCHANGED <<clientVars, answered, sharedSecret, roleVars, send, wire>>

(* The flag is still garbage, which says that this is a client. *)
ServerLeavesOut ==
    /\ handling.at = "register" /\ ~isServer
    /\ handling' = Idle
    /\ UNCHANGED <<clientVars, answered, sharedSecret, ServersideEndpoints, registered,
                   roleVars, castVars>>

-----------------------------------------------------------------------------
(* multicastPacket with an encrypted packet. *)

(* A multicast of thread t is called with a packet that has these layers. *)
Called(t, layers, group) ==
    casts' = Append(casts, [by |-> t, table |-> Addresses(ServersideEndpoints), group |-> group,
                            first |-> layers = <<>>, failed |-> {},
                            raced |-> FALSE, threw |-> FALSE])

(* The application multicasts a new packet, or the packet of its last multicast,
   whose data that left encrypted.  The argument group is a copy of the table,
   which the listener may change while the application's thread copies it. *)
CallMulticast(layers) ==
    /\ constructed
    /\ send["app"].at = "rest"
    /\ Len(casts) < MaxCasts
    /\ Called("app", layers, <<>>)
    /\ send' = [send EXCEPT !["app"] =
                    [at |-> "copy", cast |-> Len(casts'), i |-> 1, layers |-> layers]]
    /\ UNCHANGED <<clientVars, answered, tableVars, wire>>

(* A copy that overlaps with a change is undefined: with luck it is the table
   before or after. *)
CopyTable ==
    LET n == send["app"].cast
    IN  /\ send["app"].at = "copy"
        /\ \E table \in {casts[n].table, Addresses(ServersideEndpoints)} :
            casts' = [casts EXCEPT ![n].group = table]
        /\ send' = [send EXCEPT !["app"].at = "send"]
        /\ UNCHANGED <<clientVars, answered, tableVars, wire>>

(* One operation undoes the other under the same key. *)
Applied(layers, operation, key) ==
    IF layers # <<>> /\ Last(layers)[2] = key /\ Last(layers)[1] # operation
    THEN Front(layers) ELSE Append(layers, <<operation, key>>)

(* Mutant: multicastPacket encrypts too. *)
LayersSentTwice(layers) == Applied(Applied(layers, "enc", sharedSecret), "enc", sharedSecret)

(* sendPacket encrypts in place, with the secret of the handshake handled last. *)
LayersSent(layers) == Applied(layers, "enc", sharedSecret)

(* One sendPacket of the loop.  sendto takes the datagram or not, and its result
   is tested in iError, where the other thread's next sendto may have put its
   own: whether the call throws is open in both cases.  What is thrown ends the
   multicast, after the packet was encrypted (in the listener's thread it ends
   the process, and nothing is left to ask). *)
SendNext(t) ==
    LET s == send[t]
        layers == LayersSent(s.layers)
        datagram == [cast |-> s.cast, pos |-> s.i, to |-> casts[s.cast].group[s.i],
                     layers |-> layers, key |-> sharedSecret]
    IN  /\ s.at = "send" /\ s.i <= Len(casts[s.cast].group)
        /\ \E taken, throws \in BOOLEAN :
            /\ throws => t = "app"
            /\ wire' = IF taken THEN wire \cup {datagram} ELSE wire
            /\ casts' = [casts EXCEPT ![s.cast].threw = throws,
                            ![s.cast].failed = IF taken THEN @ ELSE @ \cup {s.i}]
            /\ send' = [send EXCEPT ![t].layers = layers,
                            ![t].at = IF throws THEN "rest" ELSE "send",
                            ![t].i = IF throws THEN @ ELSE @ + 1]
        /\ UNCHANGED <<clientVars, answered, tableVars>>

EndMulticast(t) ==
    /\ send[t].at = "send" /\ send[t].i > Len(casts[send[t].cast].group)
    /\ send' = [send EXCEPT ![t].at = "rest"]
    /\ UNCHANGED <<clientVars, answered, tableVars, casts, wire>>

-----------------------------------------------------------------------------
(* recvPacket.  A packet that is received changes nothing but what the callback
   is handed, so a reception that is not relayed is no action: any datagram of
   wire or uplink may be received in any state. *)

(* A client decrypts with its sharedSecret. *)
ReceivedByClient(d) == Applied(d.layers, "dec", clientSecret[d.to])

(* Mutant: the server decrypts with sharedSecret, as clients do. *)
KeysOfSession(c) == IF ServersideEndpoints = <<>> THEN {} ELSE {sharedSecret}

(* The key the table has for the sender, if it has one. *)
KeysOf(c) == {e.privateKey : e \in {e \in Range(ServersideEndpoints) : e.addr = c}}

(* The server decrypts with the sender's key and hands an unknown endpoint's
   packet over as it is. *)
ReceivedByServer(u) ==
    LET sent == <<<<"enc", u.key>>>>
    IN  IF KeysOf(u.from) = {} THEN sent
        ELSE Applied(sent, "dec", CHOOSE key \in KeysOf(u.from) : TRUE)

(* The callback, attached to the interface once it exists, multicasts what it is
   handed. *)
Relay(u) ==
    /\ constructed
    /\ handling = Idle /\ send["listener"].at = "rest"
    /\ Len(casts) < MaxCasts
    /\ Called("listener", ReceivedByServer(u), Addresses(ServersideEndpoints))
    /\ send' = [send EXCEPT !["listener"] = [at |-> "send", cast |-> Len(casts'), i |-> 1,
                                            layers |-> ReceivedByServer(u)]]
    /\ UNCHANGED <<clientVars, answered, tableVars, wire>>

-----------------------------------------------------------------------------
Next ==
    \/ \E c \in Clients : startHandshake(c)
    \/ \E n \in Exchanges : ClientDerives(n) \/ ServerAnswers(n)
    \/ ServerDerives
    \/ ServerRegisters
    \/ ServerLeavesOut
    \/ SetIsServer
    \/ \E layers \in {<<>>, send["app"].layers} : CallMulticast(layers)
    \/ CopyTable
    \/ \E t \in Threads : SendNext(t) \/ EndMulticast(t)
    \/ \E u \in uplink : Relay(u)

Spec == Init /\ [][Next]_vars

-----------------------------------------------------------------------------
Datagrams(n) == {d \in wire : d.cast = n}
Ended(n) == \A t \in Threads : send[t].cast = n => send[t].at = "rest"

(* The endpoints whose datagram sendto took, and those whose it did not. *)
SentTo(n) == {d.to : d \in Datagrams(n)}
FailedTo(n) == {casts[n].group[p] : p \in casts[n].failed}

(* A multicast that ends without an exception has tried each endpoint that was in
   the table when it was called exactly once, and nobody else, unless the
   application's copy of the table overlapped with a handshake.  A relay never
   overlaps.  A send that failed is no exception when the other thread's result
   hid it. *)
EachEndpointOnce ==
    \A n \in DOMAIN casts :
        LET cast == casts[n]
        IN  /\ cast.raced => cast.by = "app"
            /\ Ended(n) /\ ~cast.raced /\ ~cast.threw =>
                /\ SentTo(n) \cup FailedTo(n) = Range(cast.table)
                /\ SentTo(n) \cap FailedTo(n) = {}
                /\ \A d, e \in Datagrams(n) : d.to = e.to => d = e

(* Nothing is sent under a secret that no exchange has made: sharedSecret is 0, or
   that of an exchange whose follow-up has not left, at most while the table is
   empty, whichever thread multicasts and however handshakes interleave. *)
EncryptedAfterExchange == \A d \in wire : d.key \in answered

(* The first datagram of a packet's first multicast is readable by its endpoint if
   that has the secret it was encrypted with, also when the packet is a relay of
   one that the server has decrypted.  The later datagrams are encrypted more
   than once, and so is a packet that is multicast again. *)
LatestReads ==
    \A d \in wire :
        casts[d.cast].first /\ d.pos = 1 /\ clientSecret[d.to] = d.key =>
            ReceivedByClient(d) = <<>>

(* The server reads a client's packet exactly when it was encrypted with the
   key of the exchange registered last for that client, whoever else shook
   hands in between and however late the packet is. *)
UplinkReads ==
    \A u \in uplink : constructed /\ handling = Idle =>
        (ReceivedByServer(u) = <<>> <=> u.key = registered[u.from] /\ u.key # 0)
=============================================================================
