--------------------------- MODULE HandshakeProofs ---------------------------
(***************************************************************************)
(* Proofs about Handshake, for any clients, keys, power function and       *)
(* bounds: type correctness, that a server keeps at most one entry per     *)
(* address, that the key of an entry was derived from a handshake of       *)
(* that address and a private key of the running process, and that a step  *)
(* leaves the entries of other addresses alone.                            *)
(***************************************************************************)
EXTENDS Handshake, VectorLemmas, TLAPS

LEMMA InitType == Init => TypeOK
<1> SUFFICES ASSUME Init PROVE TypeOK
  OBVIOUS
<1> USE KeysAssumption
<1>1. \A n \in Nodes : MaxStarts[n] \in Nat \ {0}
  OBVIOUS
<1>2. ServersideEndpoints \in [Nodes -> Seq(Endpoint)]
  BY DEF Init
<1>3. isServer \in [Nodes -> BOOLEAN] /\ step = [n \in Nodes |-> "idle"]
  BY Zenon DEF Init
<1> QED BY <1>1, <1>2, <1>3 DEF Init, TypeOK, HandlingOK

(* A message being handled is one of the network's, addressed to its node. *)
LEMMA HandlingType ==
    ASSUME TypeOK, NEW n \in Nodes, step[n] # "idle"
    PROVE  /\ handling[n] \in Messages /\ handling[n] \in net /\ handling[n].to = n
           /\ handling[n].from \in Nodes /\ handling[n].pwr \in Keys
           /\ handling[n].num = 0 => handling[n].time \in 1 .. MaxTime
BY DEF TypeOK, HandlingOK, Messages

LEMMA TypeStep == TypeOK /\ [Next]_vars => TypeOK'
<1> SUFFICES ASSUME TypeOK, [Next]_vars PROVE TypeOK'
  OBVIOUS
<1> USE KeysAssumption
<1>1. ASSUME NEW n \in Nodes, SetPrivateKey(n) PROVE TypeOK'
  <2>1. starts[n] \in 1 .. Len(PrivateKey[n]) /\ PrivateKey[n] \in Seq(Keys)
    BY DEF TypeOK, HandlingOK
  <2>2. PrivateKey[n][starts[n]] \in Keys
    BY <2>1
  <2> QED BY <1>1, <2>2 DEF SetPrivateKey, TypeOK, HandlingOK
<1>2. ASSUME NEW c \in Nodes, startHandshake(c) PROVE TypeOK'
  <2>1. time' \in 1 .. MaxTime /\ c \in Clients /\ Server \in Nodes
    BY <1>2 DEF startHandshake, TypeOK, Nodes
  <2>2. PublicKey[time'] \in Keys /\ privateKey[c] \in Keys
    BY <2>1 DEF TypeOK, HandlingOK
  <2>3. RuledKey(PublicKey[time'], privateKey[c]) \in Keys
    BY <2>2
  <2> DEFINE m == [from |-> c, to |-> Server, num |-> 0,
                   pwr |-> RuledKey(PublicKey[time'], privateKey[c]), time |-> time']
  <2>4. m \in Messages /\ m.time \in 1 .. MaxTime
    BY <2>1, <2>3 DEF Messages
  <2>5. net' = net \cup {m} /\ phase' = [phase EXCEPT ![c] = "greeted"]
    BY <1>2 DEF startHandshake
  <2> HIDE DEF m
  <2>6. net' \subseteq Messages /\ \A x \in net' : x.num = 0 => x.time \in 1 .. MaxTime
    BY <2>4, <2>5 DEF TypeOK, HandlingOK
  <2>7. HandlingOK'
    BY <1>2, <2>5 DEF startHandshake, TypeOK, HandlingOK
  <2> QED BY <1>2, <2>1, <2>5, <2>6, <2>7 DEF startHandshake, TypeOK, HandlingOK
<1>3. ASSUME NEW n \in Nodes, SetIsServer(n) PROVE TypeOK'
  <2>1. isServer' \in [Nodes -> BOOLEAN]
    BY <1>3, Zenon DEF SetIsServer, TypeOK, HandlingOK
  <2> QED BY <1>3, <2>1 DEF SetIsServer, TypeOK, HandlingOK
<1>4. ASSUME NEW n \in Nodes, Restart(n) PROVE TypeOK'
  <2>1. isServer' \in [Nodes -> BOOLEAN]
    BY <1>4 DEF Restart, TypeOK, HandlingOK
  <2>2. ServersideEndpoints' \in [Nodes -> Seq(Endpoint)]
    BY <1>4 DEF Restart, TypeOK, HandlingOK
  <2>3. starts' \in [Nodes -> Nat] /\ \A x \in Nodes : starts'[x] \in 1 .. MaxStarts[x]
    BY <1>4 DEF Restart, TypeOK, HandlingOK
  <2>4. handling' \in [Nodes -> Messages \cup {NoMessage}]
    BY <1>4 DEF Restart, TypeOK, HandlingOK
  <2>5. /\ step' \in [Nodes -> {"idle", "respond", "derive", "register"}]
        /\ HandlingOK'
    BY <1>4 DEF Restart, TypeOK, HandlingOK
  <2> QED BY <1>4, <2>1, <2>2, <2>3, <2>4, <2>5 DEF Restart, TypeOK, HandlingOK
<1>5. ASSUME NEW n \in Nodes, NEW m \in net, ReceiveHandshake(n, m) PROVE TypeOK'
  <2>1. UNCHANGED ctor /\ m \in Messages /\ m.to = n
    BY <1>5 DEF ReceiveHandshake, TypeOK, HandlingOK
  <2>2. /\ handling' \in [Nodes -> Messages \cup {NoMessage}]
        /\ step' \in [Nodes -> {"idle", "respond", "derive", "register"}]
        /\ HandlingOK'
    BY <1>5, <2>1 DEF ReceiveHandshake, TypeOK, HandlingOK
  <2> QED BY <1>5, <2>1, <2>2 DEF ReceiveHandshake, TypeOK, ctor
<1>6. ASSUME NEW n \in Nodes, Respond(n) PROVE TypeOK'
  <2>1. /\ handling[n].from \in Nodes /\ handling[n].time \in 1 .. MaxTime
        /\ UNCHANGED ctor /\ step[n] = "respond"
    BY <1>6, HandlingType DEF Respond, TypeOK, HandlingOK
  <2>2. RuledKey(privateKey[n], PublicKey[handling[n].time]) \in Keys
    BY <2>1 DEF TypeOK, HandlingOK
  <2> DEFINE m == [from |-> n, to |-> handling[n].from, num |-> 1,
                   pwr |-> RuledKey(privateKey[n], PublicKey[handling[n].time]), time |-> 0]
  <2>3. m \in Messages /\ m.num # 0
    BY <2>1, <2>2 DEF Messages
  <2>4. net' = net \cup {m}
    BY <1>6 DEF Respond
  <2> HIDE DEF m
  <2>5. net' \subseteq Messages /\ \A x \in net' : x.num = 0 => x.time \in 1 .. MaxTime
    BY <2>3, <2>4 DEF TypeOK, HandlingOK
  <2>6. /\ step' \in [Nodes -> {"idle", "respond", "derive", "register"}]
        /\ HandlingOK'
    BY <1>6, <2>4 DEF Respond, TypeOK, HandlingOK
  <2> QED BY <1>6, <2>1, <2>5, <2>6 DEF Respond, TypeOK, ctor
<1>7. ASSUME NEW n \in Nodes, Derive(n) PROVE TypeOK'
  <2>1. UNCHANGED ctor /\ handling[n].pwr \in Keys /\ privateKey[n] \in Keys
    BY <1>7, HandlingType DEF Derive, TypeOK, HandlingOK
  <2>2. RuledKey(handling[n].pwr, privateKey[n]) \in Keys
    BY <2>1
  <2>3. HandlingOK' /\ step' \in [Nodes -> {"idle", "respond", "derive", "register"}]
    BY <1>7 DEF Derive, TypeOK, HandlingOK
  <2> QED BY <1>7, <2>1, <2>2, <2>3 DEF Derive, TypeOK, ctor
<1>8. ASSUME NEW n \in Nodes, Register(n) PROVE TypeOK'
  <2> DEFINE e == [addr |-> handling[n].from, privateKey |-> sharedSecret[n]]
  <2>1. UNCHANGED ctor /\ e \in Endpoint
    BY <1>8, HandlingType DEF Register, TypeOK, Endpoint
  <2>2. Registered(ServersideEndpoints[n], e) \in Seq(Endpoint)
    BY <2>1, RegisteredEntries DEF TypeOK, HandlingOK
  <2>3. ServersideEndpoints' \in [Nodes -> Seq(Endpoint)]
    BY <1>8, <2>2 DEF Register, TypeOK, HandlingOK
  <2>4. /\ handling' \in [Nodes -> Messages \cup {NoMessage}]
        /\ step' \in [Nodes -> {"idle", "respond", "derive", "register"}]
        /\ HandlingOK'
    BY <1>8 DEF Register, TypeOK, HandlingOK
  <2> QED BY <1>8, <2>1, <2>3, <2>4 DEF Register, TypeOK, ctor
<1>9. CASE UNCHANGED vars
  BY <1>9 DEF vars, ctor, TypeOK, HandlingOK
<1> QED
  BY <1>1, <1>2, <1>3, <1>4, <1>5, <1>6, <1>7, <1>8, <1>9 DEF Next

THEOREM TypeCorrect == Spec => []TypeOK
BY InitType, TypeStep, PTL DEF Spec

-----------------------------------------------------------------------------
LEMMA UniqueStep == TypeOK /\ EndpointsUnique /\ [Next]_vars => EndpointsUnique'
<1> SUFFICES ASSUME TypeOK, EndpointsUnique, [Next]_vars PROVE EndpointsUnique'
  OBVIOUS
<1>1. CASE UNCHANGED ServersideEndpoints
  BY <1>1 DEF EndpointsUnique
<1>2. ASSUME NEW n \in Nodes, Restart(n) PROVE EndpointsUnique'
  BY <1>2 DEF Restart, EndpointsUnique, TypeOK
<1>3. ASSUME NEW n \in Nodes, Register(n) PROVE EndpointsUnique'
  <2> DEFINE e == [addr |-> handling[n].from, privateKey |-> sharedSecret[n]]
  <2>1. CASE ~isServer[n]
    BY <1>1, <1>3, <2>1 DEF Register
  <2>2. CASE isServer[n]
    <3>1. e \in Endpoint /\ ServersideEndpoints[n] \in Seq(Endpoint)
      BY <1>3, HandlingType DEF Register, TypeOK, Endpoint
    <3>2. ServersideEndpoints' =
            [ServersideEndpoints EXCEPT ![n] = Registered(ServersideEndpoints[n], e)]
      BY <1>3, <2>2 DEF Register
    <3> HIDE DEF e
    <3>3. ServersideEndpoints'[n] = Registered(ServersideEndpoints[n], e)
      BY <3>2 DEF TypeOK
    <3>4. \A j, k \in DOMAIN ServersideEndpoints'[n] :
            ServersideEndpoints'[n][j].addr = ServersideEndpoints'[n][k].addr => j = k
      BY <3>1, <3>3, RegisteredUnique DEF EndpointsUnique
    <3>5. \A x \in Nodes : x # n => ServersideEndpoints'[x] = ServersideEndpoints[x]
      BY <3>2 DEF TypeOK
    <3> QED BY <3>4, <3>5 DEF EndpointsUnique
  <2> QED BY <2>1, <2>2
<1>4. ASSUME NEW n \in Nodes,
             \/ SetPrivateKey(n) \/ startHandshake(n) \/ SetIsServer(n)
             \/ \E m \in net : ReceiveHandshake(n, m)
             \/ Respond(n) \/ Derive(n)
      PROVE  UNCHANGED ServersideEndpoints
  BY <1>4 DEF SetPrivateKey, startHandshake, SetIsServer, ReceiveHandshake, Respond, Derive
<1> QED BY <1>1, <1>2, <1>3, <1>4 DEF Next, vars

(* However often, late and in whatever order handshakes arrive and processes
   restart, no node has two entries of one address. *)
THEOREM OneEntryPerAddress == Spec => []EndpointsUnique
<1>1. Init => EndpointsUnique
  BY DEF Init, EndpointsUnique
<1> QED BY <1>1, UniqueStep, TypeCorrect, PTL DEF Spec

-----------------------------------------------------------------------------
(* The invariant behind the keys: a process works with one of its own private
   keys, and what it is about to register was derived from the handshake it is
   handling with such a key. *)
DerivedFrom(key, n, m) == \E pk \in KeysInUse(n) : key = RuledKey(m.pwr, pk)

KeyInv ==
    /\ \A n \in Nodes : privateKey[n] \in KeysInUse(n)
    /\ \A n \in Nodes :
        step[n] = "register" => DerivedFrom(sharedSecret[n], n, handling[n])
    /\ EndpointKeysAreDerived

LEMMA KeyStep == TypeOK /\ KeyInv /\ [Next]_vars => KeyInv'
<1> SUFFICES ASSUME TypeOK, KeyInv, [Next]_vars PROVE KeyInv'
  OBVIOUS
<1>1. ASSUME UNCHANGED <<starts, privateKey, sharedSecret, ServersideEndpoints, handling>>,
             net \subseteq net',
             \A n \in Nodes : step'[n] = "register" => step[n] = "register"
      PROVE  KeyInv'
  <2>1. \A n \in Nodes : KeysInUse(n)' = KeysInUse(n)
    BY <1>1 DEF KeysInUse
  <2>2. EndpointKeysAreDerived'
    BY <1>1, <2>1 DEF KeyInv, EndpointKeysAreDerived
  <2> QED BY <1>1, <2>1, <2>2 DEF KeyInv, DerivedFrom
<1>2. ASSUME NEW n \in Nodes, SetPrivateKey(n) PROVE KeyInv'
  <2>1. \A x \in Nodes : KeysInUse(x)' = KeysInUse(x)
    BY <1>2 DEF SetPrivateKey, KeysInUse
  <2>2. \A x \in Nodes : privateKey'[x] \in KeysInUse(x)
    BY <1>2 DEF SetPrivateKey, KeysInUse, KeyInv, TypeOK
  <2>3. UNCHANGED <<sharedSecret, ServersideEndpoints, handling, step, net>>
    BY <1>2 DEF SetPrivateKey
  <2> QED BY <2>1, <2>2, <2>3 DEF KeyInv, DerivedFrom, EndpointKeysAreDerived
<1>3. ASSUME NEW n \in Nodes, startHandshake(n) \/ SetIsServer(n) PROVE KeyInv'
  BY <1>1, <1>3 DEF startHandshake, SetIsServer
<1>4. ASSUME NEW n \in Nodes, Restart(n) PROVE KeyInv'
  <2>1. ASSUME NEW x \in Nodes, x # n
        PROVE  /\ KeysInUse(x)' = KeysInUse(x)
               /\ privateKey'[x] = privateKey[x] /\ step'[x] = step[x]
               /\ sharedSecret'[x] = sharedSecret[x] /\ handling'[x] = handling[x]
               /\ ServersideEndpoints'[x] = ServersideEndpoints[x]
    BY <1>4, <2>1 DEF Restart, KeysInUse, TypeOK
  <2>2. /\ privateKey'[n] \in KeysInUse(n)' /\ step'[n] = "idle"
        /\ ServersideEndpoints'[n] = <<>> /\ net' = net
    BY <1>4 DEF Restart, KeysInUse, TypeOK
  <2>3. EndpointKeysAreDerived'
    BY <2>1, <2>2 DEF KeyInv, EndpointKeysAreDerived
  <2> QED BY <2>1, <2>2, <2>3 DEF KeyInv, DerivedFrom
<1>5. ASSUME NEW n \in Nodes, NEW m \in net, ReceiveHandshake(n, m) PROVE KeyInv'
  <2>1. /\ UNCHANGED <<starts, privateKey, sharedSecret, ServersideEndpoints, net>>
        /\ \A x \in Nodes : step'[x] = "register" =>
             step[x] = "register" /\ handling'[x] = handling[x]
    BY <1>5 DEF ReceiveHandshake, TypeOK, ctor
  <2> QED BY <2>1 DEF KeyInv, KeysInUse, DerivedFrom, EndpointKeysAreDerived
<1>6. ASSUME NEW n \in Nodes, Respond(n) PROVE KeyInv'
  BY <1>1, <1>6 DEF Respond, ctor, TypeOK
<1>7. ASSUME NEW n \in Nodes, Derive(n) PROVE KeyInv'
  <2>1. /\ UNCHANGED <<starts, privateKey, ServersideEndpoints, handling, net>>
        /\ sharedSecret'[n] = RuledKey(handling[n].pwr, privateKey[n])
        /\ \A x \in Nodes : x # n =>
             sharedSecret'[x] = sharedSecret[x] /\ step'[x] = step[x]
    BY <1>7 DEF Derive, TypeOK, ctor
  <2>2. DerivedFrom(sharedSecret'[n], n, handling[n])
    BY <2>1 DEF DerivedFrom, KeyInv
  <2>3. \A x \in Nodes : KeysInUse(x)' = KeysInUse(x)
    BY <2>1 DEF KeysInUse
  <2> QED BY <2>1, <2>2, <2>3 DEF KeyInv, DerivedFrom, EndpointKeysAreDerived
<1>8. ASSUME NEW n \in Nodes, Register(n) PROVE KeyInv'
  <2> DEFINE e == [addr |-> handling[n].from, privateKey |-> sharedSecret[n]]
  <2>1. UNCHANGED <<starts, privateKey, sharedSecret, net>>
    BY <1>8 DEF Register, ctor
  <2>2. \A x \in Nodes : step'[x] = "register" =>
          step[x] = "register" /\ handling'[x] = handling[x]
    BY <1>8 DEF Register, TypeOK
  <2>3. \A x \in Nodes : KeysInUse(x)' = KeysInUse(x)
    BY <2>1 DEF KeysInUse
  <2>4. EndpointKeysAreDerived'
    <3>1. CASE ~isServer[n]
      BY <1>8, <2>1, <2>3, <3>1 DEF Register, KeyInv, EndpointKeysAreDerived
    <3>2. CASE isServer[n]
      <4>1. e \in Endpoint /\ ServersideEndpoints[n] \in Seq(Endpoint)
        BY <1>8, HandlingType DEF Register, TypeOK, Endpoint
      <4>2. /\ handling[n] \in net /\ handling[n].to = n
            /\ DerivedFrom(e.privateKey, n, handling[n])
        BY <1>8, HandlingType DEF Register, KeyInv
      <4>3. e.addr = handling[n].from
        OBVIOUS
      <4>4. ServersideEndpoints' =
              [ServersideEndpoints EXCEPT ![n] = Registered(ServersideEndpoints[n], e)]
        BY <1>8, <3>2 DEF Register
      <4> HIDE DEF e
      <4>5. ASSUME NEW x \in Nodes, x # n
            PROVE  ServersideEndpoints'[x] = ServersideEndpoints[x]
        BY <4>4, <4>5 DEF TypeOK
      <4>6. ServersideEndpoints'[n] = Registered(ServersideEndpoints[n], e)
        BY <4>4 DEF TypeOK
      <4>7. ASSUME NEW k \in DOMAIN ServersideEndpoints'[n]
            PROVE  \/ ServersideEndpoints'[n][k] = e
                   \/ /\ k \in DOMAIN ServersideEndpoints[n]
                      /\ ServersideEndpoints'[n][k] = ServersideEndpoints[n][k]
        BY <4>1, <4>6, <4>7, RegisteredEntries
      <4>8. ASSUME NEW k \in DOMAIN ServersideEndpoints'[n]
            PROVE  \E m \in net, pk \in KeysInUse(n) :
                     /\ m.from = ServersideEndpoints'[n][k].addr /\ m.to = n
                     /\ ServersideEndpoints'[n][k].privateKey = RuledKey(m.pwr, pk)
        <5>1. CASE ServersideEndpoints'[n][k] = e
          BY <4>2, <4>3, <5>1 DEF DerivedFrom
        <5>2. CASE /\ k \in DOMAIN ServersideEndpoints[n]
                   /\ ServersideEndpoints'[n][k] = ServersideEndpoints[n][k]
          BY <5>2 DEF KeyInv, EndpointKeysAreDerived
        <5> QED BY <4>7, <4>8, <5>1, <5>2
      <4>9. ASSUME NEW x \in Nodes, x # n, NEW k \in DOMAIN ServersideEndpoints'[x]
            PROVE  \E m \in net, pk \in KeysInUse(x) :
                     /\ m.from = ServersideEndpoints'[x][k].addr /\ m.to = x
                     /\ ServersideEndpoints'[x][k].privateKey = RuledKey(m.pwr, pk)
        BY <4>5, <4>9 DEF KeyInv, EndpointKeysAreDerived
      <4> QED BY <2>1, <2>3, <4>8, <4>9 DEF EndpointKeysAreDerived
    <3> QED BY <3>1, <3>2
  <2> QED BY <2>1, <2>2, <2>3, <2>4 DEF KeyInv, DerivedFrom
<1>9. CASE UNCHANGED vars
  BY <1>1, <1>9 DEF vars, ctor
<1> QED
  BY <1>2, <1>3, <1>4, <1>5, <1>6, <1>7, <1>8, <1>9 DEF Next

(* Each key in ServersideEndpoints comes from a handshake of its own address
   and a private key of the running process. *)
THEOREM KeysAreDerived == Spec => []EndpointKeysAreDerived
<1>1. Init => KeyInv
  BY DEF Init, KeyInv, KeysInUse, EndpointKeysAreDerived
<1>2. KeyInv => EndpointKeysAreDerived
  BY DEF KeyInv
<1> QED BY <1>1, <1>2, KeyStep, TypeCorrect, PTL DEF Spec

-----------------------------------------------------------------------------
(* What OthersKeepTheirEntry asks of the entry k of node n in a step. *)
KeepsEntry(n, k) ==
    \/ starts'[n] # starts[n]
    \/ /\ k \in DOMAIN ServersideEndpoints'[n]
       /\ \/ ServersideEndpoints'[n][k] = ServersideEndpoints[n][k]
          \/ /\ step[n] = "register"
             /\ ServersideEndpoints[n][k].addr = handling[n].from
             /\ ServersideEndpoints'[n][k].addr = handling[n].from

LEMMA KeepsEntryStep ==
    ASSUME TypeOK, [Next]_vars, NEW n \in Nodes, NEW k \in DOMAIN ServersideEndpoints[n]
    PROVE  KeepsEntry(n, k)
<1>1. CASE ServersideEndpoints'[n] = ServersideEndpoints[n]
  BY <1>1 DEF KeepsEntry
<1>2. ASSUME NEW m \in Nodes, Restart(m) PROVE KeepsEntry(n, k)
  <2>1. CASE m = n
    <3>1. starts[n] \in Nat
      BY DEF TypeOK
    <3>2. starts'[n] = starts[n] + 1
      BY <1>2, <2>1 DEF Restart, TypeOK
    <3> QED BY <3>1, <3>2 DEF KeepsEntry
  <2>2. CASE m # n
    BY <1>1, <1>2, <2>2 DEF Restart, TypeOK
  <2> QED BY <2>1, <2>2
<1>3. ASSUME NEW m \in Nodes, Register(m) PROVE KeepsEntry(n, k)
  <2>1. CASE m = n /\ isServer[n]
    <3> DEFINE e == [addr |-> handling[n].from, privateKey |-> sharedSecret[n]]
    <3>1. step[n] = "register"
      BY <1>3, <2>1 DEF Register
    <3>2. e \in Endpoint
      BY <3>1, HandlingType DEF Endpoint, TypeOK
    <3>3. ServersideEndpoints[n] \in Seq(Endpoint)
      BY DEF TypeOK
    <3>4. ServersideEndpoints'[n] = Registered(ServersideEndpoints[n], e)
      BY <1>3, <2>1 DEF Register, TypeOK
    <3>5. /\ k \in DOMAIN Registered(ServersideEndpoints[n], e)
          /\ \/ Registered(ServersideEndpoints[n], e)[k] = ServersideEndpoints[n][k]
             \/ /\ ServersideEndpoints[n][k].addr = e.addr
                /\ Registered(ServersideEndpoints[n], e)[k].addr = e.addr
      BY <3>2, <3>3, RegisteredKeeps
    <3>6. e.addr = handling[n].from
      OBVIOUS
    <3> QED BY <3>1, <3>4, <3>5, <3>6 DEF KeepsEntry
  <2>2. CASE ~(m = n /\ isServer[n])
    BY <1>1, <1>3, <2>2 DEF Register, TypeOK
  <2> QED BY <2>1, <2>2
<1>4. CASE UNCHANGED vars
  BY <1>1, <1>4 DEF vars
<1>5. ASSUME NEW m \in Nodes,
             \/ SetPrivateKey(m) \/ startHandshake(m) \/ SetIsServer(m)
             \/ \E x \in net : ReceiveHandshake(m, x)
             \/ Respond(m) \/ Derive(m)
      PROVE  KeepsEntry(n, k)
  BY <1>1, <1>5 DEF SetPrivateKey, startHandshake, SetIsServer, ReceiveHandshake,
                    Respond, Derive, ctor
<1> QED BY <1>2, <1>3, <1>4, <1>5 DEF Next

(* A step replaces or drops no endpoint but the one whose handshake the
   listener is handling, for any number of clients and handshakes. *)
THEOREM OthersKeep == Spec => OthersKeepTheirEntry
<1>1. TypeOK /\ [Next]_vars =>
        [\A n \in Nodes : \A k \in DOMAIN ServersideEndpoints[n] :
            \/ starts'[n] # starts[n]
            \/ /\ k \in DOMAIN ServersideEndpoints'[n]
               /\ \/ ServersideEndpoints'[n][k] = ServersideEndpoints[n][k]
                  \/ /\ step[n] = "register"
                     /\ ServersideEndpoints[n][k].addr = handling[n].from
                     /\ ServersideEndpoints'[n][k].addr = handling[n].from]_vars
  BY KeepsEntryStep DEF KeepsEntry
<1> QED BY <1>1, TypeCorrect, PTL DEF Spec, OthersKeepTheirEntry
=============================================================================
