----------------------------- MODULE SessionProofs -----------------------------
(***************************************************************************)
(* Session for every set of clients, every number of exchanges and         *)
(* multicasts, and every set of exchanges on which the sides agree.        *)
(***************************************************************************)
EXTENDS Session, VectorLemmas

(* A multicast, a datagram, and where a thread is in multicastPacket. *)
Cast == [by : Threads, table : Seq(Clients), group : Seq(Clients), first : BOOLEAN,
         failed : SUBSET Nat, raced : BOOLEAN, threw : BOOLEAN]
Datagram == [cast : Nat, pos : Nat, to : Clients, layers : Layers, key : Nat]

(* A handshake that is handled was begun; a thread that multicasts is at its own
   multicast, and has sent nothing of it while it copies the table. *)
StepsInv ==
    /\ casts \in Seq(Cast) /\ wire \subseteq Datagram
    /\ IF handling.at = "idle" THEN handling = Idle ELSE handling.exchange \in DOMAIN begun
    /\ handling.at = "register" => sharedSecret = handling.exchange
    /\ send["listener"].at # "copy"
    /\ \A t \in Threads : send[t].at # "rest" =>
        /\ send[t].cast \in DOMAIN casts /\ casts[send[t].cast].by = t
        /\ send[t].at = "copy" =>
            /\ send[t].i = 1 /\ casts[send[t].cast].failed = {}
            /\ \A d \in wire : d.cast # send[t].cast
        /\ send[t].at = "send" => send[t].i \in 1 .. Len(casts[send[t].cast].group) + 1

TypeInv == TypeOK /\ StepsInv

(* The table's addresses differ, and its keys are those registered. *)
TableInv ==
    /\ \A j, k \in DOMAIN ServersideEndpoints :
        ServersideEndpoints[j].addr = ServersideEndpoints[k].addr => j = k
    /\ \A k \in DOMAIN ServersideEndpoints :
        ServersideEndpoints[k].privateKey = registered[ServersideEndpoints[k].addr]
    /\ \A c \in Clients : registered[c] # 0 =>
        \E k \in DOMAIN ServersideEndpoints : ServersideEndpoints[k].addr = c

(* Before the server's first secret there is nobody to send to; a secret is that
   of an exchange whose follow-up was sent. *)
SecretsInv ==
    /\ sharedSecret = 0 =>
        /\ ServersideEndpoints = <<>>
        /\ \A n \in DOMAIN casts : casts[n].table = <<>> /\ casts[n].group = <<>>
    /\ handling.at = "derive" => handling.exchange \in answered
    /\ sharedSecret # 0 => sharedSecret \in answered
    /\ \A d \in wire : d.key \in answered

(* Each position of the group is tried once, up to where the thread is: it has a
   datagram or its send failed. *)
Tried(n, p) == p \in casts[n].failed \/ \E d \in wire : d.cast = n /\ d.pos = p

ProgressInv ==
    /\ \A d \in wire :
        d.to = casts[d.cast].group[d.pos] /\ d.pos \notin casts[d.cast].failed
    /\ \A d, e \in wire : d.cast = e.cast /\ d.pos = e.pos => d = e
    /\ \A n \in DOMAIN casts : casts[n].failed \subseteq DOMAIN casts[n].group
    /\ \A t \in Threads : send[t].at = "send" =>
        /\ \A d \in wire : d.cast = send[t].cast => d.pos < send[t].i
        /\ \A p \in casts[send[t].cast].failed : p < send[t].i
        /\ \A p \in 1 .. send[t].i - 1 : Tried(send[t].cast, p)
    /\ \A n \in DOMAIN casts : Ended(n) /\ ~casts[n].threw =>
        \A p \in DOMAIN casts[n].group : Tried(n, p)

(* The group is the table at the call, unless the copy raced with a handshake. *)
GroupInv ==
    /\ \A n \in DOMAIN casts :
        /\ casts[n].raced => casts[n].by = "app"
        /\ \A j, k \in DOMAIN casts[n].table : casts[n].table[j] = casts[n].table[k] => j = k
        /\ \/ casts[n].raced \/ casts[n].group = casts[n].table
           \/ send["app"].at = "copy" /\ send["app"].cast = n
    /\ send["app"].at = "copy" /\ ~casts[send["app"].cast].raced =>
        casts[send["app"].cast].table = Addresses(ServersideEndpoints)

(* A packet that is multicast for the first time has no layer before its first
   sendPacket, and one after it. *)
LayersInv ==
    /\ \A t \in Threads :
        send[t].at # "rest" /\ casts[send[t].cast].first /\ send[t].i = 1 => send[t].layers = <<>>
    /\ \A d \in wire : casts[d.cast].first /\ d.pos = 1 => d.layers = <<<<"enc", d.key>>>>

-----------------------------------------------------------------------------
(* The layers of a packet, and the vectors of multicasts and endpoints. *)

(* The addresses are listed in the order of the table. *)
LEMMA AddressesType ==
    ASSUME NEW S, NEW K, NEW eps \in Seq([addr : S, privateKey : K])
    PROVE  /\ Addresses(eps) \in Seq(S)
           /\ DOMAIN Addresses(eps) = DOMAIN eps
           /\ \A k \in DOMAIN eps : Addresses(eps)[k] = eps[k].addr
<1>1. DOMAIN eps = 1 .. Len(eps) /\ Len(eps) \in Nat
  OBVIOUS
<1>2. Addresses(eps) = [k \in 1 .. Len(eps) |-> eps[k].addr]
  BY <1>1 DEF Addresses
<1>3. ASSUME NEW k \in 1 .. Len(eps) PROVE eps[k].addr \in S
  <2>1. eps[k] \in [addr : S, privateKey : K]
    BY <1>1, ElementType
  <2> QED BY <2>1
<1>4. Addresses(eps) \in Seq(S) /\ DOMAIN Addresses(eps) = 1 .. Len(eps)
  BY <1>1, <1>2, <1>3
<1> QED BY <1>1, <1>2, <1>4

(* A cipher operation adds a layer or takes the last one off. *)
LEMMA AppliedType ==
    ASSUME NEW layers \in Layers, NEW operation \in {"enc", "dec"}, NEW key \in Keys
    PROVE  Applied(layers, operation, key) \in Layers
<1>1. <<operation, key>> \in {"enc", "dec"} \X Keys
  OBVIOUS
<1>2. Append(layers, <<operation, key>>) \in Layers
  BY <1>1 DEF Layers
<1>3. layers # <<>> => Front(layers) \in Layers
  BY DEF Layers, Front
<1> QED BY <1>2, <1>3 DEF Applied

(* What recvPacket hands the server's callback. *)
LEMMA ReceivedType ==
    ASSUME TypeOK, NEW u \in uplink
    PROVE  ReceivedByServer(u) \in Layers
<1> DEFINE sent == <<<<"enc", u.key>>>>
<1>1. u.key \in Keys /\ <<"enc", u.key>> \in {"enc", "dec"} \X Keys
  BY DEF TypeOK
<1>2. sent \in Layers
  BY <1>1 DEF Layers
<1>3. KeysOf(u.from) \subseteq Keys
  <2> SUFFICES ASSUME NEW e \in Range(ServersideEndpoints) PROVE e.privateKey \in Keys
    BY DEF KeysOf
  <2>1. PICK k \in DOMAIN ServersideEndpoints : e = ServersideEndpoints[k]
    BY DEF Range
  <2>2. e \in [addr : Clients, privateKey : DOMAIN begun]
    BY <2>1, ElementType DEF TypeOK
  <2>3. e.privateKey \in DOMAIN begun
    BY <2>2
  <2>4. DOMAIN begun = 1 .. Len(begun) /\ Len(begun) \in Nat /\ Len(begun) <= MaxExchanges
    BY DEF TypeOK
  <2> QED BY <2>3, <2>4, SessionAssumption DEF Keys
<1>4. KeysOf(u.from) # {} => (CHOOSE key \in KeysOf(u.from) : TRUE) \in Keys
  BY <1>3
<1> HIDE DEF sent
<1>5. KeysOf(u.from) # {} => Applied(sent, "dec", CHOOSE key \in KeysOf(u.from) : TRUE) \in Layers
  BY <1>2, <1>4, AppliedType
<1> QED BY <1>2, <1>5 DEF ReceivedByServer, sent

(* A multicast that is called is the last of casts. *)
LEMMA CalledEffect ==
    ASSUME casts \in Seq(Cast), NEW t \in Threads, NEW layers, NEW group \in Seq(Clients),
           TypeOK, Called(t, layers, group)
    PROVE  /\ casts' \in Seq(Cast) /\ Len(casts') = Len(casts) + 1
           /\ Len(casts) + 1 \notin DOMAIN casts
           /\ DOMAIN casts' = DOMAIN casts \cup {Len(casts) + 1}
           /\ \A n \in DOMAIN casts : casts'[n] = casts[n]
           /\ casts'[Len(casts) + 1] =
                [by |-> t, table |-> Addresses(ServersideEndpoints), group |-> group,
                 first |-> layers = <<>>, failed |-> {},
                 raced |-> FALSE, threw |-> FALSE]
<1> DEFINE first == layers = <<>>
           table == Addresses(ServersideEndpoints)
           new == [by |-> t, table |-> table, group |-> group, first |-> first,
                   failed |-> {}, raced |-> FALSE, threw |-> FALSE]
<1>1. table \in Seq(Clients)
  BY AddressesType DEF TypeOK
<1>2. first \in BOOLEAN
  OBVIOUS
<1>3. casts' = Append(casts, new)
  BY DEF Called
<1> HIDE DEF first, table
<1>4. new \in Cast
  BY <1>1, <1>2 DEF Cast
<1> HIDE DEF new
<1>5. Len(casts') = Len(casts) + 1
  BY <1>3
<1>6. /\ casts' \in Seq(Cast)
      /\ Len(casts) + 1 \notin DOMAIN casts
      /\ DOMAIN casts' = DOMAIN casts \cup {Len(casts) + 1}
      /\ \A n \in DOMAIN casts : casts'[n] = casts[n]
      /\ casts'[Len(casts) + 1] = new
  BY <1>3, <1>4, AppendEntries
<1> QED BY <1>5, <1>6 DEF new, first, table

(* Registering e leaves an entry that is e, and no other of its address. *)
LEMMA RegisteredIsThere ==
    ASSUME NEW S, NEW eps \in Seq(S), NEW e \in S
    PROVE  /\ \E k \in DOMAIN Registered(eps, e) : Registered(eps, e)[k] = e
           /\ \A k \in DOMAIN Registered(eps, e) :
                \/ Registered(eps, e)[k] = e
                \/ /\ k \in DOMAIN eps /\ Registered(eps, e)[k] = eps[k]
                   /\ eps[k].addr # e.addr
<1>1. CASE \E k \in DOMAIN eps : eps[k].addr = e.addr
  BY <1>1, RegisteredReplaces
<1>2. CASE ~ \E k \in DOMAIN eps : eps[k].addr = e.addr
  <2>1. Registered(eps, e) = Append(eps, e)
    BY <1>2, RegisteredAppends
  <2>2. /\ DOMAIN Registered(eps, e) = DOMAIN eps \cup {Len(eps) + 1}
        /\ Registered(eps, e)[Len(eps) + 1] = e
        /\ \A i \in DOMAIN eps : Registered(eps, e)[i] = eps[i]
    BY <2>1, AppendEntries
  <2> QED BY <1>2, <2>2
<1> QED BY <1>1, <1>2

-----------------------------------------------------------------------------
(* The type invariant, with what keeps the steps of the two threads typed. *)

(* The elements of the state that TypeInv speaks of, typed one by one. *)
SendStates == [at : {"rest", "copy", "send"}, cast : 0 .. MaxCasts, i : Nat, layers : Layers]

LEMMA SendType ==
    ASSUME TypeOK
    PROVE  /\ send \in [Threads -> SendStates] /\ "app" \in Threads /\ "listener" \in Threads
           /\ \A t \in Threads : send[t] \in SendStates
BY DEF TypeOK, SendStates, Threads

LEMMA InitType == Init => TypeInv
<1> SUFFICES ASSUME Init PROVE TypeInv
  OBVIOUS
<1> USE DEF Init
<1>1. begun \in Seq(Clients) /\ Len(begun) = 0 /\ DOMAIN begun = {} /\ answered = {}
  OBVIOUS
<1>2. clientSecret \in [Clients -> Keys] /\ registered \in [Clients -> 0 .. Len(begun)]
  BY <1>1, SessionAssumption DEF Keys
<1>3. ServersideEndpoints \in Seq([addr : Clients, privateKey : DOMAIN begun])
  OBVIOUS
<1>4. handling \in [at : {"idle", "derive", "register"}, exchange : 0 .. Len(begun)]
  BY <1>1 DEF Idle
<1>5. ASSUME NEW t \in Threads PROVE send[t] \in SendStates /\ send[t].at = "rest"
  <2>1. <<>> \in Layers /\ 0 \in 0 .. MaxCasts
    BY SessionAssumption DEF Layers
  <2> QED BY <2>1 DEF SendStates
<1>6. send \in [Threads -> SendStates]
  BY <1>5
<1>7. casts \in Seq(Cast) /\ Len(casts) = 0 /\ Len(casts) <= MaxCasts /\ wire = {} /\ uplink = {}
  BY SessionAssumption
<1>8. TypeOK
  <2>1. isServer \in BOOLEAN /\ constructed \in BOOLEAN /\ (constructed => isServer)
    OBVIOUS
  <2>2. sharedSecret \in 0 .. Len(begun) /\ (send["listener"].at # "rest" => handling = Idle)
    BY <1>1
  <2>3. \A d \in wire : d.cast \in DOMAIN casts /\ d.pos \in DOMAIN casts[d.cast].group
    BY <1>7
  <2>4. Len(begun) <= MaxExchanges /\ answered \subseteq DOMAIN begun
    BY <1>1, SessionAssumption
  <2>5. uplink \subseteq [from : Clients, key : Keys]
    BY <1>7
  <2> QED BY <1>1, <1>2, <1>3, <1>4, <1>6, <1>7, <2>1, <2>2, <2>3, <2>4, <2>5 DEF TypeOK, SendStates
<1>9. StepsInv
  BY <1>5, <1>7 DEF StepsInv, Threads, Idle
<1> QED BY <1>8, <1>9 DEF TypeInv

(* A handshake that a client begins. *)
LEMMA BeginType ==
    ASSUME TypeInv, NEW c \in Clients, startHandshake(c)
    PROVE  TypeInv'
<1> USE DEF TypeInv, startHandshake, ClientGets
<1>1. begun' \in Seq(Clients) /\ Len(begun') = Len(begun) + 1 /\ Len(begun') <= MaxExchanges
  BY SessionAssumption DEF TypeOK
<1>2. DOMAIN begun = 1 .. Len(begun) /\ DOMAIN begun' = 1 .. Len(begun') /\ Len(begun) \in Nat
  BY <1>1 DEF TypeOK
<1>3. DOMAIN begun \subseteq DOMAIN begun' /\ 0 .. Len(begun) \subseteq 0 .. Len(begun')
  BY <1>1, <1>2
<1>4. 0 \in Keys
  BY SessionAssumption DEF Keys
<1>5. clientSecret' \in [Clients -> Keys] /\ uplink' \subseteq [from : Clients, key : Keys]
  BY <1>4 DEF TypeOK
<1>6. ServersideEndpoints' \in Seq([addr : Clients, privateKey : DOMAIN begun'])
  <2> DEFINE S == [addr : Clients, privateKey : DOMAIN begun]
             T == [addr : Clients, privateKey : DOMAIN begun']
  <2>1. S \subseteq T
    BY <1>3
  <2>2. ServersideEndpoints \in Seq(S)
    BY DEF TypeOK
  <2> HIDE DEF S, T
  <2>3. ServersideEndpoints \in Seq(T)
    BY <2>1, <2>2, WiderType
  <2> QED BY <2>3 DEF tableVars, T
<1>7. TypeOK'
  BY <1>1, <1>3, <1>5, <1>6 DEF TypeOK, tableVars, roleVars, castVars
<1>8. StepsInv'
  BY <1>3 DEF StepsInv, tableVars, castVars
<1> QED BY <1>7, <1>8

(* A secret that a client derives. *)
LEMMA DeriveType ==
    ASSUME TypeInv, NEW n \in Exchanges, ClientDerives(n)
    PROVE  TypeInv'
<1> USE DEF TypeInv, ClientDerives, ClientGets
<1>1. n \in DOMAIN begun /\ begun[n] \in Clients
  BY ElementType DEF TypeOK
<1>2. ClientKey(begun[n], n) \in Keys
  BY SessionAssumption DEF ClientKey, Keys, Exchanges
<1>3. clientSecret' \in [Clients -> Keys] /\ uplink' \subseteq [from : Clients, key : Keys]
  BY <1>1, <1>2 DEF TypeOK
<1>4. TypeOK'
  BY <1>3 DEF TypeOK, tableVars, roleVars, castVars
<1>5. StepsInv'
  BY DEF StepsInv, tableVars, castVars
<1> QED BY <1>4, <1>5

(* The last statement of the constructor, and a handshake handled before it. *)
LEMMA RoleType ==
    ASSUME TypeInv, SetIsServer \/ ServerLeavesOut
    PROVE  TypeInv'
<1> USE DEF TypeInv
<1>1. CASE SetIsServer
  <2>1. TypeOK'
    BY <1>1 DEF TypeOK, SetIsServer, clientVars, castVars
  <2>2. StepsInv'
    BY <1>1 DEF StepsInv, SetIsServer, clientVars, castVars
  <2> QED BY <2>1, <2>2
<1>2. CASE ServerLeavesOut
  <2>1. handling' = Idle /\ Idle \in [at : {"idle", "derive", "register"}, exchange : 0 .. Len(begun)]
    BY <1>2 DEF ServerLeavesOut, Idle, TypeOK
  <2>2. TypeOK'
    BY <1>2, <2>1 DEF TypeOK, ServerLeavesOut, clientVars, castVars, roleVars
  <2>3. StepsInv'
    BY <1>2, <2>1 DEF StepsInv, ServerLeavesOut, clientVars, castVars, roleVars, Idle
  <2> QED BY <2>2, <2>3
<1> QED BY <1>1, <1>2

(* The server's listener takes up a handshake, derives, and registers. *)
LEMMA AnswerType ==
    ASSUME TypeInv, NEW n \in Exchanges, ServerAnswers(n)
    PROVE  TypeInv'
<1> USE DEF TypeInv, ServerAnswers
<1>1. DOMAIN begun = 1 .. Len(begun) /\ n \in 0 .. Len(begun)
  BY DEF TypeOK
<1>2. handling' \in [at : {"idle", "derive", "register"}, exchange : 0 .. Len(begun)]
  BY <1>1
<1>3. TypeOK'
  BY <1>2 DEF TypeOK, clientVars, castVars, roleVars
<1>4. StepsInv'
  BY DEF StepsInv, clientVars, castVars
<1> QED BY <1>3, <1>4

LEMMA ServerDerivesType ==
    ASSUME TypeInv, ServerDerives
    PROVE  TypeInv'
<1> USE DEF TypeInv, ServerDerives
<1>1. handling.exchange \in DOMAIN begun /\ handling.exchange \in 0 .. Len(begun)
  BY DEF TypeOK, StepsInv
<1>2. handling' = [at |-> "register", exchange |-> handling.exchange]
  BY DEF TypeOK
<1>3. send["listener"].at = "rest"
  BY DEF TypeOK, Idle
<1>4. TypeOK'
  BY <1>1, <1>2, <1>3 DEF TypeOK, clientVars, castVars, roleVars
<1>5. StepsInv'
  BY <1>1, <1>2 DEF StepsInv, clientVars, castVars
<1> QED BY <1>4, <1>5

(* Registering an endpoint changes no multicast but for the mark of the race. *)
LEMMA RegisterCasts ==
    ASSUME TypeInv, ServerRegisters
    PROVE  /\ casts' \in Seq(Cast) /\ DOMAIN casts' = DOMAIN casts /\ Len(casts') = Len(casts)
           /\ \A n \in DOMAIN casts :
                casts'[n] = IF send["app"].at = "copy" /\ n = send["app"].cast
                            THEN [casts[n] EXCEPT !.raced = TRUE] ELSE casts[n]
<1>1. casts \in Seq(Cast)
  BY DEF TypeInv, StepsInv
<1>2. CASE send["app"].at = "copy"
  <2> DEFINE n == send["app"].cast
             v == [casts[n] EXCEPT !.raced = TRUE]
  <2>1. n \in DOMAIN casts
    BY <1>2 DEF TypeInv, StepsInv, Threads
  <2>2. casts[n] \in Cast
    BY <1>1, <2>1, ElementType
  <2>3. v \in Cast
    BY <2>2 DEF Cast
  <2>4. casts' = [casts EXCEPT ![n] = v]
    BY <1>2 DEF ServerRegisters
  <2> HIDE DEF n, v
  <2>5. /\ casts' \in Seq(Cast) /\ DOMAIN casts' = DOMAIN casts /\ Len(casts') = Len(casts)
        /\ \A k \in DOMAIN casts : casts'[k] = IF k = n THEN v ELSE casts[k]
    BY <1>1, <2>1, <2>3, <2>4, UpdateKeeps
  <2> QED BY <1>2, <2>5 DEF n, v
<1>3. CASE send["app"].at # "copy"
  BY <1>1, <1>3 DEF ServerRegisters
<1> QED BY <1>2, <1>3

LEMMA RegisterType ==
    ASSUME TypeInv, ServerRegisters
    PROVE  TypeInv'
<1> USE DEF TypeInv, ServerRegisters
<1> DEFINE E == [addr : Clients, privateKey : DOMAIN begun]
           c == begun[handling.exchange]
           e == [addr |-> c, privateKey |-> sharedSecret]
<1>1. handling.exchange \in DOMAIN begun /\ sharedSecret \in DOMAIN begun /\ c \in Clients
  BY ElementType DEF TypeOK, StepsInv
<1>2. e \in E
  BY <1>1
<1>3. ServersideEndpoints' \in Seq(E)
  <2> HIDE DEF e, E
  <2>1. ServersideEndpoints \in Seq(E)
    BY DEF TypeOK, E
  <2>2. Registered(ServersideEndpoints, e) \in Seq(E)
    BY <1>2, <2>1, RegisteredEntries
  <2> QED BY <2>2 DEF e
<1>4. handling.exchange \in 0 .. Len(begun) /\ registered' \in [Clients -> 0 .. Len(begun)]
  BY <1>1 DEF TypeOK
<1>5. send["listener"].at = "rest"
  BY DEF TypeOK, Idle
<1>6. casts' \in Seq(Cast) /\ DOMAIN casts' = DOMAIN casts /\ Len(casts') = Len(casts)
      /\ \A n \in DOMAIN casts : /\ casts'[n].by = casts[n].by /\ casts'[n].group = casts[n].group
                                    /\ casts'[n].failed = casts[n].failed
  <2>1. \A n \in DOMAIN casts : casts[n] \in Cast
    BY ElementType DEF StepsInv
  <2> QED BY <2>1, RegisterCasts DEF Cast
<1>7. handling' \in [at : {"idle", "derive", "register"}, exchange : 0 .. Len(begun)]
  BY DEF Idle
<1>8. TypeOK'
  BY <1>3, <1>4, <1>5, <1>6, <1>7 DEF TypeOK, clientVars, roleVars
<1>9. StepsInv'
  BY <1>6 DEF StepsInv, clientVars, Idle
<1> QED BY <1>8, <1>9

(* A multicast that thread t calls, and what it leaves alone: the application
   copies the table next, the listener's callback has passed it. *)
NextCast == Len(casts) + 1

Calls(t, layers) ==
    /\ layers \in Layers /\ send[t].at = "rest" /\ NextCast \in 1 .. MaxCasts
    /\ casts' \in Seq(Cast) /\ Len(casts') = NextCast /\ NextCast \notin DOMAIN casts
    /\ DOMAIN casts' = DOMAIN casts \cup {NextCast}
    /\ \A n \in DOMAIN casts : casts'[n] = casts[n]
    /\ casts'[NextCast].by = t
    /\ casts'[NextCast].table = Addresses(ServersideEndpoints)
    /\ casts'[NextCast].group = IF t = "app" THEN <<>> ELSE Addresses(ServersideEndpoints)
    /\ casts'[NextCast].first <=> layers = <<>>
    /\ casts'[NextCast].failed = {}
    /\ ~casts'[NextCast].raced /\ ~casts'[NextCast].threw
    /\ send' \in [Threads -> SendStates]
    /\ \A u \in Threads : u # t => send'[u] = send[u]
    /\ send'[t].at = IF t = "app" THEN "copy" ELSE "send"
    /\ send'[t].cast = NextCast /\ send'[t].i = 1 /\ send'[t].layers = layers
    /\ UNCHANGED <<clientVars, answered, tableVars, wire>>

LEMMA CalledWith ==
    ASSUME TypeInv, NEW t \in Threads, NEW layers \in Layers, send[t].at = "rest",
           Len(casts) < MaxCasts,
           Called(t, layers, IF t = "app" THEN <<>> ELSE Addresses(ServersideEndpoints)),
           send' = [send EXCEPT ![t] = [at |-> IF t = "app" THEN "copy" ELSE "send",
                                        cast |-> Len(casts'), i |-> 1, layers |-> layers]],
           UNCHANGED <<clientVars, answered, tableVars, wire>>
    PROVE  Calls(t, layers)
<1> DEFINE table == Addresses(ServersideEndpoints)
           group == IF t = "app" THEN <<>> ELSE table
           first == layers = <<>>
           at == IF t = "app" THEN "copy" ELSE "send"
           v == [at |-> at, cast |-> NextCast, i |-> 1, layers |-> layers]
<1>1. table \in Seq(Clients)
  BY AddressesType DEF TypeInv, TypeOK
<1>2. group \in Seq(Clients) /\ casts \in Seq(Cast) /\ TypeOK
  BY <1>1 DEF TypeInv, StepsInv
<1>3. /\ casts' \in Seq(Cast) /\ Len(casts') = NextCast /\ NextCast \notin DOMAIN casts
      /\ DOMAIN casts' = DOMAIN casts \cup {NextCast}
      /\ \A n \in DOMAIN casts : casts'[n] = casts[n]
      /\ casts'[NextCast] = [by |-> t, table |-> table, group |-> group, first |-> first,
                             failed |-> {}, raced |-> FALSE, threw |-> FALSE]
  BY <1>2, CalledEffect DEF NextCast
<1>4. NextCast \in 1 .. MaxCasts
  BY <1>2, SessionAssumption DEF NextCast
<1>5. at \in {"rest", "copy", "send"}
  OBVIOUS
<1>6. v \in SendStates
  <2> HIDE DEF at
  <2> QED BY <1>4, <1>5, SessionAssumption DEF SendStates
<1>7. send' = [send EXCEPT ![t] = v]
  BY <1>3
<1> HIDE DEF v, at, first, group, table
<1>8. /\ send' \in [Threads -> SendStates] /\ send'[t] = v
      /\ \A u \in Threads : u # t => send'[u] = send[u]
  BY <1>6, <1>7, SendType DEF TypeInv
<1>9. /\ send'[t].at = at /\ send'[t].cast = NextCast
      /\ send'[t].i = 1 /\ send'[t].layers = layers
  BY <1>8 DEF v
<1>10. /\ casts'[NextCast].by = t /\ casts'[NextCast].table = table
       /\ casts'[NextCast].group = group
       /\ casts'[NextCast].first = first /\ casts'[NextCast].failed = {}
       /\ casts'[NextCast].raced = FALSE /\ casts'[NextCast].threw = FALSE
  BY <1>3
<1> QED BY <1>3, <1>4, <1>8, <1>9, <1>10 DEF Calls, at, group, table, first

(* The application calls multicastPacket with a new packet or with its last. *)
LEMMA CallMulticastCalls ==
    ASSUME TypeInv, NEW layers \in {<<>>, send["app"].layers}, CallMulticast(layers)
    PROVE  Calls("app", layers)
<1>1. send["app"] \in SendStates /\ "app" \in Threads
  BY SendType DEF TypeInv
<1>2. send["app"].layers \in Layers
  BY <1>1 DEF SendStates
<1>3. <<>> \in Layers
  BY DEF Layers
<1>4. layers \in Layers
  BY <1>2, <1>3
<1> QED BY <1>1, <1>4, CalledWith DEF CallMulticast

(* The listener's callback multicasts what it was handed. *)
LEMMA RelayCalls ==
    ASSUME TypeInv, NEW u \in uplink, Relay(u)
    PROVE  Calls("listener", ReceivedByServer(u))
<1>1. "listener" \in Threads /\ ReceivedByServer(u) \in Layers
  BY ReceivedType, SendType DEF TypeInv
<1> QED BY <1>1, CalledWith DEF Relay

LEMMA CallsType ==
    ASSUME TypeInv, NEW t \in Threads, NEW layers, Calls(t, layers),
           t = "listener" => handling = Idle
    PROVE  TypeInv'
<1>1. /\ casts' \in Seq(Cast) /\ Len(casts') = NextCast /\ Len(casts') <= MaxCasts
      /\ NextCast \notin DOMAIN casts /\ NextCast \in DOMAIN casts'
      /\ \A n \in DOMAIN casts : n \in DOMAIN casts' /\ casts'[n] = casts[n]
  BY SessionAssumption DEF Calls
<1>2. /\ send' \in [Threads -> SendStates]
      /\ \A u \in Threads : u # t => send'[u] = send[u]
  BY DEF Calls
<1>3. /\ send'[t].at = IF t = "app" THEN "copy" ELSE "send"
      /\ send'[t].cast = NextCast /\ send'[t].i = 1 /\ casts'[NextCast].by = t
      /\ casts'[NextCast].failed = {}
  BY DEF Calls
<1>4. UNCHANGED <<clientVars, answered, tableVars, wire>>
  BY DEF Calls
<1>5. send'["listener"].at # "copy" /\ (send'["listener"].at # "rest" => handling = Idle)
  BY <1>2, <1>3, SendType DEF TypeInv, TypeOK, StepsInv, Threads
<1>6. TypeOK'
  BY <1>1, <1>2, <1>4, <1>5 DEF TypeInv, TypeOK, clientVars, tableVars, roleVars, SendStates
<1>7. \A d \in wire : d.cast # NextCast
  BY <1>1 DEF TypeInv, TypeOK
<1>8. 1 \in 1 .. Len(casts'[NextCast].group) + 1
  <2>1. casts'[NextCast] \in Cast
    BY <1>1, ElementType
  <2> QED BY <2>1 DEF Cast
<1>9. ASSUME NEW u \in Threads, send'[u].at # "rest"
      PROVE  /\ send'[u].cast \in DOMAIN casts' /\ casts'[send'[u].cast].by = u
             /\ send'[u].at = "copy" =>
                 /\ send'[u].i = 1 /\ casts'[send'[u].cast].failed = {}
                 /\ \A d \in wire : d.cast # send'[u].cast
             /\ send'[u].at = "send" => send'[u].i \in 1 .. Len(casts'[send'[u].cast].group) + 1
  <2>1. CASE u = t
    BY <1>1, <1>3, <1>7, <1>8, <2>1
  <2>2. CASE u # t
    BY <1>1, <1>2, <1>9, <2>2 DEF TypeInv, StepsInv
  <2> QED BY <2>1, <2>2
<1>10. StepsInv'
  BY <1>1, <1>4, <1>5, <1>9 DEF TypeInv, StepsInv, clientVars, tableVars
<1> QED BY <1>6, <1>10 DEF TypeInv

(* The copy is the group of the multicast that was called. *)
LEMMA CopyCasts ==
    ASSUME TypeInv, CopyTable
    PROVE  /\ send["app"].cast \in DOMAIN casts
           /\ casts' \in Seq(Cast) /\ DOMAIN casts' = DOMAIN casts /\ Len(casts') = Len(casts)
           /\ \A k \in DOMAIN casts : k # send["app"].cast => casts'[k] = casts[k]
           /\ \E table \in {casts[send["app"].cast].table, Addresses(ServersideEndpoints)} :
                /\ table \in Seq(Clients)
                /\ casts'[send["app"].cast] = [casts[send["app"].cast] EXCEPT !.group = table]
<1> DEFINE n == send["app"].cast
<1>1. casts \in Seq(Cast) /\ n \in DOMAIN casts
  BY DEF TypeInv, StepsInv, CopyTable, Threads
<1>2. PICK table \in {casts[n].table, Addresses(ServersideEndpoints)} :
          casts' = [casts EXCEPT ![n].group = table]
  BY DEF CopyTable
<1>3. casts[n] \in Cast
  BY <1>1, ElementType
<1>4. table \in Seq(Clients)
  <2>1. casts[n].table \in Seq(Clients)
    BY <1>3 DEF Cast
  <2>2. Addresses(ServersideEndpoints) \in Seq(Clients)
    BY AddressesType DEF TypeInv, TypeOK
  <2> QED BY <2>1, <2>2
<1> DEFINE v == [casts[n] EXCEPT !.group = table]
<1>5. v \in Cast
  BY <1>3, <1>4 DEF Cast
<1>6. casts' = [casts EXCEPT ![n] = v]
  BY <1>2
<1> HIDE DEF n, v
<1>7. /\ casts' \in Seq(Cast) /\ DOMAIN casts' = DOMAIN casts /\ Len(casts') = Len(casts)
      /\ \A k \in DOMAIN casts : casts'[k] = IF k = n THEN v ELSE casts[k]
  BY <1>1, <1>5, <1>6, UpdateKeeps
<1> QED BY <1>1, <1>2, <1>4, <1>7 DEF n, v

LEMMA CopyType ==
    ASSUME TypeInv, CopyTable
    PROVE  TypeInv'
<1> DEFINE n == send["app"].cast
<1>1. /\ n \in DOMAIN casts /\ casts' \in Seq(Cast)
      /\ DOMAIN casts' = DOMAIN casts /\ Len(casts') = Len(casts)
      /\ \A k \in DOMAIN casts : k # n => casts'[k] = casts[k]
  BY CopyCasts
<1>2. casts'[n].by = casts[n].by /\ casts'[n].group \in Seq(Clients)
  <2>1. casts[n] \in Cast
    BY <1>1, ElementType DEF TypeInv, StepsInv
  <2> QED BY <2>1, CopyCasts DEF Cast
<1> USE DEF TypeInv, CopyTable
<1>3. send' = [send EXCEPT !["app"].at = "send"] /\ wire' = wire
      /\ \A d \in wire : d.cast # n
  BY DEF StepsInv, Threads
<1>4. send' \in [Threads -> SendStates] /\ send'["listener"] = send["listener"]
  <2>1. [send["app"] EXCEPT !.at = "send"] \in SendStates
    BY SendType DEF SendStates
  <2> QED BY <1>3, <2>1, SendType
<1>5. send'["app"].at = "send" /\ send'["app"].cast = n /\ send'["app"].i = 1
  BY <1>3 DEF TypeOK, StepsInv, Threads
<1>6. TypeOK'
  BY <1>1, <1>3, <1>4 DEF TypeOK, clientVars, tableVars, roleVars, SendStates
<1>7. StepsInv'
  <2>1. handling' = handling /\ begun' = begun /\ sharedSecret' = sharedSecret
    BY DEF clientVars, tableVars
  <2>2. send["listener"].at # "rest" => send["listener"].cast \in DOMAIN casts /\ send["listener"].cast # n
    BY DEF StepsInv, Threads
  <2>3. 1 \in 1 .. Len(casts'[n].group) + 1
    BY <1>2
  <2> QED BY <1>1, <1>2, <1>3, <1>4, <1>5, <2>1, <2>2, <2>3 DEF StepsInv, Threads
<1> QED BY <1>6, <1>7

(* One sendPacket of the loop, with its outcome: sendto takes the datagram or
   not, and the call throws or not. *)
DatagramOf(t) ==
    [cast |-> send[t].cast, pos |-> send[t].i, to |-> casts[send[t].cast].group[send[t].i],
     layers |-> LayersSent(send[t].layers), key |-> sharedSecret]

Outcome(t, taken, throws) ==
    LET n == send[t].cast
    IN  /\ throws => t = "app"
        /\ wire' = IF taken THEN wire \cup {DatagramOf(t)} ELSE wire
        /\ casts' = [casts EXCEPT ![n].threw = throws,
                        ![n].failed = IF taken THEN @ ELSE @ \cup {send[t].i}]
        /\ send' = [send EXCEPT ![t].layers = LayersSent(send[t].layers),
                        ![t].at = IF throws THEN "rest" ELSE "send",
                        ![t].i = IF throws THEN @ ELSE @ + 1]

LEMMA SendOutcome ==
    ASSUME NEW t \in Threads, SendNext(t)
    PROVE  /\ send[t].at = "send" /\ send[t].i <= Len(casts[send[t].cast].group)
           /\ \E taken, throws \in BOOLEAN : Outcome(t, taken, throws)
           /\ UNCHANGED <<clientVars, answered, tableVars>>
BY DEF SendNext, Outcome, DatagramOf

LEMMA SentType ==
    ASSUME TypeInv, NEW t \in Threads, send[t].at = "send",
           send[t].i <= Len(casts[send[t].cast].group)
    PROVE  /\ send[t].cast \in DOMAIN casts /\ casts[send[t].cast] \in Cast
           /\ send[t].i \in DOMAIN casts[send[t].cast].group /\ send[t].i \in Nat
           /\ casts[send[t].cast].group \in Seq(Clients)
           /\ LayersSent(send[t].layers) \in Layers
           /\ DatagramOf(t) \in Datagram
<1> DEFINE n == send[t].cast
<1>1. n \in DOMAIN casts /\ send[t].i \in 1 .. Len(casts[n].group) + 1 /\ casts[n] \in Cast
  BY ElementType DEF TypeInv, StepsInv
<1>2. casts[n].group \in Seq(Clients)
  BY <1>1 DEF Cast
<1>3. send[t].i \in DOMAIN casts[n].group /\ casts[n].group[send[t].i] \in Clients
  BY <1>1, <1>2
<1>4. sharedSecret \in Keys /\ sharedSecret \in Nat
  BY SessionAssumption DEF TypeInv, TypeOK, Keys
<1>5. send[t].layers \in Layers /\ n \in Nat /\ send[t].i \in Nat
  BY SendType, SessionAssumption DEF TypeInv, SendStates
<1>6. LayersSent(send[t].layers) \in Layers
  BY <1>4, <1>5, AppliedType DEF LayersSent
<1>7. DatagramOf(t) \in Datagram
  <2> DEFINE layers == LayersSent(send[t].layers)
             to == casts[n].group[send[t].i]
  <2>1. DatagramOf(t) = [cast |-> n, pos |-> send[t].i, to |-> to,
                         layers |-> layers, key |-> sharedSecret]
    BY DEF DatagramOf
  <2> HIDE DEF layers, to
  <2>2. to \in Clients /\ layers \in Layers
    BY <1>3, <1>6 DEF layers, to
  <2> QED BY <1>4, <1>5, <2>1, <2>2 DEF Datagram
<1> QED BY <1>1, <1>2, <1>3, <1>5, <1>6, <1>7

(* What an outcome makes of the thread and of the multicast. *)
LEMMA OutcomeEffect ==
    ASSUME TypeInv, NEW t \in Threads, send[t].at = "send",
           send[t].i <= Len(casts[send[t].cast].group),
           NEW taken \in BOOLEAN, NEW throws \in BOOLEAN, Outcome(t, taken, throws)
    PROVE  /\ send' \in [Threads -> SendStates]
           /\ \A u \in Threads : u # t => send'[u] = send[u]
           /\ send'[t].cast = send[t].cast /\ send'[t].layers = LayersSent(send[t].layers)
           /\ send'[t].at = IF throws THEN "rest" ELSE "send"
           /\ send'[t].i = IF throws THEN send[t].i ELSE send[t].i + 1
           /\ casts' \in Seq(Cast) /\ DOMAIN casts' = DOMAIN casts /\ Len(casts') = Len(casts)
           /\ \A k \in DOMAIN casts :
                /\ k # send[t].cast => casts'[k] = casts[k]
                /\ casts'[k].by = casts[k].by /\ casts'[k].table = casts[k].table
                /\ casts'[k].group = casts[k].group /\ casts'[k].raced = casts[k].raced
                /\ casts'[k].first = casts[k].first
           /\ casts'[send[t].cast].threw = throws
           /\ casts'[send[t].cast].failed =
                IF taken THEN casts[send[t].cast].failed
                ELSE casts[send[t].cast].failed \cup {send[t].i}
<1> DEFINE n == send[t].cast
           s == send[t]
           c == casts[n]
           layers == LayersSent(s.layers)
           at == IF throws THEN "rest" ELSE "send"
           i == IF throws THEN s.i ELSE s.i + 1
           failed == IF taken THEN c.failed ELSE c.failed \cup {s.i}
<1>1. n \in DOMAIN casts /\ c \in Cast /\ s.i \in Nat /\ layers \in Layers
  BY SentType
<1>2. send \in [Threads -> SendStates] /\ s \in SendStates
  BY SendType DEF TypeInv
<1>3. casts \in Seq(Cast)
  BY DEF TypeInv, StepsInv
<1> HIDE DEF layers
<1>4. at \in {"rest", "copy", "send"} /\ i \in Nat
  BY <1>1
<1>5. failed \in SUBSET Nat
  BY <1>1 DEF Cast
<1>6. PICK v : v = [s EXCEPT !.layers = layers, !.at = at, !.i = i] /\ send' = [send EXCEPT ![t] = v]
  BY <1>2 DEF Outcome, layers
<1>7. PICK w : w = [c EXCEPT !.threw = throws, !.failed = failed] /\ casts' = [casts EXCEPT ![n] = w]
  BY <1>1 DEF Outcome
<1> HIDE DEF at, i, failed
<1>8. v \in SendStates /\ v.at = at /\ v.cast = n /\ v.i = i /\ v.layers = layers
  BY <1>1, <1>2, <1>4, <1>6 DEF SendStates
<1>9. /\ w \in Cast /\ w.by = c.by /\ w.table = c.table /\ w.group = c.group
      /\ w.first = c.first /\ w.raced = c.raced /\ w.threw = throws /\ w.failed = failed
  BY <1>1, <1>5, <1>7 DEF Cast
<1> HIDE DEF n
<1>12. /\ casts' \in Seq(Cast) /\ DOMAIN casts' = DOMAIN casts /\ Len(casts') = Len(casts)
       /\ \A k \in DOMAIN casts : casts'[k] = IF k = n THEN w ELSE casts[k]
  BY <1>1, <1>3, <1>7, <1>9, UpdateKeeps
<1>13. /\ send' \in [Threads -> SendStates] /\ send'[t] = v
       /\ \A u \in Threads : u # t => send'[u] = send[u]
  BY <1>2, <1>6, <1>8
<1>14. casts'[n] = w
  BY <1>1, <1>12
<1>15. /\ send'[t].cast = n /\ send'[t].layers = layers /\ send'[t].at = at /\ send'[t].i = i
  BY <1>8, <1>13
<1>16. \A k \in DOMAIN casts :
        /\ k # n => casts'[k] = casts[k]
        /\ casts'[k].by = casts[k].by /\ casts'[k].table = casts[k].table
        /\ casts'[k].group = casts[k].group /\ casts'[k].raced = casts[k].raced
        /\ casts'[k].first = casts[k].first
  BY <1>9, <1>12
<1> QED BY <1>9, <1>12, <1>13, <1>14, <1>15, <1>16 DEF n, layers, at, i, failed

LEMMA SendNextType ==
    ASSUME TypeInv, NEW t \in Threads, SendNext(t)
    PROVE  TypeInv'
<1> DEFINE n == send[t].cast
           new == DatagramOf(t)
<1>0. /\ send[t].at = "send" /\ send[t].i <= Len(casts[n].group)
      /\ UNCHANGED <<clientVars, answered, tableVars>>
  BY SendOutcome
<1>1. PICK taken \in BOOLEAN, throws \in BOOLEAN : Outcome(t, taken, throws)
  BY SendOutcome
<1>2. /\ n \in DOMAIN casts /\ send[t].i \in DOMAIN casts[n].group /\ send[t].i \in Nat
      /\ casts[n].group \in Seq(Clients) /\ new \in Datagram
  BY <1>0, SentType
<1>3. /\ send' \in [Threads -> SendStates]
      /\ \A u \in Threads : u # t => send'[u] = send[u]
      /\ send'[t].cast = n
      /\ send'[t].at = IF throws THEN "rest" ELSE "send"
      /\ send'[t].i = IF throws THEN send[t].i ELSE send[t].i + 1
      /\ casts' \in Seq(Cast) /\ DOMAIN casts' = DOMAIN casts /\ Len(casts') = Len(casts)
      /\ \A k \in DOMAIN casts :
           /\ k # n => casts'[k] = casts[k]
           /\ casts'[k].by = casts[k].by /\ casts'[k].group = casts[k].group
  BY <1>0, <1>1, OutcomeEffect
<1>4. new.cast = n /\ new.pos = send[t].i /\ wire' \subseteq wire \cup {new}
  BY <1>1 DEF Outcome, DatagramOf
<1> HIDE DEF new
<1>5. send'["listener"].at \in {"rest", send["listener"].at}
  BY <1>0, <1>3, SendType DEF TypeInv
<1>6. TypeOK'
  <2>1. \A d \in wire' : d.cast \in DOMAIN casts' /\ d.pos \in DOMAIN casts'[d.cast].group
    <3> TAKE d \in wire'
    <3>1. d.cast \in DOMAIN casts /\ d.pos \in DOMAIN casts[d.cast].group
      BY <1>2, <1>4 DEF TypeInv, TypeOK
    <3> QED BY <1>3, <3>1
  <2> QED BY <1>0, <1>3, <1>5, <2>1 DEF TypeInv, TypeOK, clientVars, tableVars, roleVars, SendStates
<1>7. \A u \in Threads : u # t /\ send[u].at # "rest" => send[u].cast # n
  BY <1>0 DEF TypeInv, StepsInv
<1>8. send[t].i + 1 \in 1 .. Len(casts[n].group) + 1
  BY <1>2
<1>9. wire' \subseteq Datagram
  BY <1>2, <1>4 DEF TypeInv, StepsInv
<1>10. ASSUME NEW u \in Threads, send'[u].at # "rest"
       PROVE  /\ send'[u].cast \in DOMAIN casts' /\ casts'[send'[u].cast].by = u
              /\ send'[u].at = "copy" =>
                  /\ send'[u].i = 1 /\ casts'[send'[u].cast].failed = {}
                  /\ \A d \in wire' : d.cast # send'[u].cast
              /\ send'[u].at = "send" => send'[u].i \in 1 .. Len(casts'[send'[u].cast].group) + 1
  <2>1. CASE u = t
    <3>1. ~throws /\ send'[t].at = "send" /\ send'[t].i = send[t].i + 1
      BY <1>3, <1>10, <2>1
    <3>2. casts[n].by = t
      BY <1>0 DEF TypeInv, StepsInv
    <3> QED BY <1>2, <1>3, <1>8, <2>1, <3>1, <3>2
  <2>2. CASE u # t
    <3>1. send'[u] = send[u] /\ send[u].cast # n /\ send[u].cast \in DOMAIN casts
      BY <1>3, <1>7, <1>10, <2>2 DEF TypeInv, StepsInv
    <3>2. casts'[send[u].cast] = casts[send[u].cast]
      BY <1>3, <3>1
    <3> QED BY <1>3, <1>4, <1>10, <3>1, <3>2 DEF TypeInv, StepsInv
  <2> QED BY <2>1, <2>2
<1>11. StepsInv'
  BY <1>0, <1>3, <1>5, <1>9, <1>10 DEF TypeInv, StepsInv, clientVars, tableVars
<1> QED BY <1>6, <1>11 DEF TypeInv

LEMMA EndType ==
    ASSUME TypeInv, NEW t \in Threads, EndMulticast(t)
    PROVE  TypeInv'
<1> USE DEF TypeInv, EndMulticast
<1>1. send' = [send EXCEPT ![t].at = "rest"]
  OBVIOUS
<1>2. send' \in [Threads -> SendStates]
  <2>1. [send[t] EXCEPT !.at = "rest"] \in SendStates
    BY SendType DEF SendStates
  <2> QED BY <1>1, <2>1, SendType
<1>3. send'[t].at = "rest" /\ \A u \in Threads : u # t => send'[u] = send[u]
  BY SendType, <1>1 DEF SendStates
<1>4. send'["listener"].at \in {"rest", send["listener"].at}
  BY <1>3, SendType
<1>5. TypeOK'
  BY <1>2, <1>4 DEF TypeOK, clientVars, tableVars, roleVars, SendStates
<1>6. StepsInv'
  BY <1>3, <1>4 DEF StepsInv, clientVars, tableVars
<1> QED BY <1>5, <1>6

LEMMA TypeInvStep ==
    ASSUME TypeInv, [Next]_vars
    PROVE  TypeInv'
<1>1. ASSUME NEW c \in Clients, startHandshake(c) PROVE TypeInv'
  BY <1>1, BeginType
<1>2. ASSUME NEW n \in Exchanges, ClientDerives(n) PROVE TypeInv'
  BY <1>2, DeriveType
<1>3. ASSUME NEW n \in Exchanges, ServerAnswers(n) PROVE TypeInv'
  BY <1>3, AnswerType
<1>4. CASE ServerDerives
  BY <1>4, ServerDerivesType
<1>5. CASE ServerRegisters
  BY <1>5, RegisterType
<1>6. ASSUME NEW layers \in {<<>>, send["app"].layers}, CallMulticast(layers) PROVE TypeInv'
  BY <1>6, CallMulticastCalls, CallsType, SendType DEF TypeInv
<1>7. CASE CopyTable
  BY <1>7, CopyType
<1>8. ASSUME NEW t \in Threads, SendNext(t) PROVE TypeInv'
  BY <1>8, SendNextType
<1>9. ASSUME NEW t \in Threads, EndMulticast(t) PROVE TypeInv'
  BY <1>9, EndType
<1>10. ASSUME NEW u \in uplink, Relay(u) PROVE TypeInv'
  BY <1>10, RelayCalls, CallsType, SendType DEF TypeInv, Relay
<1>11. CASE UNCHANGED vars
  <2>1. TypeOK'
    BY <1>11 DEF TypeInv, TypeOK, vars, clientVars, tableVars, roleVars, castVars
  <2>2. StepsInv'
    BY <1>11 DEF TypeInv, StepsInv, vars, clientVars, tableVars, castVars
  <2> QED BY <2>1, <2>2 DEF TypeInv
<1>12. CASE SetIsServer \/ ServerLeavesOut
  BY <1>12, RoleType
<1> QED
  BY <1>1, <1>2, <1>3, <1>4, <1>5, <1>6, <1>7, <1>8, <1>9, <1>10, <1>11, <1>12 DEF Next

-----------------------------------------------------------------------------
(* The table and the secrets. *)

LEMMA TableStep ==
    ASSUME TypeInv, TableInv, [Next]_vars
    PROVE  TableInv'
<1>1. CASE ServerRegisters
  <2> DEFINE E == [addr : Clients, privateKey : DOMAIN begun]
             c == begun[handling.exchange]
             e == [addr |-> c, privateKey |-> sharedSecret]
             eps == ServersideEndpoints
             new == Registered(eps, e)
  <2>1. /\ sharedSecret = handling.exchange /\ sharedSecret \in DOMAIN begun /\ c \in Clients
    BY <1>1, ElementType DEF ServerRegisters, TypeInv, TypeOK, StepsInv
  <2>2. e \in E /\ eps \in Seq(E)
    BY <2>1 DEF TypeInv, TypeOK
  <2>3. \A j, k \in DOMAIN eps : eps[j].addr = eps[k].addr => j = k
    BY DEF TableInv
  <2>4. /\ ServersideEndpoints' = new
        /\ registered' = [registered EXCEPT ![c] = e.privateKey]
    BY <1>1, <2>1 DEF ServerRegisters
  <2>5. e.addr = c /\ registered \in [Clients -> Nat]
    BY DEF TypeInv, TypeOK
  <2> HIDE DEF e, E, c, eps
  <2>6. \A j, k \in DOMAIN new : new[j].addr = new[k].addr => j = k
    BY <2>2, <2>3, RegisteredUnique
  <2>7. /\ \E k \in DOMAIN new : new[k] = e
        /\ \A k \in DOMAIN new :
             new[k] = e \/ (k \in DOMAIN eps /\ new[k] = eps[k] /\ eps[k].addr # e.addr)
    BY <2>2, RegisteredIsThere
  <2>8. \A k \in DOMAIN eps :
            k \in DOMAIN new /\ (new[k] = eps[k] \/ (eps[k].addr = e.addr /\ new[k].addr = e.addr))
    BY <2>2, RegisteredKeeps
  <2> HIDE DEF new
  <2>9. /\ \A k \in DOMAIN eps : eps[k].addr \in Clients /\ eps[k].privateKey = registered[eps[k].addr]
        /\ \A a \in Clients : registered[a] # 0 => \E k \in DOMAIN eps : eps[k].addr = a
    <3>1. \A k \in DOMAIN eps : eps[k] \in E
      BY <2>2, ElementType
    <3> QED BY <3>1 DEF TableInv, E, eps
  <2>10. \A k \in DOMAIN new : new[k].privateKey = registered'[new[k].addr]
    BY <2>1, <2>4, <2>5, <2>7, <2>9
  <2>11. ASSUME NEW a \in Clients, registered'[a] # 0
         PROVE  \E k \in DOMAIN new : new[k].addr = a
    <3>1. CASE a = c
      BY <2>5, <2>7, <3>1
    <3>2. CASE a # c
      <4>1. registered[a] # 0
        BY <2>4, <2>5, <2>11, <3>2
      <4>2. PICK k \in DOMAIN eps : eps[k].addr = a
        BY <2>9, <4>1
      <4> QED BY <2>5, <2>8, <3>2, <4>2
    <3> QED BY <3>1, <3>2
  <2> QED BY <2>4, <2>6, <2>10, <2>11 DEF TableInv
<1>2. CASE UNCHANGED <<ServersideEndpoints, registered>>
  BY <1>2 DEF TableInv
<1> QED
  BY <1>1, <1>2 DEF Next, startHandshake, ClientDerives, ServerAnswers, ServerDerives, CallMulticast,
     CopyTable, SendNext, EndMulticast, Relay, SetIsServer, ServerLeavesOut,
     vars, clientVars, tableVars, castVars

(* The server reads a client's packet exactly when it has the key the client
   last registered. *)
LEMMA TableReads ==
    ASSUME TypeInv, TableInv
    PROVE  UplinkReads
<1> SUFFICES ASSUME NEW u \in uplink
             PROVE  ReceivedByServer(u) = <<>> <=> u.key = registered[u.from] /\ u.key # 0
  BY DEF UplinkReads
<1> DEFINE c == u.from
           sent == <<<<"enc", u.key>>>>
<1>1. c \in Clients /\ registered[c] \in Nat
  BY DEF TypeInv, TypeOK
<1>2. \A k \in DOMAIN ServersideEndpoints :
          ServersideEndpoints[k].addr = c =>
              ServersideEndpoints[k].privateKey = registered[c] /\ registered[c] # 0
  <2> SUFFICES ASSUME NEW k \in DOMAIN ServersideEndpoints, ServersideEndpoints[k].addr = c
               PROVE  ServersideEndpoints[k].privateKey = registered[c] /\ registered[c] # 0
    OBVIOUS
  <2>1. ServersideEndpoints[k] \in [addr : Clients, privateKey : DOMAIN begun]
    BY ElementType DEF TypeInv, TypeOK
  <2>2. ServersideEndpoints[k].privateKey # 0
    BY <2>1 DEF TypeInv, TypeOK
  <2> QED BY <2>2 DEF TableInv
<1>3. KeysOf(c) = IF registered[c] = 0 THEN {} ELSE {registered[c]}
  <2>1. KeysOf(c) \subseteq {registered[c]} /\ (KeysOf(c) # {} => registered[c] # 0)
    BY <1>2 DEF KeysOf, Range
  <2>2. registered[c] # 0 => registered[c] \in KeysOf(c)
    BY <1>1, <1>2 DEF KeysOf, Range, TableInv
  <2> QED BY <2>1, <2>2
<1>4. sent # <<>> /\ Last(sent) = <<"enc", u.key>> /\ Front(sent) = <<>>
  BY DEF Last, Front
<1>5. \A x : Append(sent, x) # <<>>
  OBVIOUS
<1>6. CASE registered[c] = 0
  BY <1>3, <1>4, <1>6 DEF ReceivedByServer
<1>7. CASE registered[c] # 0
  <2>1. (CHOOSE key \in KeysOf(c) : TRUE) = registered[c]
    BY <1>3, <1>7
  <2>2. ReceivedByServer(u) = Applied(sent, "dec", registered[c])
    BY <1>3, <1>7, <2>1 DEF ReceivedByServer
  <2> HIDE DEF sent
  <2>3. CASE u.key = registered[c]
    BY <1>4, <1>7, <2>2, <2>3 DEF Applied
  <2>4. CASE u.key # registered[c]
    BY <1>4, <1>5, <2>2, <2>4 DEF Applied
  <2> QED BY <1>7, <2>3, <2>4
<1> QED BY <1>6, <1>7

-----------------------------------------------------------------------------
(* The steps of multicasts, for the invariants that follow. *)

(* What a step that is not in multicastPacket or its copy leaves alone. *)
LEMMA ThreadSteps ==
    ASSUME TypeInv, [Next]_vars
    PROVE  \/ UNCHANGED <<castVars, ServersideEndpoints>>
           \/ ServerRegisters
           \/ \E t \in Threads : \E layers : Calls(t, layers)
           \/ CopyTable
           \/ \E t \in Threads : SendNext(t)
           \/ \E t \in Threads : EndMulticast(t)
<1>1. ASSUME NEW layers \in {<<>>, send["app"].layers}, CallMulticast(layers)
      PROVE  \E t \in Threads : \E l : Calls(t, l)
  BY <1>1, CallMulticastCalls DEF Threads
<1>2. ASSUME NEW u \in uplink, Relay(u)
      PROVE  \E t \in Threads : \E l : Calls(t, l)
  BY <1>2, RelayCalls DEF Threads
<1> QED
  BY <1>1, <1>2 DEF Next, startHandshake, ClientDerives, ServerAnswers, ServerDerives, SetIsServer,
     ServerLeavesOut, vars, clientVars, tableVars, castVars

(* The copy sets the group of a multicast of which nothing was sent. *)
LEMMA CopyEffect ==
    ASSUME TypeInv, CopyTable
    PROVE  /\ send["app"].at = "copy" /\ send["app"].i = 1 /\ send["app"].cast \in DOMAIN casts
           /\ casts[send["app"].cast].failed = {}
           /\ \A d \in wire : d.cast # send["app"].cast
           /\ DOMAIN casts' = DOMAIN casts
           /\ \A n \in DOMAIN casts :
                /\ n # send["app"].cast => casts'[n].group = casts[n].group
                /\ casts'[n].by = casts[n].by /\ casts'[n].table = casts[n].table
                /\ casts'[n].first = casts[n].first /\ casts'[n].failed = casts[n].failed
                /\ casts'[n].raced = casts[n].raced /\ casts'[n].threw = casts[n].threw
           /\ casts'[send["app"].cast].group
                    \in {casts[send["app"].cast].table, Addresses(ServersideEndpoints)}
           /\ send'["listener"] = send["listener"]
           /\ send'["app"].at = "send" /\ send'["app"].cast = send["app"].cast
           /\ send'["app"].i = 1 /\ send'["app"].layers = send["app"].layers
           /\ UNCHANGED <<clientVars, answered, tableVars, wire>>
<1> DEFINE n == send["app"].cast
<1>1. /\ send["app"].at = "copy" /\ send["app"].i = 1 /\ casts[n].failed = {}
      /\ \A d \in wire : d.cast # n
  BY DEF CopyTable, TypeInv, StepsInv, Threads
<1>2. /\ n \in DOMAIN casts /\ DOMAIN casts' = DOMAIN casts
      /\ \A k \in DOMAIN casts : k # n => casts'[k] = casts[k]
  BY CopyCasts
<1>3. PICK table \in {casts[n].table, Addresses(ServersideEndpoints)} :
          casts'[n] = [casts[n] EXCEPT !.group = table]
  BY CopyCasts
<1>4. casts[n] \in Cast
  BY <1>2, ElementType DEF TypeInv, StepsInv
<1>5. /\ casts'[n].by = casts[n].by /\ casts'[n].table = casts[n].table
      /\ casts'[n].first = casts[n].first /\ casts'[n].failed = casts[n].failed
      /\ casts'[n].raced = casts[n].raced /\ casts'[n].threw = casts[n].threw
      /\ casts'[n].group = table
  BY <1>3, <1>4 DEF Cast
<1>6. /\ send'["listener"] = send["listener"]
      /\ send'["app"].at = "send" /\ send'["app"].cast = n
      /\ send'["app"].i = 1 /\ send'["app"].layers = send["app"].layers
  BY <1>1, SendType DEF CopyTable, TypeInv, SendStates, Threads
<1>7. \A k \in DOMAIN casts :
          /\ k # n => casts'[k].group = casts[k].group
          /\ casts'[k].by = casts[k].by /\ casts'[k].table = casts[k].table
          /\ casts'[k].first = casts[k].first /\ casts'[k].failed = casts[k].failed
          /\ casts'[k].raced = casts[k].raced /\ casts'[k].threw = casts[k].threw
  BY <1>2, <1>5
<1> QED BY <1>1, <1>2, <1>5, <1>6, <1>7 DEF CopyTable

(* Registering leaves everything of a multicast but the mark of the race. *)
LEMMA RegisterEffect ==
    ASSUME TypeInv, ServerRegisters
    PROVE  /\ DOMAIN casts' = DOMAIN casts
           /\ \A n \in DOMAIN casts :
                /\ casts'[n].by = casts[n].by /\ casts'[n].table = casts[n].table
                /\ casts'[n].group = casts[n].group /\ casts'[n].threw = casts[n].threw
                /\ casts'[n].first = casts[n].first /\ casts'[n].failed = casts[n].failed
                /\ casts'[n].raced <=> casts[n].raced \/ (send["app"].at = "copy" /\ n = send["app"].cast)
           /\ UNCHANGED <<clientVars, answered, sharedSecret, send, wire>>
<1>1. \A n \in DOMAIN casts : casts[n] \in Cast
  BY ElementType DEF TypeInv, StepsInv
<1>2. \A n \in DOMAIN casts :
        casts'[n] = IF send["app"].at = "copy" /\ n = send["app"].cast
                    THEN [casts[n] EXCEPT !.raced = TRUE] ELSE casts[n]
  BY RegisterCasts
<1>3. ASSUME NEW n \in DOMAIN casts
      PROVE  /\ casts'[n].by = casts[n].by /\ casts'[n].table = casts[n].table
             /\ casts'[n].group = casts[n].group /\ casts'[n].threw = casts[n].threw
             /\ casts'[n].first = casts[n].first /\ casts'[n].failed = casts[n].failed
             /\ casts'[n].raced <=> casts[n].raced \/ (send["app"].at = "copy" /\ n = send["app"].cast)
  BY <1>1, <1>2 DEF Cast
<1> QED BY <1>3, RegisterCasts DEF ServerRegisters

(* A thread's send adds the datagram of its position or marks the position as
   failed, and takes the thread further unless it throws. *)
SendsOf(t, taken, throws) ==
    /\ send'[t].at = IF throws THEN "rest" ELSE "send"
    /\ send'[t].i = IF throws THEN send[t].i ELSE send[t].i + 1
    /\ wire' = IF taken THEN wire \cup {DatagramOf(t)} ELSE wire
    /\ casts'[send[t].cast].threw = throws
    /\ casts'[send[t].cast].failed = IF taken THEN casts[send[t].cast].failed
                                     ELSE casts[send[t].cast].failed \cup {send[t].i}

LEMMA SendEffect ==
    ASSUME TypeInv, NEW t \in Threads, SendNext(t)
    PROVE  /\ send[t].at = "send" /\ send[t].cast \in DOMAIN casts
           /\ send[t].i \in DOMAIN casts[send[t].cast].group /\ send[t].i \in Nat
           /\ casts[send[t].cast].group \in Seq(Clients)
           /\ \A u \in Threads : u # t => send'[u] = send[u]
           /\ \A u \in Threads : u # t /\ send[u].at # "rest" => send[u].cast # send[t].cast
           /\ send'[t].cast = send[t].cast /\ send'[t].at \in {"rest", "send"}
           /\ DOMAIN casts' = DOMAIN casts
           /\ \A k \in DOMAIN casts :
                /\ k # send[t].cast => casts'[k] = casts[k]
                /\ casts'[k].by = casts[k].by /\ casts'[k].table = casts[k].table
                /\ casts'[k].group = casts[k].group /\ casts'[k].raced = casts[k].raced
                /\ casts'[k].first = casts[k].first
           /\ UNCHANGED <<clientVars, answered, tableVars>>
           /\ \E taken, throws \in BOOLEAN : SendsOf(t, taken, throws)
           /\ wire' \subseteq wire \cup {DatagramOf(t)}
<1> DEFINE n == send[t].cast
<1>1. /\ send[t].at = "send" /\ send[t].i <= Len(casts[n].group)
      /\ UNCHANGED <<clientVars, answered, tableVars>>
  BY SendOutcome
<1>2. PICK taken \in BOOLEAN, throws \in BOOLEAN : Outcome(t, taken, throws)
  BY SendOutcome
<1>3. /\ n \in DOMAIN casts /\ send[t].i \in DOMAIN casts[n].group /\ send[t].i \in Nat
      /\ casts[n].group \in Seq(Clients)
  BY <1>1, SentType
<1>4. \A u \in Threads : u # t /\ send[u].at # "rest" => send[u].cast # n
  BY <1>1 DEF TypeInv, StepsInv
<1>5. wire' = IF taken THEN wire \cup {DatagramOf(t)} ELSE wire
  BY <1>2 DEF Outcome
<1>6. SendsOf(t, taken, throws)
  BY <1>1, <1>2, <1>5, OutcomeEffect DEF SendsOf
<1>7. \A u \in Threads : u # t => send'[u] = send[u]
  BY <1>1, <1>2, OutcomeEffect
<1>8. /\ send'[t].cast = n /\ send'[t].at \in {"rest", "send"} /\ DOMAIN casts' = DOMAIN casts
      /\ \A k \in DOMAIN casts :
           /\ k # n => casts'[k] = casts[k]
           /\ casts'[k].by = casts[k].by /\ casts'[k].table = casts[k].table
           /\ casts'[k].group = casts[k].group /\ casts'[k].raced = casts[k].raced
           /\ casts'[k].first = casts[k].first
  BY <1>1, <1>2, OutcomeEffect
<1> QED BY <1>1, <1>3, <1>4, <1>5, <1>6, <1>7, <1>8

LEMMA EndEffect ==
    ASSUME TypeInv, NEW t \in Threads, EndMulticast(t)
    PROVE  /\ send[t].at = "send" /\ send[t].cast \in DOMAIN casts
           /\ casts[send[t].cast].group \in Seq(Clients)
           /\ send[t].i = Len(casts[send[t].cast].group) + 1
           /\ \A u \in Threads : u # t => send'[u] = send[u]
           /\ send'[t].at = "rest" /\ send'[t].cast = send[t].cast
           /\ UNCHANGED <<clientVars, answered, tableVars, casts, wire>>
<1>1. send[t].at = "send" /\ send[t].i > Len(casts[send[t].cast].group)
  BY DEF EndMulticast
<1>2. /\ send[t].cast \in DOMAIN casts /\ casts[send[t].cast] \in Cast
      /\ send[t].i \in 1 .. Len(casts[send[t].cast].group) + 1
  BY <1>1, ElementType DEF TypeInv, StepsInv
<1>3. casts[send[t].cast].group \in Seq(Clients)
  BY <1>2 DEF Cast
<1>4. send[t].i = Len(casts[send[t].cast].group) + 1
  BY <1>1, <1>2, <1>3
<1>5. /\ \A u \in Threads : u # t => send'[u] = send[u]
      /\ send'[t].at = "rest" /\ send'[t].cast = send[t].cast
  BY SendType DEF EndMulticast, TypeInv, SendStates
<1> QED BY <1>1, <1>2, <1>3, <1>4, <1>5 DEF EndMulticast

-----------------------------------------------------------------------------
(* The secrets in use, and the layers of what is sent under them. *)

(* Whoever is sent something was in the table, after the first secret. *)
LEMMA SecretsStep ==
    ASSUME TypeInv, SecretsInv, [Next]_vars
    PROVE  SecretsInv'
<1> DEFINE Nobody == sharedSecret = 0 =>
                        /\ ServersideEndpoints = <<>>
                        /\ \A n \in DOMAIN casts : casts[n].table = <<>> /\ casts[n].group = <<>>
           Handled == handling.at = "derive" => handling.exchange \in answered
           Made == sharedSecret # 0 => sharedSecret \in answered
           Sent == \A d \in wire : d.key \in answered
<1>1. Nobody /\ Handled /\ Made /\ Sent
  BY DEF SecretsInv
<1>2. DOMAIN begun = 1 .. Len(begun) /\ Len(begun) \in Nat
  BY DEF TypeInv, TypeOK
<1>3. Addresses(<<>>) = <<>>
  BY DEF Addresses
<1>4. ASSUME UNCHANGED <<answered, sharedSecret, ServersideEndpoints, handling, castVars>>
      PROVE  SecretsInv'
  BY <1>1, <1>4 DEF SecretsInv, castVars
<1>5. ASSUME NEW n \in Exchanges, ServerAnswers(n)
      PROVE  SecretsInv'
  BY <1>1, <1>5 DEF ServerAnswers, SecretsInv, castVars
<1>6. CASE ServerDerives
  <2>1. handling.exchange \in DOMAIN begun
    BY <1>6 DEF ServerDerives, TypeInv, StepsInv
  <2>2. sharedSecret' # 0 /\ sharedSecret' \in answered
    BY <1>1, <1>2, <1>6, <2>1 DEF ServerDerives
  <2>3. handling'.at # "derive"
    BY <1>6 DEF ServerDerives, TypeInv, TypeOK
  <2> QED BY <1>1, <1>6, <2>2, <2>3 DEF ServerDerives, SecretsInv, castVars
<1>7. CASE ServerRegisters
  <2>1. sharedSecret # 0
    BY <1>2, <1>7 DEF ServerRegisters, TypeInv, TypeOK, StepsInv
  <2>2. handling'.at # "derive"
    BY <1>7 DEF ServerRegisters, Idle
  <2> QED BY <1>1, <1>7, <2>1, <2>2, RegisterEffect DEF SecretsInv
<1>8. CASE ServerLeavesOut
  <2>1. handling'.at # "derive"
    BY <1>8 DEF ServerLeavesOut, Idle
  <2> QED BY <1>1, <1>8, <2>1 DEF ServerLeavesOut, SecretsInv, castVars
<1>9. ASSUME NEW t \in Threads, NEW layers, Calls(t, layers)
      PROVE  SecretsInv'
  <2>1. UNCHANGED <<answered, tableVars, wire>>
    BY <1>9 DEF Calls
  <2>2. /\ DOMAIN casts' = DOMAIN casts \cup {NextCast}
        /\ \A n \in DOMAIN casts : casts'[n] = casts[n]
        /\ casts'[NextCast].table = Addresses(ServersideEndpoints)
        /\ casts'[NextCast].group \in {<<>>, Addresses(ServersideEndpoints)}
    BY <1>9 DEF Calls
  <2>3. Nobody'
    BY <1>1, <1>3, <2>1, <2>2 DEF tableVars
  <2> QED BY <1>1, <2>1, <2>3 DEF SecretsInv, tableVars
<1>10. CASE CopyTable
  <2>1. Nobody'
    BY <1>1, <1>3, <1>10, CopyEffect DEF tableVars
  <2> QED BY <1>1, <1>10, <2>1, CopyEffect DEF SecretsInv, tableVars
<1>11. ASSUME NEW t \in Threads, SendNext(t)
       PROVE  SecretsInv'
  <2>1. /\ send[t].cast \in DOMAIN casts /\ send[t].i \in DOMAIN casts[send[t].cast].group
        /\ DOMAIN casts' = DOMAIN casts
        /\ \A k \in DOMAIN casts : casts'[k].table = casts[k].table /\ casts'[k].group = casts[k].group
        /\ UNCHANGED <<answered, tableVars>>
        /\ wire' \subseteq wire \cup {DatagramOf(t)}
    BY <1>11, SendEffect
  <2>2. sharedSecret # 0
    BY <1>1, <2>1
  <2>3. DatagramOf(t).key \in answered
    BY <1>1, <2>2 DEF DatagramOf
  <2>4. Nobody' /\ Sent'
    BY <1>1, <2>1, <2>2, <2>3 DEF tableVars
  <2> QED BY <1>1, <2>1, <2>4 DEF SecretsInv, tableVars
<1>12. ASSUME NEW t \in Threads, EndMulticast(t)
       PROVE  SecretsInv'
  BY <1>1, <1>12, EndEffect DEF SecretsInv, tableVars
<1> QED
  <2>1. ASSUME NEW layers \in {<<>>, send["app"].layers}, CallMulticast(layers) PROVE SecretsInv'
    BY <1>9, <2>1, CallMulticastCalls, SendType DEF TypeInv
  <2>2. ASSUME NEW u \in uplink, Relay(u) PROVE SecretsInv'
    BY <1>9, <2>2, RelayCalls, SendType DEF TypeInv
  <2>3. ASSUME NEW c \in Clients, startHandshake(c) PROVE SecretsInv'
    BY <1>4, <2>3 DEF startHandshake, tableVars, castVars
  <2>4. ASSUME NEW n \in Exchanges, ClientDerives(n) PROVE SecretsInv'
    BY <1>4, <2>4 DEF ClientDerives, tableVars, castVars
  <2>5. CASE SetIsServer
    BY <1>4, <2>5 DEF SetIsServer, castVars
  <2>6. CASE UNCHANGED vars
    BY <1>4, <2>6 DEF vars, tableVars, castVars
  <2> QED
    BY <1>5, <1>6, <1>7, <1>8, <1>10, <1>11, <1>12, <2>1, <2>2, <2>3, <2>4, <2>5, <2>6 DEF Next

(* A step that changes neither what is sent nor its layers. *)
LEMMA LayersKept ==
    ASSUME TypeInv, LayersInv, wire' = wire,
           \A u \in Threads : send'[u].at # "rest" =>
               /\ send[u].at # "rest" /\ send'[u].cast = send[u].cast
               /\ send'[u].i = send[u].i /\ send'[u].layers = send[u].layers,
           \A n \in DOMAIN casts : casts'[n].first = casts[n].first
    PROVE  LayersInv'
<1>1. \A u \in Threads : send[u].at # "rest" => send[u].cast \in DOMAIN casts
  BY DEF TypeInv, StepsInv
<1>2. \A d \in wire : d.cast \in DOMAIN casts
  BY DEF TypeInv, TypeOK
<1> QED BY <1>1, <1>2 DEF LayersInv

(* Each sendPacket encrypts what the last one has left. *)
LEMMA LayersStep ==
    ASSUME TypeInv, LayersInv, [Next]_vars
    PROVE  LayersInv'
<1>1. CASE UNCHANGED castVars
  BY <1>1 DEF LayersInv, castVars
<1>2. CASE ServerRegisters
  BY <1>2, RegisterEffect, LayersKept
<1>3. ASSUME NEW t \in Threads, NEW layers, Calls(t, layers)
      PROVE  LayersInv'
  <2>1. /\ DOMAIN casts' = DOMAIN casts \cup {NextCast}
        /\ \A n \in DOMAIN casts : casts'[n] = casts[n]
        /\ casts'[NextCast].first <=> layers = <<>>
        /\ \A u \in Threads : u # t => send'[u] = send[u]
        /\ send'[t].cast = NextCast /\ send'[t].layers = layers
        /\ wire' = wire
    BY <1>3 DEF Calls
  <2>2. ASSUME NEW u \in Threads, send'[u].at # "rest", casts'[send'[u].cast].first, send'[u].i = 1
        PROVE  send'[u].layers = <<>>
    <3>1. CASE u = t
      BY <2>1, <2>2, <3>1
    <3>2. CASE u # t
      <4>1. send[u].cast \in DOMAIN casts
        BY <2>1, <2>2, <3>2 DEF TypeInv, StepsInv
      <4> QED BY <2>1, <2>2, <3>2, <4>1 DEF LayersInv
    <3> QED BY <3>1, <3>2
  <2>3. \A d \in wire : casts'[d.cast] = casts[d.cast]
    BY <2>1 DEF TypeInv, TypeOK
  <2> QED BY <2>1, <2>2, <2>3 DEF LayersInv
<1>4. CASE CopyTable
  <2>1. /\ send["app"].at # "rest" /\ wire' = wire
        /\ \A u \in Threads : /\ send'[u].cast = send[u].cast /\ send'[u].i = send[u].i
                              /\ send'[u].layers = send[u].layers
                              /\ u # "app" => send'[u].at = send[u].at
    BY <1>4, CopyEffect DEF Threads
  <2>2. \A n \in DOMAIN casts : casts'[n].first = casts[n].first
    BY <1>4, CopyEffect
  <2> QED BY <2>1, <2>2, LayersKept
<1>5. ASSUME NEW t \in Threads, SendNext(t)
      PROVE  LayersInv'
  <2> DEFINE n == send[t].cast
             new == DatagramOf(t)
  <2>1. /\ send[t].at = "send" /\ n \in DOMAIN casts /\ send[t].i \in DOMAIN casts[n].group
        /\ send[t].i \in Nat /\ casts[n].group \in Seq(Clients)
        /\ \A u \in Threads : u # t => send'[u] = send[u]
        /\ send'[t].cast = n
        /\ \A k \in DOMAIN casts : casts'[k].first = casts[k].first
        /\ wire' \subseteq wire \cup {new}
    BY <1>5, SendEffect
  <2>2. PICK taken \in BOOLEAN, throws \in BOOLEAN : SendsOf(t, taken, throws)
    BY <1>5, SendEffect
  <2>3. /\ new.cast = n /\ new.pos = send[t].i /\ new.key = sharedSecret
        /\ new.layers = Applied(send[t].layers, "enc", sharedSecret)
    BY DEF DatagramOf, LayersSent
  <2>4. casts[n].first /\ send[t].i = 1 => new.layers = <<<<"enc", new.key>>>>
    <3>1. SUFFICES ASSUME casts[n].first, send[t].i = 1
                   PROVE  new.layers = <<<<"enc", new.key>>>>
      OBVIOUS
    <3>2. send[t].layers = <<>>
      BY <2>1, <3>1 DEF LayersInv
    <3>3. Applied(<<>>, "enc", sharedSecret) = Append(<<>>, <<"enc", sharedSecret>>)
      BY DEF Applied
    <3> HIDE DEF new
    <3> QED BY <2>3, <3>2, <3>3
  <2> HIDE DEF new
  <2>5. ASSUME NEW u \in Threads, send'[u].at # "rest", casts'[send'[u].cast].first, send'[u].i = 1
        PROVE  send'[u].layers = <<>>
    <3>1. CASE u = t
      <4>1. send'[t].at = "send" /\ send'[t].i = send[t].i + 1
        BY <2>2, <2>5, <3>1 DEF SendsOf
      <4>2. send[t].i >= 1
        BY <2>1
      <4> QED BY <2>1, <2>5, <3>1, <4>1, <4>2
    <3>2. CASE u # t
      <4>1. send'[u] = send[u] /\ send[u].cast \in DOMAIN casts
        BY <2>1, <2>5, <3>2 DEF TypeInv, StepsInv
      <4> QED BY <2>1, <2>5, <4>1 DEF LayersInv
    <3> QED BY <3>1, <3>2
  <2>6. ASSUME NEW d \in wire', casts'[d.cast].first, d.pos = 1
        PROVE  d.layers = <<<<"enc", d.key>>>>
    <3>1. CASE d = new
      BY <2>1, <2>3, <2>4, <2>6, <3>1
    <3>2. CASE d # new
      <4>1. d \in wire /\ d.cast \in DOMAIN casts
        BY <2>1, <3>2 DEF TypeInv, TypeOK
      <4> QED BY <2>1, <2>6, <4>1 DEF LayersInv
    <3> QED BY <3>1, <3>2
  <2> QED BY <2>5, <2>6 DEF LayersInv
<1>6. ASSUME NEW t \in Threads, EndMulticast(t)
      PROVE  LayersInv'
  <2>1. \A u \in Threads : send'[u].at # "rest" => send'[u] = send[u]
    BY <1>6, EndEffect
  <2> QED BY <1>6, <2>1, EndEffect, LayersKept
<1> QED BY <1>1, <1>2, <1>3, <1>4, <1>5, <1>6, ThreadSteps

-----------------------------------------------------------------------------
(* The group of a multicast, and how far its datagrams have come. *)

(* The addresses of the table, one by one. *)
LEMMA TableAddresses ==
    ASSUME TypeInv
    PROVE  /\ DOMAIN Addresses(ServersideEndpoints) = DOMAIN ServersideEndpoints
           /\ \A k \in DOMAIN ServersideEndpoints :
                Addresses(ServersideEndpoints)[k] = ServersideEndpoints[k].addr
<1>1. ServersideEndpoints \in Seq([addr : Clients, privateKey : DOMAIN begun])
  BY DEF TypeInv, TypeOK
<1> QED BY <1>1 DEF Addresses

(* What is copied is the table, unless the listener registered meanwhile. *)
LEMMA GroupStep ==
    ASSUME TypeInv, TableInv, GroupInv, [Next]_vars
    PROVE  GroupInv'
<1>1. CASE UNCHANGED <<castVars, ServersideEndpoints>>
  BY <1>1 DEF GroupInv, castVars
<1>2. CASE ServerRegisters
  <2>1. send["app"].at = "copy" =>
            send["app"].cast \in DOMAIN casts /\ casts[send["app"].cast].by = "app"
    BY DEF TypeInv, StepsInv, Threads
  <2> QED BY <1>2, <2>1, RegisterEffect DEF GroupInv
<1>3. ASSUME NEW t \in Threads, NEW layers, Calls(t, layers)
      PROVE  GroupInv'
  <2> DEFINE table == Addresses(ServersideEndpoints)
  <2>1. /\ send[t].at = "rest" /\ NextCast \notin DOMAIN casts
        /\ DOMAIN casts' = DOMAIN casts \cup {NextCast}
        /\ \A n \in DOMAIN casts : casts'[n] = casts[n]
        /\ ~casts'[NextCast].raced /\ casts'[NextCast].table = table
        /\ \A u \in Threads : u # t => send'[u] = send[u]
        /\ UNCHANGED tableVars
    BY <1>3 DEF Calls
  <2>2. \A j, k \in DOMAIN table : table[j] = table[k] => j = k
    <3>1. /\ DOMAIN table = DOMAIN ServersideEndpoints
          /\ \A k \in DOMAIN ServersideEndpoints : table[k] = ServersideEndpoints[k].addr
      BY TableAddresses
    <3> QED BY <3>1 DEF TableInv
  <2>3. Addresses(ServersideEndpoints)' = table
    BY <2>1 DEF tableVars
  <2> HIDE DEF table
  <2>4. CASE t = "app"
    <3>1. send'["app"].at = "copy" /\ send'["app"].cast = NextCast
      BY <1>3, <2>4 DEF Calls
    <3> QED BY <2>1, <2>2, <2>3, <2>4, <3>1 DEF GroupInv
  <2>5. CASE t = "listener"
    <3>1. casts'[NextCast].group = table
      BY <1>3, <2>5 DEF Calls, table
    <3>2. send'["app"] = send["app"]
      BY <2>1, <2>5 DEF Threads
    <3>3. send["app"].at = "copy" => send["app"].cast \in DOMAIN casts
      BY DEF TypeInv, StepsInv, Threads
    <3>4. Addresses(ServersideEndpoints) = table
      BY DEF table
    <3> QED BY <2>1, <2>2, <2>3, <3>1, <3>2, <3>3, <3>4 DEF GroupInv
  <2> QED BY <2>4, <2>5 DEF Threads
<1>4. CASE CopyTable
  <2> DEFINE n == send["app"].cast
  <2>1. casts[n].raced \/ casts[n].table = Addresses(ServersideEndpoints)
    BY <1>4, CopyEffect DEF GroupInv
  <2>2. casts[n].raced \/ casts'[n].group = casts[n].table
    BY <1>4, <2>1, CopyEffect
  <2> QED BY <1>4, <2>2, CopyEffect DEF GroupInv
<1>5. ASSUME NEW t \in Threads, SendNext(t)
      PROVE  GroupInv'
  <2>1. /\ send[t].at = "send" /\ \A u \in Threads : u # t => send'[u] = send[u]
        /\ UNCHANGED tableVars
    BY <1>5, SendEffect
  <2>2. send'[t].at \in {"rest", "send"}
    BY <1>5, SendEffect
  <2>3. /\ send'["app"].at = "copy" <=> send["app"].at = "copy"
        /\ send["app"].at = "copy" => send'["app"] = send["app"]
    BY <2>1, <2>2 DEF Threads
  <2>4. /\ DOMAIN casts' = DOMAIN casts
        /\ \A n \in DOMAIN casts :
             /\ casts'[n].by = casts[n].by /\ casts'[n].table = casts[n].table
             /\ casts'[n].group = casts[n].group /\ casts'[n].raced = casts[n].raced
    BY <1>5, SendEffect
  <2>5. send["app"].at = "copy" => send["app"].cast \in DOMAIN casts
    BY DEF TypeInv, StepsInv, Threads
  <2>6. Addresses(ServersideEndpoints)' = Addresses(ServersideEndpoints)
    BY <2>1 DEF tableVars
  <2> QED BY <2>3, <2>4, <2>5, <2>6 DEF GroupInv
<1>6. ASSUME NEW t \in Threads, EndMulticast(t)
      PROVE  GroupInv'
  <2>1. /\ send'["app"].at = "copy" <=> send["app"].at = "copy"
        /\ send["app"].at = "copy" => send'["app"] = send["app"]
        /\ UNCHANGED <<tableVars, casts>>
    BY <1>6, EndEffect DEF Threads
  <2> QED BY <2>1 DEF GroupInv, tableVars
<1> QED BY <1>1, <1>2, <1>3, <1>4, <1>5, <1>6, ThreadSteps

(* What was tried of a multicast, in the next state. *)
UntriedNext(n) == casts'[n].failed = {} /\ \A d \in wire' : d.cast # n
TriedNext(n, p) == p \in casts'[n].failed \/ \E d \in wire' : d.cast = n /\ d.pos = p

(* A step that sends nothing, and by which no thread gets further in a
   multicast, keeps the progress if what ends is complete. *)
LEMMA ProgressKept ==
    ASSUME TypeInv, ProgressInv, wire' = wire, DOMAIN casts \subseteq DOMAIN casts',
           \A n \in DOMAIN casts : casts'[n].failed = casts[n].failed,
           \A n \in DOMAIN casts' :
               UntriedNext(n) \/ (n \in DOMAIN casts /\ casts'[n].group = casts[n].group),
           \A u \in Threads : send'[u].at = "send" =>
               \/ /\ send[u].at = "send" /\ send'[u].cast = send[u].cast
                  /\ send'[u].i = send[u].i
               \/ send'[u].i = 1 /\ UntriedNext(send'[u].cast),
           \A n \in DOMAIN casts' : Ended(n)' /\ ~casts'[n].threw =>
               \/ /\ n \in DOMAIN casts /\ Ended(n) /\ ~casts[n].threw
                  /\ casts'[n].group = casts[n].group
               \/ \A p \in DOMAIN casts'[n].group : TriedNext(n, p)
    PROVE  ProgressInv'
<1>1. ASSUME NEW n \in DOMAIN casts, NEW p PROVE TriedNext(n, p) <=> Tried(n, p)
  BY DEF Tried, TriedNext
<1>2. ASSUME NEW u \in Threads, send'[u].at = "send"
      PROVE  /\ \A d \in wire : d.cast = send'[u].cast => d.pos < send'[u].i
             /\ \A p \in casts'[send'[u].cast].failed : p < send'[u].i
             /\ \A p \in 1 .. send'[u].i - 1 : TriedNext(send'[u].cast, p)
  <2>1. CASE send'[u].i = 1 /\ UntriedNext(send'[u].cast)
    BY <2>1 DEF UntriedNext
  <2>2. CASE /\ send[u].at = "send" /\ send'[u].cast = send[u].cast
             /\ send'[u].i = send[u].i
    <3>1. send[u].cast \in DOMAIN casts
      BY <2>2 DEF TypeInv, StepsInv
    <3> QED BY <1>1, <2>2, <3>1 DEF ProgressInv
  <2> QED BY <1>2, <2>1, <2>2
<1>3. ASSUME NEW n \in DOMAIN casts', Ended(n)', ~casts'[n].threw
      PROVE  \A p \in DOMAIN casts'[n].group : TriedNext(n, p)
  BY <1>1, <1>3 DEF ProgressInv
<1>4. ASSUME NEW d \in wire PROVE d.to = casts'[d.cast].group[d.pos] /\ d.pos \notin casts'[d.cast].failed
  <2>1. d.cast \in DOMAIN casts /\ ~UntriedNext(d.cast)
    BY DEF TypeInv, TypeOK, UntriedNext
  <2> QED BY <2>1 DEF ProgressInv
<1>5. ASSUME NEW n \in DOMAIN casts' PROVE casts'[n].failed \subseteq DOMAIN casts'[n].group
  BY DEF UntriedNext, ProgressInv
<1>6. \A d, e \in wire : d.cast = e.cast /\ d.pos = e.pos => d = e
  BY DEF ProgressInv
<1> QED BY <1>2, <1>3, <1>4, <1>5, <1>6 DEF ProgressInv, Tried, TriedNext

(* Each sendPacket takes the thread one position further. *)
LEMMA ProgressStep ==
    ASSUME TypeInv, ProgressInv, [Next]_vars
    PROVE  ProgressInv'
<1>0. \A d \in wire : d.cast \in DOMAIN casts
  BY DEF TypeInv, TypeOK
<1>1. CASE UNCHANGED <<castVars, ServersideEndpoints>>
  BY <1>1 DEF ProgressInv, Ended, Tried, castVars
<1>2. CASE ServerRegisters
  <2>1. \A n : Ended(n)' <=> Ended(n)
    BY <1>2, RegisterEffect DEF Ended
  <2> QED BY <1>2, <2>1, RegisterEffect, ProgressKept
<1>3. ASSUME NEW t \in Threads, NEW layers, Calls(t, layers)
      PROVE  ProgressInv'
  <2>1. /\ send[t].at = "rest" /\ NextCast \notin DOMAIN casts
        /\ DOMAIN casts' = DOMAIN casts \cup {NextCast}
        /\ \A n \in DOMAIN casts : casts'[n] = casts[n]
        /\ \A u \in Threads : u # t => send'[u] = send[u]
        /\ send'[t].at # "rest" /\ send'[t].cast = NextCast /\ send'[t].i = 1
        /\ casts'[NextCast].failed = {} /\ wire' = wire
    BY <1>3 DEF Calls
  <2>2. ASSUME NEW n \in DOMAIN casts', Ended(n)'
        PROVE  n \in DOMAIN casts /\ Ended(n)
    <3>1. n # NextCast
      BY <2>1, <2>2 DEF Ended
    <3> QED BY <2>1, <2>2, <3>1 DEF Ended
  <2>3. UntriedNext(NextCast)
    BY <1>0, <2>1 DEF UntriedNext
  <2>4. \A u \in Threads : send'[u].at = "send" =>
            \/ /\ send[u].at = "send" /\ send'[u].cast = send[u].cast
               /\ send'[u].i = send[u].i
            \/ send'[u].i = 1 /\ UntriedNext(send'[u].cast)
    BY <2>1, <2>3
  <2>5. \A n \in DOMAIN casts' :
            UntriedNext(n) \/ (n \in DOMAIN casts /\ casts'[n].group = casts[n].group)
    BY <2>1, <2>3
  <2> QED BY <2>1, <2>2, <2>4, <2>5, ProgressKept
<1>4. CASE CopyTable
  <2> DEFINE n == send["app"].cast
  <2>1. /\ n \in DOMAIN casts /\ casts[n].failed = {} /\ \A d \in wire : d.cast # n
        /\ \A k \in DOMAIN casts : k # n => casts'[k].group = casts[k].group
        /\ \A k \in DOMAIN casts :
             casts'[k].threw = casts[k].threw /\ casts'[k].failed = casts[k].failed
        /\ DOMAIN casts' = DOMAIN casts /\ wire' = wire
    BY <1>4, CopyEffect
  <2>2. /\ send'["listener"] = send["listener"] /\ send["app"].at # "rest"
        /\ send'["app"].at = "send" /\ send'["app"].cast = n /\ send'["app"].i = 1
    BY <1>4, CopyEffect
  <2>3. ASSUME NEW k \in DOMAIN casts, Ended(k)'
        PROVE  k # n /\ Ended(k)
    BY <2>2, <2>3 DEF Ended, Threads
  <2>4. UntriedNext(n)
    BY <2>1, <2>2 DEF UntriedNext
  <2>5. \A u \in Threads : send'[u].at = "send" =>
            \/ /\ send[u].at = "send" /\ send'[u].cast = send[u].cast
               /\ send'[u].i = send[u].i
            \/ send'[u].i = 1 /\ UntriedNext(send'[u].cast)
    BY <2>2, <2>4 DEF Threads
  <2>6. \A k \in DOMAIN casts' :
            UntriedNext(k) \/ (k \in DOMAIN casts /\ casts'[k].group = casts[k].group)
    BY <2>1, <2>4
  <2> QED BY <2>1, <2>3, <2>5, <2>6, ProgressKept
<1>5. ASSUME NEW t \in Threads, SendNext(t)
      PROVE  ProgressInv'
  <2> DEFINE n == send[t].cast
             i == send[t].i
             new == DatagramOf(t)
  <2>1. /\ send[t].at = "send" /\ n \in DOMAIN casts /\ i \in DOMAIN casts[n].group /\ i \in Nat
        /\ \A u \in Threads : u # t => send'[u] = send[u]
        /\ \A u \in Threads : u # t /\ send[u].at # "rest" => send[u].cast # n
        /\ send'[t].cast = n /\ DOMAIN casts' = DOMAIN casts
        /\ \A k \in DOMAIN casts :
             (k # n => casts'[k] = casts[k]) /\ casts'[k].group = casts[k].group
        /\ wire' \subseteq wire \cup {new}
    BY <1>5, SendEffect
  <2>2. PICK taken \in BOOLEAN, throws \in BOOLEAN : SendsOf(t, taken, throws)
    BY <1>5, SendEffect
  <2>3. /\ send'[t].at = IF throws THEN "rest" ELSE "send"
        /\ send'[t].i = IF throws THEN i ELSE i + 1
        /\ wire' = IF taken THEN wire \cup {new} ELSE wire
        /\ casts'[n].threw = throws
        /\ casts'[n].failed = IF taken THEN casts[n].failed ELSE casts[n].failed \cup {i}
    BY <2>2 DEF SendsOf
  <2>4. new.cast = n /\ new.pos = i /\ new.to = casts[n].group[i]
    BY DEF DatagramOf
  <2> HIDE DEF new
  <2>5. /\ \A d \in wire : d.cast = n => d.pos < i
        /\ \A p \in casts[n].failed : p < i
        /\ \A p \in 1 .. i - 1 : Tried(n, p)
    BY <2>1 DEF ProgressInv
  <2>6. i \notin casts[n].failed /\ \A d \in wire : d.cast = n => d.pos # i
    BY <2>1, <2>5
  <2>7. ASSUME NEW d \in wire'
        PROVE  d.to = casts'[d.cast].group[d.pos] /\ d.pos \notin casts'[d.cast].failed
    <3>1. CASE d \in wire /\ d.cast = n
      BY <2>1, <2>3, <2>6, <3>1 DEF ProgressInv
    <3>2. CASE d \in wire /\ d.cast # n
      BY <1>0, <2>1, <3>2 DEF ProgressInv
    <3>3. CASE d \notin wire
      <4>1. d = new /\ taken
        BY <2>3, <3>3
      <4> QED BY <2>1, <2>3, <2>4, <2>6, <4>1
    <3> QED BY <3>1, <3>2, <3>3
  <2>8. \A d, e \in wire' : d.cast = e.cast /\ d.pos = e.pos => d = e
    BY <2>1, <2>4, <2>6 DEF ProgressInv
  <2>9. ASSUME NEW k \in DOMAIN casts PROVE casts'[k].failed \subseteq DOMAIN casts'[k].group
    <3>1. CASE k = n
      BY <2>1, <2>3, <3>1 DEF ProgressInv
    <3>2. CASE k # n
      BY <2>1, <3>2 DEF ProgressInv
    <3> QED BY <3>1, <3>2
  <2>10. TriedNext(n, i)
    BY <2>1, <2>3, <2>4 DEF TriedNext
  <2>11. ASSUME NEW k \in DOMAIN casts, NEW p, Tried(k, p) PROVE TriedNext(k, p)
    <3>1. casts[k].failed \subseteq casts'[k].failed /\ wire \subseteq wire'
      BY <2>1, <2>3
    <3> QED BY <2>11, <3>1 DEF Tried, TriedNext
  <2>12. ASSUME NEW u \in Threads, send'[u].at = "send"
         PROVE  /\ \A d \in wire' : d.cast = send'[u].cast => d.pos < send'[u].i
                /\ \A p \in casts'[send'[u].cast].failed : p < send'[u].i
                /\ \A p \in 1 .. send'[u].i - 1 : TriedNext(send'[u].cast, p)
    <3>1. CASE u = t
      <4>1. send'[t].i = i + 1 /\ send'[t].cast = n
        BY <2>1, <2>3, <2>12, <3>1
      <4>2. ASSUME NEW d \in wire', d.cast = n PROVE d.pos < i + 1
        <5>1. CASE d = new
          BY <2>1, <2>4, <5>1
        <5>2. CASE d # new
          <6>1. d \in wire /\ d.pos < i /\ d.pos \in Nat
            BY <2>1, <2>5, <4>2, <5>2 DEF TypeInv, StepsInv, Datagram
          <6> QED BY <2>1, <6>1
        <5> QED BY <5>1, <5>2
      <4>3. ASSUME NEW p \in casts'[n].failed PROVE p < i + 1
        <5>1. CASE p = i
          BY <2>1, <5>1
        <5>2. CASE p # i
          <6>1. casts[n] \in Cast
            BY <2>1, ElementType DEF TypeInv, StepsInv
          <6>2. p \in casts[n].failed /\ p \in Nat
            BY <2>3, <4>3, <5>2, <6>1 DEF Cast
          <6> QED BY <2>1, <2>5, <6>2
        <5> QED BY <5>1, <5>2
      <4>4. ASSUME NEW p \in 1 .. i PROVE TriedNext(n, p)
        <5>1. CASE p = i
          BY <2>10, <5>1
        <5>2. CASE p # i
          <6>1. p \in 1 .. i - 1
            BY <2>1, <5>2
          <6> QED BY <2>1, <2>5, <2>11, <6>1
        <5> QED BY <5>1, <5>2
      <4>5. (i + 1) - 1 = i
        BY <2>1
      <4> HIDE DEF n, i
      <4> QED BY <3>1, <4>1, <4>2, <4>3, <4>4, <4>5
    <3>2. CASE u # t
      <4>1. send'[u] = send[u] /\ send[u].at = "send" /\ send[u].cast # n
        BY <2>1, <2>12, <3>2
      <4>2. send[u].cast \in DOMAIN casts /\ casts'[send[u].cast] = casts[send[u].cast]
        BY <2>1, <4>1 DEF TypeInv, StepsInv
      <4>3. \A d \in wire' : d.cast = send[u].cast => d \in wire
        BY <2>1, <2>4, <4>1
      <4> QED BY <2>11, <4>1, <4>2, <4>3 DEF ProgressInv
    <3> QED BY <3>1, <3>2
  <2>13. ASSUME NEW k \in DOMAIN casts, Ended(k)', ~casts'[k].threw
         PROVE  \A p \in DOMAIN casts'[k].group : TriedNext(k, p)
    <3>1. k # n
      BY <2>1, <2>3, <2>13 DEF Ended
    <3>2. Ended(k) /\ ~casts[k].threw
      BY <2>1, <2>13, <3>1 DEF Ended
    <3> QED BY <2>1, <2>11, <3>2 DEF ProgressInv
  <2> QED BY <2>1, <2>7, <2>8, <2>9, <2>12, <2>13 DEF ProgressInv, Tried, TriedNext
<1>6. ASSUME NEW t \in Threads, EndMulticast(t)
      PROVE  ProgressInv'
  <2> DEFINE n == send[t].cast
  <2>1. /\ send[t].at = "send" /\ n \in DOMAIN casts
        /\ casts[n].group \in Seq(Clients) /\ send[t].i = Len(casts[n].group) + 1
        /\ \A u \in Threads : u # t => send'[u] = send[u]
        /\ send'[t].at = "rest" /\ send'[t].cast = n
        /\ casts' = casts /\ wire' = wire
    BY <1>6, EndEffect
  <2>2. \A p \in DOMAIN casts[n].group : p \in 1 .. send[t].i - 1
    BY <2>1
  <2>3. \A p \in DOMAIN casts[n].group : TriedNext(n, p)
    BY <2>1, <2>2 DEF ProgressInv, Tried, TriedNext
  <2>4. ASSUME NEW k \in DOMAIN casts, k # n, Ended(k)'
        PROVE  Ended(k)
    BY <2>1, <2>4 DEF Ended
  <2>5. \A u \in Threads : send'[u].at = "send" => send'[u] = send[u]
    BY <2>1
  <2> QED BY <2>1, <2>3, <2>4, <2>5, ProgressKept
<1> QED BY <1>1, <1>2, <1>3, <1>4, <1>5, <1>6, ThreadSteps

-----------------------------------------------------------------------------
(* The inductive invariant, and the theorems. *)

SessionInv ==
    TypeInv /\ TableInv /\ SecretsInv /\ LayersInv /\ GroupInv /\ ProgressInv

LEMMA SessionInit == Init => SessionInv
<1> SUFFICES ASSUME Init PROVE SessionInv
  OBVIOUS
<1>1. \A t \in Threads : send[t].at = "rest"
  BY DEF Init
<1>2. TableInv
  BY DEF Init, TableInv
<1>3. SecretsInv
  BY DEF Init, SecretsInv, Idle
<1>4. LayersInv /\ GroupInv /\ ProgressInv
  BY <1>1 DEF Init, LayersInv, GroupInv, ProgressInv, Threads
<1> QED BY <1>2, <1>3, <1>4, InitType DEF SessionInv

LEMMA SessionInvariant == Spec => []SessionInv
<1>1. SessionInv /\ [Next]_vars => SessionInv'
  BY TypeInvStep, TableStep, SecretsStep, LayersStep, GroupStep, ProgressStep DEF SessionInv
<1> QED BY <1>1, SessionInit, PTL DEF Spec

(* Every position of a complete multicast was tried once, and the positions are
   those of the table at the call. *)
LEMMA CompleteTriesAll ==
    ASSUME TypeInv, GroupInv, ProgressInv
    PROVE  EachEndpointOnce
<1> SUFFICES ASSUME NEW n \in DOMAIN casts
             PROVE  /\ casts[n].raced => casts[n].by = "app"
                    /\ Ended(n) /\ ~casts[n].raced /\ ~casts[n].threw =>
                         /\ SentTo(n) \cup FailedTo(n) = Range(casts[n].table)
                         /\ SentTo(n) \cap FailedTo(n) = {}
                         /\ \A d, e \in Datagrams(n) : d.to = e.to => d = e
  BY DEF EachEndpointOnce
<1>1. casts[n].raced => casts[n].by = "app"
  BY DEF GroupInv
<1>2. ASSUME Ended(n), ~casts[n].raced, ~casts[n].threw
      PROVE  /\ SentTo(n) \cup FailedTo(n) = Range(casts[n].table)
             /\ SentTo(n) \cap FailedTo(n) = {}
             /\ \A d, e \in Datagrams(n) : d.to = e.to => d = e
  <2> DEFINE table == casts[n].table
             failed == casts[n].failed
  <2>1. casts[n].group = table /\ \A j, k \in DOMAIN table : table[j] = table[k] => j = k
    BY <1>2 DEF GroupInv, Ended, Threads
  <2>2. \A p \in DOMAIN table : Tried(n, p)
    BY <1>2, <2>1 DEF ProgressInv
  <2>3. \A d \in Datagrams(n) : /\ d \in wire /\ d.cast = n /\ d.pos \in DOMAIN table
                                /\ d.to = table[d.pos] /\ d.pos \notin failed
    BY <2>1 DEF Datagrams, TypeInv, TypeOK, ProgressInv
  <2>4. failed \subseteq DOMAIN table
    BY <2>1 DEF ProgressInv
  <2>5. \A p \in DOMAIN table : p \in failed \/ \E d \in Datagrams(n) : d.pos = p
    BY <2>2 DEF Datagrams, Tried
  <2>6. SentTo(n) = {d.to : d \in Datagrams(n)} /\ FailedTo(n) = {table[p] : p \in failed}
    BY <2>1 DEF SentTo, FailedTo
  <2> HIDE DEF table, failed
  <2>7. SentTo(n) \cup FailedTo(n) = Range(table)
    BY <2>3, <2>4, <2>5, <2>6 DEF Range
  <2>8. SentTo(n) \cap FailedTo(n) = {}
    BY <2>1, <2>3, <2>4, <2>6
  <2>9. ASSUME NEW d \in Datagrams(n), NEW e \in Datagrams(n), d.to = e.to
        PROVE  d = e
    <3>1. d.pos = e.pos
      BY <2>1, <2>3, <2>9
    <3> QED BY <2>3, <3>1 DEF ProgressInv
  <2> QED BY <2>7, <2>8, <2>9 DEF table
<1> QED BY <1>1, <1>2

(* One decryption undoes the one encryption of a first datagram. *)
LEMMA FirstReads ==
    ASSUME LayersInv
    PROVE  LatestReads
<1> SUFFICES ASSUME NEW d \in wire, casts[d.cast].first, d.pos = 1, clientSecret[d.to] = d.key
             PROVE  ReceivedByClient(d) = <<>>
  BY DEF LatestReads
<1> DEFINE sent == <<<<"enc", d.key>>>>
<1>1. d.layers = sent
  BY DEF LayersInv
<1>2. sent # <<>> /\ Last(sent) = <<"enc", d.key>> /\ Front(sent) = <<>>
  BY DEF Last, Front
<1> HIDE DEF sent
<1> QED BY <1>1, <1>2 DEF ReceivedByClient, Applied

(* Every reachable state is typed: exchanges that are handled were begun, keys of
   the table are those of exchanges, and every datagram belongs to a position of
   the group of a multicast (onHandshakeReceive, multicastPacket). *)
THEOREM TypeCorrect == Spec => []TypeOK
<1>1. SessionInv => TypeOK
  BY DEF SessionInv, TypeInv
<1> QED BY <1>1, SessionInvariant, PTL

(* However handshakes interleave and however late a packet is, the server reads
   a client's packet exactly when it was encrypted with the key of the exchange
   registered last for that client (recvPacket, onHandshakeReceive). *)
THEOREM UplinkAlwaysReads == Spec => []UplinkReads
<1>1. SessionInv => UplinkReads
  BY TableReads DEF SessionInv
<1> QED BY <1>1, SessionInvariant, PTL

(* A multicast that ends without an exception, and whose copy of the table no
   handshake raced with, tried each endpoint of the table exactly once, whatever
   the other thread sent and registered meanwhile and whatever became of iError
   (multicastPacket, sendPacket). *)
THEOREM EachEndpointAlwaysOnce == Spec => []EachEndpointOnce
<1>1. SessionInv => EachEndpointOnce
  BY CompleteTriesAll DEF SessionInv
<1> QED BY <1>1, SessionInvariant, PTL

(* No packet leaves encrypted under a secret that no exchange has made, not even
   under the 0 that sharedSecret is before the first handshake (sendPacket,
   onHandshakeReceive). *)
THEOREM AlwaysEncryptedAfterExchange == Spec => []EncryptedAfterExchange
<1>1. SessionInv => EncryptedAfterExchange
  BY DEF SessionInv, SecretsInv, EncryptedAfterExchange
<1> QED BY <1>1, SessionInvariant, PTL

(* The endpoint of the first datagram of a packet's first multicast reads it if
   it has the secret it was encrypted with (sendPacket encrypts in place,
   recvPacket decrypts once). *)
THEOREM LatestAlwaysReads == Spec => []LatestReads
<1>1. SessionInv => LatestReads
  BY FirstReads DEF SessionInv
<1> QED BY <1>1, SessionInvariant, PTL
=============================================================================
