--------------------------- MODULE AckBufferProofs ---------------------------
(***************************************************************************)
(* Proofs about AckBuffer for any packets, numbers, endpoints and          *)
(* destinations: type correctness, that a delivered mark always has a      *)
(* received packet of the same number behind it, that no packet is         *)
(* forgotten, that a sweep takes out at least as many packets of its       *)
(* number as it leaves behind, and that AckBuffer implements               *)
(* DeliveryPromise for the packets that have a number of their own.        *)
(***************************************************************************)
EXTENDS AckBuffer, VectorLemmas, FiniteSetTheorems, TLAPS

(* The sends of a call are sends. *)
LEMMA SendsOfType == ASSUME NEW p \in Packets PROVE SendsOf(p) \in Seq(Sends)
BY PacketsAssumption DEF SendsOf, Sends

(* Whatever a race leaves in ACKBuffer was in it before or is being pushed. *)
LEMMA RacedPushType ==
    ASSUME NEW old \in Seq(Packets), NEW now \in Seq(Packets), NEW p \in Packets
    PROVE  RacedPush(old, now, p) \subseteq Seq(Packets)
<1>1. Append(now, p) \in Seq(Packets) /\ Append(old, p) \in Seq(Packets)
  OBVIOUS
<1>2. ASSUME Len(now) < Len(old)
      PROVE  /\ Append(now, Last(old)) \in Seq(Packets)
             /\ now \o <<Last(old), p>> \in Seq(Packets)
  <2>1. Last(old) \in Packets
    BY <1>2 DEF Last
  <2> QED BY <2>1
<1> QED BY <1>1, <1>2 DEF RacedPush

(* Continue moves thread t on to a state TypeOK allows. *)
LEMMA ContinueType ==
    ASSUME TypeOK, NEW t \in Threads, NEW rest \in Seq(Sends), Continue(t, rest)
    PROVE  /\ pc' \in [Threads -> {"rest", "sendto", "check", "grow", "store", "sweep"}]
           /\ pc'["app"] # "sweep"
           /\ todo' \in [Threads -> Seq(Sends)]
           /\ \A u \in Threads : pc'[u] \in {"sendto", "check", "grow", "store"} => todo'[u] # <<>>
           /\ \A u \in Threads : pc'[u] \in {"grow", "store"} => Head(todo'[u])[1] \in Packets
BY DEF TypeOK, Continue, Threads

(* What an iteration of the sweep does to its local variables. *)
LEMMA SweepFields ==
    ASSUME TypeOK, SweepStep
    PROVE  /\ sweep' \in [num : Nat, i : Nat \ {0}, taken : Nat]
           /\ sweep'.num = sweep.num /\ sweep'.i = sweep.i + 1
           /\ Num[ACKBuffer[sweep.i]] = sweep.num => sweep'.taken = sweep.taken + 1
           /\ Num[ACKBuffer[sweep.i]] # sweep.num => sweep'.taken = sweep.taken
<1>1. sweep \in [num : Nat, i : Nat \ {0}, taken : Nat]
  BY DEF TypeOK
<1>2. CASE Num[ACKBuffer[sweep.i]] = sweep.num
  <2>1. sweep' = [sweep EXCEPT !.i = sweep.i + 1, !.taken = sweep.taken + 1]
    BY <1>2 DEF SweepStep
  <2>2. sweep' = [num |-> sweep.num, i |-> sweep.i + 1, taken |-> sweep.taken + 1]
    BY <1>1, <2>1
  <2> QED BY <1>1, <1>2, <2>2
<1>3. CASE Num[ACKBuffer[sweep.i]] # sweep.num
  <2>1. sweep' = [sweep EXCEPT !.i = sweep.i + 1]
    BY <1>3 DEF SweepStep
  <2> QED BY <1>1, <1>3, <2>1
<1> QED BY <1>2, <1>3

-----------------------------------------------------------------------------
(* Every step of either thread, the listener or a peer preserves TypeOK. *)
LEMMA TypeStep == TypeOK /\ [Next]_vars => TypeOK'
<1> SUFFICES ASSUME TypeOK, [Next]_vars PROVE TypeOK'
  OBVIOUS
<1> USE PacketsAssumption
<1>1. ASSUME NEW p \in Packets, Call(p) PROVE TypeOK'
  <2>1. "app" \in Threads /\ SendsOf(p) \in Seq(Sends) /\ Continue("app", SendsOf(p))
    BY <1>1, SendsOfType DEF Call, Threads
  <2> QED BY <1>1, <2>1, ContinueType DEF Call, TypeOK, ackVars
<1>2. ASSUME NEW t \in Threads, SendTo(t) PROVE TypeOK'
  <2>1. Head(todo[t]) \in Sends
    BY <1>2 DEF SendTo, TypeOK
  <2> QED BY <1>2, <2>1 DEF SendTo, TypeOK, ackVars, Threads
<1>3. ASSUME NEW t \in Threads, CheckThrows(t) PROVE TypeOK'
  <2>1. Head(todo[t]) \in Sends /\ <<>> \in Seq(Sends) /\ Continue(t, <<>>)
    BY <1>3 DEF CheckThrows, TypeOK
  <2> QED BY <1>3, <2>1, ContinueType DEF CheckThrows, TypeOK, ackVars
<1>4. ASSUME NEW t \in Threads, CheckPasses(t) PROVE TypeOK'
  <2>1. todo[t] # <<>> /\ Tail(todo[t]) \in Seq(Sends) /\ Head(todo[t]) \in Sends
    BY <1>4 DEF CheckPasses, TypeOK
  <2>2. CASE Head(todo[t])[1] = AckReply
    BY <1>4, <2>1, <2>2, ContinueType DEF CheckPasses, TypeOK, ackVars
  <2>3. CASE Head(todo[t])[1] # AckReply
    <3>1. Head(todo[t])[1] \in Packets
      BY <2>1, <2>3 DEF Sends
    <3> QED BY <1>4, <2>1, <2>3, <3>1 DEF CheckPasses, TypeOK, ackVars, Threads
  <2> QED BY <2>2, <2>3
<1>5. ASSUME NEW t \in Threads, PushBegin(t) PROVE TypeOK'
  BY <1>5 DEF PushBegin, TypeOK, ackVars, Threads
<1>6. ASSUME NEW t \in Threads, PushEnd(t) PROVE TypeOK'
  <2>1. todo[t] # <<>> /\ Tail(todo[t]) \in Seq(Sends) /\ Head(todo[t])[1] \in Packets
    BY <1>6 DEF PushEnd, TypeOK
  <2>2. Continue(t, Tail(todo[t]))
    BY <1>6 DEF PushEnd
  <2>3. ACKBuffer' \in Seq(Packets)
    <3>1. seen[t] \in Seq(Packets) /\ ACKBuffer \in Seq(Packets)
      BY DEF TypeOK
    <3>2. \/ ACKBuffer' = Append(ACKBuffer, Head(todo[t])[1])
          \/ ACKBuffer' \in RacedPush(seen[t], ACKBuffer, Head(todo[t])[1])
      BY <1>6, Zenon DEF PushEnd
    <3>3. RacedPush(seen[t], ACKBuffer, Head(todo[t])[1]) \subseteq Seq(Packets)
      BY <2>1, <3>1, RacedPushType, Zenon
    <3>4. Append(ACKBuffer, Head(todo[t])[1]) \in Seq(Packets)
      BY <2>1, <3>1
    <3> QED BY <3>2, <3>3, <3>4, Zenon
  <2>5. raced' \in BOOLEAN
    BY <1>6, Zenon DEF PushEnd, TypeOK
  <2>4. seen' \in [Threads -> Seq(Packets)]
    BY <1>6 DEF PushEnd, TypeOK
  <2> QED BY <1>6, <2>1, <2>2, <2>3, <2>4, <2>5, ContinueType DEF PushEnd, TypeOK, ackVars
<1>7. CASE RaceCrash
  BY <1>7 DEF RaceCrash, TypeOK, sendVars, ackVars
<1>8. ASSUME NEW n \in Nat, BeginSweep(n) PROVE TypeOK'
  BY <1>8 DEF BeginSweep, TypeOK, sendVars, Threads
<1>9. ASSUME NEW sends \in Seq(Sends), NEW new \in SUBSET Packets, Reply(sends, new)
      PROVE  TypeOK'
  <2>1. "listener" \in Threads /\ Continue("listener", sends)
    BY <1>9 DEF Reply, Threads
  <2> QED BY <1>9, <2>1, ContinueType DEF Reply, TypeOK, ackVars
<1>10. CASE Receive
  <2>1. CASE ReceiveAck
    <3>1. PICK r \in received : BeginSweep(Num[r[1]])
      BY <2>1 DEF ReceiveAck
    <3>2. Num[r[1]] \in Nat
      BY <3>1 DEF TypeOK
    <3> QED BY <3>1, <3>2, <1>8
  <2>2. CASE ReceiveUnspecified
    BY <2>2, <1>8 DEF ReceiveUnspecified
  <2>3. ASSUME NEW e \in Endpoints, ReceiveData(e) PROVE TypeOK'
    <3>1. PICK ack \in {<< >>, << <<AckReply, e>> >>} :
            \/ Reply(ack, {})
            \/ \E p \in Packets \ (FollowUps \cup started) : Reply(ack \o SendsOf(p), {p})
      BY <2>3 DEF ReceiveData
    <3>2. ack \in Seq(Sends)
      <4>1. <<AckReply, e>> \in Sends
        BY DEF Sends
      <4>2. << <<AckReply, e>> >> \in Seq(Sends) /\ << >> \in Seq(Sends)
        BY <4>1
      <4> QED BY <4>2, Zenon
    <3>3. CASE Reply(ack, {})
      BY <3>2, <3>3, <1>9
    <3>4. ASSUME NEW p \in Packets, Reply(ack \o SendsOf(p), {p}) PROVE TypeOK'
      <4>1. ack \o SendsOf(p) \in Seq(Sends)
        BY <3>2, SendsOfType
      <4>2. {p} \in SUBSET Packets
        OBVIOUS
      <4> QED BY <3>4, <4>1, <4>2, <1>9, Zenon
    <3> QED BY <3>1, <3>3, <3>4
  <2>4. ASSUME NEW e \in Endpoints, ReceiveHandshake(e) PROVE TypeOK'
    <3>1. PICK f \in FollowUps : Reply(<< <<AckReply, e>>, <<f, e>> >>, {f})
      BY <2>4 DEF ReceiveHandshake
    <3>2. << <<AckReply, e>>, <<f, e>> >> \in Seq(Sends) /\ {f} \in SUBSET Packets
      BY DEF Sends
    <3> QED BY <3>1, <3>2, <1>9
  <2> QED BY <1>10, <2>1, <2>2, <2>3, <2>4 DEF Receive
<1>11. CASE SweepStep
  <2>1. sweep.i \in 1 .. Len(ACKBuffer)
    BY <1>11 DEF SweepStep, TypeOK
  <2>2. ACKBuffer[sweep.i] \in Packets /\ RemoveAt(ACKBuffer, sweep.i) \in Seq(Packets)
    BY <2>1, RemoveAtKeeps DEF TypeOK
  <2>3. sweep' \in [num : Nat, i : Nat \ {0}, taken : Nat]
    BY <1>11, SweepFields
  <2>4. delivered' \subseteq Packets /\ ACKBuffer' \in Seq(Packets)
    BY <1>11, <2>2 DEF SweepStep, TypeOK
  <2> QED BY <1>11, <2>3, <2>4 DEF SweepStep, TypeOK, sendVars
<1>12. CASE SweepEnd
  <2>1. sweep.num \in Nat /\ sweep' \in [num : Nat, i : Nat \ {0}, taken : Nat]
    BY <1>12 DEF SweepEnd, TypeOK
  <2>2. pc' = [pc EXCEPT !["listener"] = "rest"] /\ UNCHANGED <<todo, seen>>
    BY <1>12 DEF SweepEnd, sendVars
  <2>3. answered' \subseteq Nat
    BY <1>12, <2>1 DEF SweepEnd, TypeOK
  <2> QED BY <1>12, <2>1, <2>2, <2>3 DEF SweepEnd, TypeOK, sendVars, Threads
<1>13. ASSUME NEW p \in Packets, NEW e \in Endpoints, PeerReceive(p, e) PROVE TypeOK'
  BY <1>13 DEF PeerReceive, TypeOK, sendVars
<1>14. CASE UNCHANGED vars
  BY <1>14 DEF TypeOK, vars
<1> QED
  BY <1>1, <1>2, <1>3, <1>4, <1>5, <1>6, <1>7, <1>10, <1>11, <1>12, <1>13, <1>14
  DEF Next, Send, Sweep, Terminated

LEMMA InitType == Init => TypeOK
<1>1. ASSUME NEW S PROVE [t \in Threads |-> <<>>] \in [Threads -> Seq(S)]
  OBVIOUS
<1>2. [num |-> 0, i |-> 1, taken |-> 0] \in [num : Nat, i : Nat \ {0}, taken : Nat]
  OBVIOUS
<1> SUFFICES ASSUME Init PROVE TypeOK
  OBVIOUS
<1>3. todo \in [Threads -> Seq(Sends)] /\ seen \in [Threads -> Seq(Packets)]
  BY <1>1, Zenon DEF Init
<1>4. sweep \in [num : Nat, i : Nat \ {0}, taken : Nat]
  BY <1>2, Zenon DEF Init
<1>5. ACKBuffer \in Seq(Packets)
  BY DEF Init
<1>8. raced \in BOOLEAN /\ crashed \in BOOLEAN
  BY Zenon DEF Init
<1>6. /\ pc \in [Threads -> {"rest", "sendto", "check", "grow", "store", "sweep"}]
      /\ pc["app"] # "sweep"
      /\ \A t \in Threads : pc[t] \notin {"sendto", "check", "grow", "store"}
      /\ \A t \in Threads : pc[t] \notin {"grow", "store"}
  BY DEF Init, Threads
<1>7. /\ iError \in {"sent", "failed"}
      /\ delivered \subseteq Packets
      /\ answered \subseteq Nat
      /\ started \subseteq Packets
      /\ wire \subseteq Packets \X Endpoints
      /\ received \subseteq wire
      /\ threw \subseteq Sends
  BY DEF Init
<1> QED BY <1>3, <1>4, <1>5, <1>6, <1>7, <1>8, Zenon DEF TypeOK

(* Every variable keeps its type in every behaviour. *)
THEOREM TypeCorrect == Spec => []TypeOK
BY InitType, TypeStep, PTL DEF Spec

-----------------------------------------------------------------------------
(* The inductive invariant behind the delivered marks: a mark is set by a
   sweep, so the number the sweep looks for must be accounted for as well. *)
DeliveryInv == TypeOK /\ SweepJustified /\ DeliveredNumberWasReceived

(* No step of a send starts a sweep or touches what a sweep works on. *)
LEMMA SendKeepsSweep ==
    ASSUME TypeOK, NEW t \in Threads, Send(t)
    PROVE  /\ UNCHANGED ackVars
           /\ pc'["listener"] = "sweep" => pc["listener"] = "sweep"
<1>1. ASSUME NEW rest, Continue(t, rest)
      PROVE  pc'["listener"] = "sweep" => pc["listener"] = "sweep"
  BY <1>1 DEF Continue, TypeOK, Threads
<1>2. CASE SendTo(t)
  BY <1>2 DEF SendTo, TypeOK, Threads
<1>3. CASE CheckThrows(t)
  BY <1>3, <1>1 DEF CheckThrows
<1>4. CASE CheckPasses(t)
  <2>1. CASE Head(todo[t])[1] = AckReply
    BY <1>4, <2>1, <1>1 DEF CheckPasses
  <2>2. CASE Head(todo[t])[1] # AckReply
    BY <1>4, <2>2 DEF CheckPasses, TypeOK, Threads
  <2> QED BY <2>1, <2>2
<1>5. CASE PushBegin(t)
  BY <1>5 DEF PushBegin, TypeOK, Threads
<1>6. CASE PushEnd(t)
  BY <1>6, <1>1 DEF PushEnd
<1> QED BY <1>2, <1>3, <1>4, <1>5, <1>6 DEF Send

(* Every step preserves the invariant. *)
LEMMA DeliveryStep == DeliveryInv /\ [Next]_vars => DeliveryInv'
<1> SUFFICES ASSUME DeliveryInv, [Next]_vars PROVE DeliveryInv'
  OBVIOUS
<1> USE PacketsAssumption
<1>0. TypeOK /\ TypeOK'
  BY TypeStep DEF DeliveryInv
<1> DEFINE Goal == SweepJustified' /\ DeliveredNumberWasReceived'
<1> SUFFICES Goal
  BY <1>0 DEF DeliveryInv
<1>1. ASSUME UNCHANGED <<sweep, delivered, received>>,
             pc'["listener"] = "sweep" => pc["listener"] = "sweep"
      PROVE  Goal
  BY <1>1 DEF DeliveryInv, SweepJustified, DeliveredNumberWasReceived
<1>2. ASSUME NEW p \in Packets, Call(p) PROVE Goal
  BY <1>0, <1>1, <1>2 DEF Call, Continue, ackVars, TypeOK, Threads
<1>3. ASSUME NEW t \in Threads, Send(t) PROVE Goal
  BY <1>0, <1>1, <1>3, SendKeepsSweep DEF ackVars
<1>4. CASE RaceCrash
  BY <1>1, <1>4 DEF RaceCrash, ackVars
<1>5. ASSUME NEW n \in Nat, BeginSweep(n),
             n = 0 \/ \E r \in received : Num[r[1]] = n
      PROVE  Goal
  BY <1>5 DEF BeginSweep, DeliveryInv, SweepJustified, DeliveredNumberWasReceived
<1>6. ASSUME NEW sends, NEW new, Reply(sends, new) PROVE Goal
  BY <1>0, <1>1, <1>6 DEF Reply, Continue, ackVars, TypeOK, Threads
<1>7. CASE Receive
  <2>1. CASE ReceiveAck
    <3>1. PICK r \in received : BeginSweep(Num[r[1]])
      BY <2>1 DEF ReceiveAck
    <3>2. Num[r[1]] \in Nat
      BY <3>1, <1>0 DEF TypeOK
    <3> QED BY <3>1, <3>2, <1>5
  <2>2. CASE ReceiveUnspecified
    BY <2>2, <1>5 DEF ReceiveUnspecified
  <2>3. ASSUME NEW e \in Endpoints, ReceiveData(e) PROVE Goal
    BY <2>3, <1>6, Zenon DEF ReceiveData
  <2>4. ASSUME NEW e \in Endpoints, ReceiveHandshake(e) PROVE Goal
    BY <2>4, <1>6, Zenon DEF ReceiveHandshake
  <2> QED BY <1>7, <2>1, <2>2, <2>3, <2>4 DEF Receive
<1>8. CASE SweepStep
  <2>1. pc["listener"] = "sweep" /\ sweep'.num = sweep.num /\ received' = received
    BY <1>8, <1>0, SweepFields DEF SweepStep
  <2>2. sweep.num = 0 \/ \E r \in received : Num[r[1]] = sweep.num
    BY <2>1 DEF DeliveryInv, SweepJustified
  <2>3. \A p \in delivered' : p \in delivered \/ Num[p] = sweep.num
    BY <1>8 DEF SweepStep
  <2> QED BY <2>1, <2>2, <2>3
          DEF DeliveryInv, SweepJustified, DeliveredNumberWasReceived
<1>9. CASE SweepEnd
  BY <1>9, <1>0 DEF SweepEnd, TypeOK, Threads, DeliveryInv, SweepJustified,
                    DeliveredNumberWasReceived
<1>10. ASSUME NEW p \in Packets, NEW e \in Endpoints, PeerReceive(p, e) PROVE Goal
  <2>1. received \subseteq received' /\ UNCHANGED <<pc, sweep, delivered>>
    BY <1>10 DEF PeerReceive
  <2> QED BY <2>1 DEF DeliveryInv, SweepJustified, DeliveredNumberWasReceived
<1>11. CASE UNCHANGED vars
  BY <1>1, <1>11 DEF vars
<1> QED
  BY <1>2, <1>3, <1>4, <1>7, <1>8, <1>9, <1>10, <1>11 DEF Next, Sweep, Terminated

LEMMA DeliveryInvariant == Spec => []DeliveryInv
<1>1. Init => SweepJustified /\ DeliveredNumberWasReceived
  BY DEF Init, SweepJustified, DeliveredNumberWasReceived, Threads
<1>2. Init => TypeOK
  BY InitType
<1>3. Init => DeliveryInv
  BY <1>1, <1>2 DEF DeliveryInv
<1> QED BY <1>3, DeliveryStep, PTL DEF Spec

(* Whatever the threads, the network and the numbers do, a delivered mark has a
   received packet of the same number behind it, or the number is 0. *)
THEOREM DeliveredNumber == Spec => []DeliveredNumberWasReceived
<1>1. DeliveryInv => DeliveredNumberWasReceived
  BY DEF DeliveryInv
<1> QED BY <1>1, DeliveryInvariant, PTL

(* For a packet with a number of its own that packet is the packet itself. *)
LEMMA OwnNumberReceived ==
    ASSUME TypeOK, NEW p \in Owned, NEW n, n = Num[p],
           n = 0 \/ \E r \in received : Num[r[1]] = n
    PROVE  \E e \in Endpoints : <<p, e>> \in received
<1>1. p \in Packets /\ n # 0 /\ received \subseteq Packets \X Endpoints
  BY DEF TypeOK, Owned, OwnNumber
<1>2. PICK r \in received : Num[r[1]] = n
  BY <1>1
<1>3. r[1] = p /\ r[2] \in Endpoints /\ r = <<r[1], r[2]>>
  BY <1>1, <1>2 DEF Owned, OwnNumber
<1> QED BY <1>2, <1>3

(* A packet with a number of its own that is marked delivered was received by
   an endpoint, whatever numbers the others have. *)
THEOREM Delivered == Spec => []DeliveredWasReceived
<1>1. DeliveryInv => DeliveredWasReceived
  <2> SUFFICES ASSUME DeliveryInv, NEW p \in delivered, OwnNumber(p)
               PROVE  \E e \in Endpoints : <<p, e>> \in received
    BY DEF DeliveredWasReceived
  <2>1. TypeOK /\ p \in Owned
    BY DEF DeliveryInv, TypeOK, Owned
  <2>2. Num[p] = 0 \/ \E r \in received : Num[r[1]] = Num[p]
    BY DEF DeliveryInv, DeliveredNumberWasReceived
  <2> QED BY <2>1, <2>2, OwnNumberReceived
<1> QED BY <1>1, DeliveryInvariant, PTL

-----------------------------------------------------------------------------
(* A datagram's packet stays kept when the marks and the exceptions only grow,
   the buffer keeps its entries or marks those it drops, and a send that was
   in progress still is, or has left its packet in the buffer. *)
LEMMA KeptStep ==
    ASSUME TypeOK, NEW p \in Packets, NEW e \in Endpoints, Kept(p, e),
           delivered \subseteq delivered', threw \subseteq threw', raced => raced',
           Buffered(p) => Kept(p, e)',
           \A t \in Threads : InProgress(t, <<p, e>>) => Kept(p, e)'
    PROVE  Kept(p, e)'
BY DEF Kept

LEMMA InProgressSame ==
    ASSUME NEW t \in Threads, NEW p, NEW e, InProgress(t, <<p, e>>),
           todo'[t] = todo[t], pc'[t] = pc[t]
    PROVE  Kept(p, e)'
BY DEF InProgress, Kept

(* Every step keeps every awaitACK packet that went out. *)
LEMMA NothingForgottenStep ==
    TypeOK /\ NothingForgotten /\ [Next]_vars => NothingForgotten'
<1> SUFFICES ASSUME TypeOK, NothingForgotten, [Next]_vars,
                    NEW p \in Packets, NEW e \in Endpoints, <<p, e>> \in wire'
             PROVE  Kept(p, e)'
  BY DEF NothingForgotten
<1> USE PacketsAssumption
<1> DEFINE s == <<p, e>>
<1>0. s \in wire => Kept(p, e)
  BY DEF NothingForgotten
<1>1. ASSUME UNCHANGED <<wire, ACKBuffer>>,
             delivered \subseteq delivered', threw \subseteq threw', raced => raced',
             \A t \in Threads : InProgress(t, s) => Kept(p, e)'
      PROVE  Kept(p, e)'
  <2>1. Kept(p, e)
    BY <1>0, <1>1
  <2>2. Buffered(p) => Kept(p, e)'
    BY <1>1 DEF Buffered, Kept
  <2> QED BY <2>1, <2>2, <1>1, KeptStep
<1>2. ASSUME NEW t \in Threads, pc[t] \notin {"check", "grow", "store"},
             NEW rest, Continue(t, rest)
      PROVE  \A u \in Threads : InProgress(u, s) => Kept(p, e)'
  <2> SUFFICES ASSUME NEW u \in Threads, InProgress(u, s) PROVE Kept(p, e)'
    OBVIOUS
  <2>1. u # t
    BY <1>2 DEF InProgress
  <2>2. todo'[u] = todo[u] /\ pc'[u] = pc[u]
    BY <1>2, <2>1 DEF Continue, TypeOK
  <2> QED BY <2>2, InProgressSame
<1>3. ASSUME NEW q \in Packets, Call(q) PROVE Kept(p, e)'
  <2>1. \A u \in Threads : InProgress(u, s) => Kept(p, e)'
    BY <1>2, <1>3 DEF Call, Threads
  <2> QED BY <1>1, <1>3, <2>1 DEF Call, ackVars
<1>4. ASSUME NEW sends, NEW new, Reply(sends, new) PROVE Kept(p, e)'
  <2>1. \A u \in Threads : InProgress(u, s) => Kept(p, e)'
    BY <1>2, <1>4 DEF Reply, Threads
  <2> QED BY <1>1, <1>4, <2>1 DEF Reply, ackVars
<1>5. ASSUME NEW t \in Threads, SendTo(t) PROVE Kept(p, e)'
  <2>1. todo' = todo /\ pc'[t] = "check" /\ todo[t] # <<>>
    BY <1>5 DEF SendTo, TypeOK
  <2>2. CASE s \in wire
    <3>1. Kept(p, e)
      BY <2>2, <1>0
    <3>2. \A u \in Threads : InProgress(u, s) => Kept(p, e)'
      <4> SUFFICES ASSUME NEW u \in Threads, InProgress(u, s) PROVE Kept(p, e)'
        OBVIOUS
      <4>1. u # t /\ pc'[u] = pc[u]
        BY <1>5 DEF InProgress, SendTo, TypeOK
      <4> QED BY <2>1, <4>1, InProgressSame
    <3>3. Buffered(p) => Kept(p, e)'
      BY <1>5 DEF SendTo, Buffered, Kept
    <3> QED BY <1>5, <3>1, <3>2, <3>3, KeptStep DEF SendTo, ackVars
  <2>3. CASE s \notin wire
    <3>1. Head(todo[t]) = s
      BY <1>5, <2>3 DEF SendTo
    <3> QED BY <2>1, <3>1 DEF Kept, InProgress
  <2> QED BY <2>2, <2>3
<1>6. ASSUME NEW t \in Threads, CheckThrows(t) PROVE Kept(p, e)'
  <2>1. ASSUME NEW u \in Threads, InProgress(u, s) PROVE Kept(p, e)'
    <3>1. CASE u = t
      BY <1>6, <2>1, <3>1 DEF CheckThrows, InProgress, Kept
    <3>2. CASE u # t
      <4>1. todo'[u] = todo[u] /\ pc'[u] = pc[u]
        BY <1>6, <3>2 DEF CheckThrows, Continue, TypeOK
      <4> QED BY <2>1, <4>1, InProgressSame
    <3> QED BY <3>1, <3>2
  <2> QED BY <1>1, <1>6, <2>1 DEF CheckThrows, ackVars
<1>7. ASSUME NEW t \in Threads, CheckPasses(t) PROVE Kept(p, e)'
  <2>1. ASSUME NEW u \in Threads, InProgress(u, s) PROVE Kept(p, e)'
    <3>1. CASE u = t
      <4>1. Head(todo[t])[1] # AckReply
        BY <2>1, <3>1 DEF InProgress
      <4>2. todo' = todo /\ pc'[t] = "grow"
        BY <1>7, <4>1 DEF CheckPasses, TypeOK
      <4> QED BY <2>1, <3>1, <4>2 DEF InProgress, Kept
    <3>2. CASE u # t
      <4>1. todo'[u] = todo[u] /\ pc'[u] = pc[u]
        BY <1>7, <3>2 DEF CheckPasses, Continue, TypeOK
      <4> QED BY <2>1, <4>1, InProgressSame
    <3> QED BY <3>1, <3>2
  <2> QED BY <1>1, <1>7, <2>1 DEF CheckPasses, ackVars
<1>8. ASSUME NEW t \in Threads, PushBegin(t) PROVE Kept(p, e)'
  <2>1. ASSUME NEW u \in Threads, InProgress(u, s) PROVE Kept(p, e)'
    BY <1>8, <2>1 DEF PushBegin, InProgress, Kept, TypeOK
  <2> QED BY <1>1, <1>8, <2>1 DEF PushBegin, ackVars
<1>9. ASSUME NEW t \in Threads, PushEnd(t) PROVE Kept(p, e)'
  <2>1. CASE raced'
    BY <2>1 DEF Kept
  <2>2. CASE ~raced'
    <3> DEFINE q == Head(todo[t])[1]
    <3>1. q \in Packets /\ ACKBuffer \in Seq(Packets) /\ ACKBuffer' = Append(ACKBuffer, q)
      BY <1>9, <2>2 DEF PushEnd, TypeOK
    <3> HIDE DEF q
    <3>2. \E k \in DOMAIN ACKBuffer' : ACKBuffer'[k] = q
      BY <3>1, AppendEntries
    <3>3. \A k \in DOMAIN ACKBuffer : k \in DOMAIN ACKBuffer' /\ ACKBuffer'[k] = ACKBuffer[k]
      BY <3>1, AppendEntries
    <3>4. Buffered(p) => Kept(p, e)'
      BY <3>3 DEF Buffered, Kept
    <3>5. ASSUME NEW u \in Threads, InProgress(u, s) PROVE Kept(p, e)'
      <4>1. CASE u = t
        BY <3>2, <3>5, <4>1 DEF InProgress, Buffered, Kept, q
      <4>2. CASE u # t
        <5>1. todo'[u] = todo[u] /\ pc'[u] = pc[u]
          BY <1>9, <4>2 DEF PushEnd, Continue, TypeOK
        <5> QED BY <3>5, <5>1, InProgressSame
      <4> QED BY <4>1, <4>2
    <3>6. /\ Kept(p, e) /\ delivered \subseteq delivered' /\ threw \subseteq threw'
          /\ raced => raced'
      BY <1>0, <1>9 DEF PushEnd, ackVars
    <3> QED BY <3>4, <3>5, <3>6, KeptStep
  <2> QED BY <2>1, <2>2
<1>10. CASE RaceCrash
  BY <1>10 DEF RaceCrash, Kept
<1>11. ASSUME NEW n, BeginSweep(n) PROVE Kept(p, e)'
  <2>1. ASSUME NEW u \in Threads, InProgress(u, s) PROVE Kept(p, e)'
    <3>1. todo'[u] = todo[u] /\ pc'[u] = pc[u]
      BY <1>11, <2>1 DEF BeginSweep, InProgress, TypeOK, sendVars, Threads
    <3> QED BY <2>1, <3>1, InProgressSame
  <2> QED BY <1>1, <1>11, <2>1 DEF BeginSweep, sendVars
<1>12. CASE Receive
  BY <1>4, <1>11, <1>12, Zenon
  DEF Receive, ReceiveAck, ReceiveUnspecified, ReceiveData, ReceiveHandshake
<1>13. CASE SweepStep
  <2> DEFINE i == sweep.i
  <2>1. /\ i \in 1 .. Len(ACKBuffer) /\ ACKBuffer \in Seq(Packets)
        /\ UNCHANGED <<pc, todo, threw, wire, raced>>
    BY <1>13 DEF SweepStep, TypeOK, sendVars
  <2>2. ASSUME Buffered(p) PROVE Kept(p, e)'
    <3>1. PICK k \in DOMAIN ACKBuffer : ACKBuffer[k] = p
      BY <2>2 DEF Buffered
    <3>2. CASE Num[ACKBuffer[i]] # sweep.num
      BY <1>13, <2>2, <3>2 DEF SweepStep, Buffered, Kept
    <3>3. CASE Num[ACKBuffer[i]] = sweep.num /\ k = i
      BY <1>13, <3>1, <3>3 DEF SweepStep, Kept
    <3>4. CASE Num[ACKBuffer[i]] = sweep.num /\ k # i
      <4>1. ACKBuffer' = RemoveAt(ACKBuffer, i)
        BY <1>13, <3>4 DEF SweepStep
      <4>2. \E j \in DOMAIN ACKBuffer' : ACKBuffer'[j] = p
        BY <2>1, <3>1, <3>4, <4>1, EraseKeepsOthers
      <4> QED BY <4>2 DEF Buffered, Kept
    <3> QED BY <3>2, <3>3, <3>4
  <2>3. \A u \in Threads : InProgress(u, s) => Kept(p, e)'
    BY <2>1 DEF InProgress, Kept
  <2>4. delivered \subseteq delivered'
    BY <1>13 DEF SweepStep
  <2>5. Kept(p, e)
    BY <1>0, <2>1
  <2> QED BY <2>1, <2>2, <2>3, <2>4, <2>5, KeptStep
<1>14. CASE SweepEnd
  <2>1. ASSUME NEW u \in Threads, InProgress(u, s) PROVE Kept(p, e)'
    <3>1. todo'[u] = todo[u] /\ pc'[u] = pc[u]
      BY <1>14, <2>1 DEF SweepEnd, InProgress, TypeOK, sendVars, Threads
    <3> QED BY <2>1, <3>1, InProgressSame
  <2> QED BY <1>1, <1>14, <2>1 DEF SweepEnd, sendVars
<1>15. ASSUME NEW q \in Packets, NEW d \in Endpoints, PeerReceive(q, d) PROVE Kept(p, e)'
  <2>1. UNCHANGED <<wire, ACKBuffer, delivered, threw, raced, todo, pc>>
    BY <1>15 DEF PeerReceive, sendVars
  <2>2. \A u \in Threads : InProgress(u, s) => Kept(p, e)'
    BY <2>1 DEF InProgress, Kept
  <2> QED BY <1>1, <2>1, <2>2
<1>16. CASE UNCHANGED vars
  <2>1. UNCHANGED <<wire, ACKBuffer, delivered, threw, raced, todo, pc>>
    BY <1>16 DEF vars
  <2>2. \A u \in Threads : InProgress(u, s) => Kept(p, e)'
    BY <2>1 DEF InProgress, Kept
  <2> QED BY <1>1, <2>1, <2>2
<1> QED
  BY <1>3, <1>5, <1>6, <1>7, <1>8, <1>9, <1>10, <1>12, <1>13, <1>14, <1>15, <1>16
  DEF Next, Send, Sweep, Terminated

(* An awaitACK packet that went out stays in ACKBuffer until it is marked
   delivered, but for exceptions and data races. *)
THEOREM NothingIsForgotten == Spec => []NothingForgotten
<1>1. Init => NothingForgotten
  BY DEF Init, NothingForgotten
<1> QED BY <1>1, NothingForgottenStep, TypeCorrect, PTL DEF Spec

-----------------------------------------------------------------------------
(* The refinement mapping, by name. *)
SentSet == {p \in Owned : \E e \in Endpoints : <<p, e>> \in wire}
ReachedSet == {p \in Owned : \E e \in Endpoints : <<p, e>> \in received}
ConfirmedSet == delivered \cap Owned

LEMMA PromiseUnfold ==
    /\ Promise!Init <=> SentSet = {} /\ ReachedSet = {} /\ ConfirmedSet = {}
    /\ \A p \in Owned :
        /\ SentSet' = SentSet \cup {p} /\ ReachedSet' = ReachedSet /\ ConfirmedSet' = ConfirmedSet
             => Promise!Next
        /\ p \in SentSet /\ ReachedSet' = ReachedSet \cup {p} /\ SentSet' = SentSet
             /\ ConfirmedSet' = ConfirmedSet => Promise!Next
        /\ p \in ReachedSet /\ ConfirmedSet' = ConfirmedSet \cup {p} /\ SentSet' = SentSet
             /\ ReachedSet' = ReachedSet => Promise!Next
    /\ SentSet' = SentSet /\ ReachedSet' = ReachedSet /\ ConfirmedSet' = ConfirmedSet
         => UNCHANGED Promise!vars
BY DEF Promise!Init, Promise!Next, Promise!Send, Promise!Reach, Promise!Confirm,
       Promise!vars, SentSet, ReachedSet, ConfirmedSet

(* Every step is a step of the promise or leaves what it talks about alone. *)
LEMMA PromiseStep ==
    ASSUME DeliveryInv, [Next]_vars
    PROVE  [Promise!Next]_(Promise!vars)
<1> USE PacketsAssumption
<1>0. TypeOK
  BY DEF DeliveryInv
<1>1. ASSUME UNCHANGED <<wire, received, delivered>>
      PROVE  [Promise!Next]_(Promise!vars)
  BY <1>1, PromiseUnfold DEF SentSet, ReachedSet, ConfirmedSet
<1>2. ASSUME NEW p \in Packets, Call(p) PROVE [Promise!Next]_(Promise!vars)
  BY <1>1, <1>2 DEF Call, ackVars
<1>3. ASSUME NEW t \in Threads, SendTo(t) PROVE [Promise!Next]_(Promise!vars)
  <2> DEFINE s == Head(todo[t])
  <2>1. UNCHANGED <<received, delivered>>
    BY <1>3 DEF SendTo, ackVars
  <2>2. wire' = wire \/ wire' = wire \cup ({s} \cap (Packets \X Endpoints))
    BY <1>3 DEF SendTo
  <2>3. CASE wire' = wire
    BY <1>1, <2>1, <2>3
  <2>4. CASE wire' = wire \cup ({s} \cap (Packets \X Endpoints)) /\ s \in Packets \X Endpoints
    <3>1. PICK p \in Packets, e \in Endpoints : s = <<p, e>>
      BY <2>4
    <3>2. wire' = wire \cup {<<p, e>>}
      BY <2>4, <3>1
    <3>3. ReachedSet' = ReachedSet /\ ConfirmedSet' = ConfirmedSet
      BY <2>1 DEF ReachedSet, ConfirmedSet
    <3>4. SentSet' = SentSet \cup ({p} \cap Owned)
      BY <3>2 DEF SentSet
    <3>5. CASE p \in Owned
      <4>1. SentSet' = SentSet \cup {p}
        BY <3>4, <3>5
      <4> QED BY <3>3, <3>5, <4>1, PromiseUnfold
    <3>6. CASE p \notin Owned
      <4>1. SentSet' = SentSet
        BY <3>4, <3>6
      <4> QED BY <3>3, <4>1, PromiseUnfold
    <3> QED BY <3>5, <3>6
  <2>5. CASE wire' = wire \cup ({s} \cap (Packets \X Endpoints)) /\ s \notin Packets \X Endpoints
    <3>1. wire' = wire
      BY <2>5
    <3> QED BY <1>1, <2>1, <3>1
  <2> QED BY <2>2, <2>3, <2>4, <2>5
<1>4. ASSUME NEW t \in Threads,
             CheckThrows(t) \/ CheckPasses(t) \/ PushBegin(t) \/ PushEnd(t)
      PROVE  [Promise!Next]_(Promise!vars)
  BY <1>1, <1>4 DEF CheckThrows, CheckPasses, PushBegin, PushEnd, ackVars
<1>5. CASE RaceCrash
  BY <1>1, <1>5 DEF RaceCrash, sendVars, ackVars
<1>6. ASSUME NEW n, BeginSweep(n) PROVE [Promise!Next]_(Promise!vars)
  BY <1>1, <1>6 DEF BeginSweep, sendVars
<1>7. ASSUME NEW sends, NEW new, Reply(sends, new) PROVE [Promise!Next]_(Promise!vars)
  BY <1>1, <1>7 DEF Reply, ackVars
<1>8. CASE Receive
  BY <1>6, <1>7, <1>8, Zenon
  DEF Receive, ReceiveAck, ReceiveUnspecified, ReceiveData, ReceiveHandshake
<1>9. CASE SweepStep
  <2>1. UNCHANGED <<wire, received>> /\ SentSet' = SentSet /\ ReachedSet' = ReachedSet
    BY <1>9 DEF SweepStep, sendVars, SentSet, ReachedSet
  <2>2. CASE delivered' = delivered
    BY <1>1, <2>1, <2>2
  <2>3. CASE delivered' # delivered
    <3> DEFINE q == ACKBuffer[sweep.i]
    <3>1. q \in Packets /\ Num[q] = sweep.num /\ delivered' = delivered \cup {q}
      BY <1>9, <1>0, <2>3 DEF SweepStep, TypeOK
    <3>2. sweep.num = 0 \/ \E r \in received : Num[r[1]] = sweep.num
      BY <1>9 DEF SweepStep, DeliveryInv, SweepJustified
    <3> HIDE DEF q
    <3>3. CASE q \in Owned
      <4>1. q \in ReachedSet
        BY <1>0, <3>1, <3>2, <3>3, OwnNumberReceived DEF ReachedSet
      <4>2. ConfirmedSet' = ConfirmedSet \cup {q}
        BY <3>1, <3>3 DEF ConfirmedSet
      <4> QED BY <2>1, <3>3, <4>1, <4>2, PromiseUnfold
    <3>4. CASE q \notin Owned
      <4>1. ConfirmedSet' = ConfirmedSet
        BY <3>1, <3>4 DEF ConfirmedSet
      <4> QED BY <2>1, <4>1, PromiseUnfold
    <3> QED BY <3>3, <3>4
  <2> QED BY <2>2, <2>3
<1>10. CASE SweepEnd
  BY <1>1, <1>10 DEF SweepEnd, sendVars
<1>11. ASSUME NEW p \in Packets, NEW e \in Endpoints, PeerReceive(p, e)
       PROVE  [Promise!Next]_(Promise!vars)
  <2>1. /\ <<p, e>> \in wire /\ received' = received \cup {<<p, e>>}
        /\ UNCHANGED <<wire, delivered>>
    BY <1>11 DEF PeerReceive, sendVars
  <2>2. SentSet' = SentSet /\ ConfirmedSet' = ConfirmedSet
    BY <2>1 DEF SentSet, ConfirmedSet
  <2>3. CASE p \in Owned
    <3>1. p \in SentSet /\ ReachedSet' = ReachedSet \cup {p}
      BY <2>1, <2>3 DEF SentSet, ReachedSet
    <3> QED BY <2>2, <2>3, <3>1, PromiseUnfold
  <2>4. CASE p \notin Owned
    <3>1. ReachedSet' = ReachedSet
      BY <2>1, <2>4 DEF ReachedSet
    <3> QED BY <2>2, <3>1, PromiseUnfold
  <2> QED BY <2>3, <2>4
<1>12. CASE UNCHANGED vars
  BY <1>1, <1>12 DEF vars
<1> QED
  BY <1>2, <1>3, <1>4, <1>5, <1>8, <1>9, <1>10, <1>11, <1>12
  DEF Next, Send, Sweep, Terminated

(* AckBuffer implements DeliveryPromise for the packets with a number of their
   own: each mark follows a receipt, each receipt a send, and nothing is
   withdrawn, whatever the two threads do to each other. *)
THEOREM Implements == Spec => KeepsPromise
<1>1. Init => Promise!Init
  BY PromiseUnfold DEF Init, SentSet, ReachedSet, ConfirmedSet
<1>2. DeliveryInv /\ [Next]_vars => [Promise!Next]_(Promise!vars)
  BY PromiseStep
<1> QED BY <1>1, <1>2, DeliveryInvariant, PTL DEF Spec, KeepsPromise, Promise!Spec

-----------------------------------------------------------------------------
(***************************************************************************)
(* What the listener's sweep leaves behind.  SweepTakesHalf is inductive   *)
(* because LeftBehind also holds the places the loop will not get to: a    *)
(* push_back into one of them adds nothing to it, and an erase adds the    *)
(* one place it moves the next entry into.                                 *)
(***************************************************************************)
LEMMA LeftBehindFinite ==
    ASSUME TypeOK PROVE IsFiniteSet(LeftBehind) /\ Cardinality(LeftBehind) \in Nat
<1>1. sweep.i - 1 \in Int
  BY DEF TypeOK
<1>2. IsFiniteSet(1 .. sweep.i - 1)
  BY <1>1, FS_Interval
<1>3. LeftBehind \subseteq 1 .. sweep.i - 1
  BY DEF LeftBehind
<1> QED BY <1>2, <1>3, FS_Subset, FS_CardinalityType

(* A step that puts no further place behind the sweep. *)
LEMMA NoneLeft ==
    ASSUME TypeOK, TypeOK', SweepTakesHalf, raced => raced',
           pc'["listener"] = "sweep" => pc["listener"] = "sweep",
           LeftBehind' \subseteq LeftBehind, sweep'.taken = sweep.taken
    PROVE  SweepTakesHalf'
<1>1. Cardinality(LeftBehind') <= Cardinality(LeftBehind)
  BY LeftBehindFinite, FS_Subset
<1>2. Cardinality(LeftBehind) \in Nat /\ Cardinality(LeftBehind') \in Nat /\ sweep.taken \in Nat
  <2>1. IsFiniteSet(LeftBehind')
    BY LeftBehindFinite, FS_Subset
  <2> QED BY <2>1, LeftBehindFinite, FS_CardinalityType DEF TypeOK
<1> QED BY <1>1, <1>2 DEF SweepTakesHalf

(* The erase, and the place the next entry moves into. *)
LEMMA EraseLeavesOne ==
    ASSUME TypeOK, SweepTakesHalf, SweepStep, Num[ACKBuffer[sweep.i]] = sweep.num
    PROVE  SweepTakesHalf'
<1> DEFINE i == sweep.i
<1>1. /\ ACKBuffer \in Seq(Packets) /\ i \in 1 .. Len(ACKBuffer) /\ i \in Nat \ {0}
      /\ Len(ACKBuffer) \in Nat /\ sweep.taken \in Nat /\ sweep'.num = sweep.num
      /\ sweep'.i = i + 1 /\ sweep'.taken = sweep.taken + 1
      /\ ACKBuffer' = RemoveAt(ACKBuffer, i)
      /\ pc["listener"] = "sweep" /\ raced' = raced
  <2>1. /\ ACKBuffer \in Seq(Packets) /\ i \in Nat \ {0} /\ sweep.taken \in Nat
        /\ i <= Len(ACKBuffer) /\ ACKBuffer' = RemoveAt(ACKBuffer, i)
        /\ pc["listener"] = "sweep" /\ raced' = raced
    BY DEF SweepStep, TypeOK
  <2>2. Len(ACKBuffer) \in Nat
    BY <2>1
  <2> QED BY <2>1, <2>2, SweepFields
<1>2. /\ Len(ACKBuffer') = Len(ACKBuffer) - 1
      /\ \A k \in 1 .. Len(ACKBuffer) - 1 : k < i => ACKBuffer'[k] = ACKBuffer[k]
  BY <1>1, RemoveAtKeeps
<1>3. LeftBehind' \subseteq LeftBehind \cup {i}
  <2> SUFFICES ASSUME NEW k \in LeftBehind', k # i PROVE k \in LeftBehind
    OBVIOUS
  <2>1. k \in 1 .. i /\ (k <= Len(ACKBuffer') => Num[ACKBuffer'[k]] = sweep.num)
    BY <1>1 DEF LeftBehind
  <2>2. k \in 1 .. i - 1 /\ k \in 1 .. Len(ACKBuffer) - 1
    BY <1>1, <2>1
  <2>3. k <= Len(ACKBuffer') /\ ACKBuffer'[k] = ACKBuffer[k]
    BY <1>1, <1>2, <2>2
  <2>4. Num[ACKBuffer[k]] = sweep.num
    BY <2>1, <2>3
  <2> QED BY <2>2, <2>4 DEF LeftBehind
<1>4. /\ IsFiniteSet(LeftBehind) /\ Cardinality(LeftBehind) \in Nat
      /\ IsFiniteSet(LeftBehind \cup {i})
      /\ Cardinality(LeftBehind \cup {i}) <= Cardinality(LeftBehind) + 1
      /\ Cardinality(LeftBehind \cup {i}) \in Nat
  <2>1. IsFiniteSet(LeftBehind) /\ Cardinality(LeftBehind) \in Nat
    BY LeftBehindFinite
  <2>2. /\ IsFiniteSet(LeftBehind \cup {i})
        /\ \/ Cardinality(LeftBehind \cup {i}) = Cardinality(LeftBehind)
           \/ Cardinality(LeftBehind \cup {i}) = Cardinality(LeftBehind) + 1
    BY <2>1, FS_AddElement
  <2> QED BY <2>1, <2>2
<1>5. /\ Cardinality(LeftBehind') <= Cardinality(LeftBehind \cup {i})
      /\ Cardinality(LeftBehind') \in Nat
  <2>1. IsFiniteSet(LeftBehind') /\ Cardinality(LeftBehind') <= Cardinality(LeftBehind \cup {i})
    BY <1>3, <1>4, FS_Subset
  <2> QED BY <2>1, FS_CardinalityType
<1>6. ASSUME ~raced PROVE Cardinality(LeftBehind') <= sweep'.taken
  <2>1. Cardinality(LeftBehind) <= sweep.taken
    BY <1>1, <1>6 DEF SweepTakesHalf
  <2> QED BY <1>1, <1>4, <1>5, <2>1
<1> QED BY <1>1, <1>6 DEF SweepTakesHalf

(* Every step of either thread, the listener or a peer preserves it. *)
LEMMA SweepTakesHalfStep ==
    TypeOK /\ SweepTakesHalf /\ [Next]_vars => SweepTakesHalf'
<1> SUFFICES ASSUME TypeOK, SweepTakesHalf, [Next]_vars PROVE SweepTakesHalf'
  OBVIOUS
<1>0. TypeOK'
  BY TypeStep
<1>1. ASSUME UNCHANGED <<ACKBuffer, sweep>>, raced => raced',
             pc'["listener"] = "sweep" => pc["listener"] = "sweep"
      PROVE  SweepTakesHalf'
  <2>1. LeftBehind' = LeftBehind
    BY <1>1 DEF LeftBehind
  <2> QED BY <1>0, <1>1, <2>1, NoneLeft
<1>2. ASSUME NEW t \in Threads, NEW rest, Continue(t, rest)
      PROVE  pc'["listener"] = "sweep" => pc["listener"] = "sweep"
  BY <1>2 DEF Continue, TypeOK, Threads
<1>3. ASSUME NEW p \in Packets, Call(p) PROVE SweepTakesHalf'
  BY <1>1, <1>2, <1>3 DEF Call, ackVars, Threads
<1>4. ASSUME NEW sends, NEW new, Reply(sends, new) PROVE SweepTakesHalf'
  BY <1>1, <1>2, <1>4 DEF Reply, ackVars, Threads
<1>5. ASSUME NEW t \in Threads, Send(t) PROVE SweepTakesHalf'
  <2>1. UNCHANGED sweep /\ (pc'["listener"] = "sweep" => pc["listener"] = "sweep")
    BY <1>5, SendKeepsSweep DEF ackVars
  <2>2. CASE SendTo(t) \/ CheckThrows(t) \/ CheckPasses(t) \/ PushBegin(t)
    BY <1>1, <2>1, <2>2 DEF SendTo, CheckThrows, CheckPasses, PushBegin
  <2>3. CASE PushEnd(t)
    <3>1. CASE raced'
      BY <3>1 DEF SweepTakesHalf
    <3>2. CASE ~raced'
      <4> DEFINE p == Head(todo[t])[1]
      <4>1. /\ ~raced /\ ACKBuffer' = Append(ACKBuffer, p) /\ ACKBuffer \in Seq(Packets)
            /\ p \in Packets
        BY <2>3, <3>2 DEF PushEnd, TypeOK
      <4> HIDE DEF p
      <4>2. /\ Len(ACKBuffer) \in Nat /\ Len(ACKBuffer') = Len(ACKBuffer) + 1
            /\ \A k \in 1 .. Len(ACKBuffer) : ACKBuffer'[k] = ACKBuffer[k]
        BY <4>1
      <4>3. ASSUME NEW k \in 1 .. sweep.i - 1,
                   k <= Len(ACKBuffer') => Num[ACKBuffer'[k]] = sweep.num, k <= Len(ACKBuffer)
            PROVE  Num[ACKBuffer[k]] = sweep.num
        <5>1. k \in 1 .. Len(ACKBuffer)
          BY <4>2, <4>3 DEF TypeOK
        <5> QED BY <4>2, <4>3, <5>1
      <4>4. LeftBehind' \subseteq LeftBehind
        BY <2>1, <4>3 DEF LeftBehind
      <4> QED BY <1>0, <2>1, <4>1, <4>4, NoneLeft
    <3> QED BY <3>1, <3>2
  <2> QED BY <1>5, <2>2, <2>3 DEF Send
<1>6. CASE RaceCrash
  BY <1>6 DEF RaceCrash, SweepTakesHalf
<1>7. ASSUME NEW n, BeginSweep(n) PROVE SweepTakesHalf'
  <2>1. sweep'.i = 1 /\ sweep'.taken = 0
    BY <1>7 DEF BeginSweep
  <2>2. LeftBehind' = {}
    BY <2>1 DEF LeftBehind
  <2> QED BY <2>1, <2>2, FS_EmptySet DEF SweepTakesHalf
<1>8. CASE Receive
  BY <1>4, <1>7, <1>8, Zenon
  DEF Receive, ReceiveAck, ReceiveUnspecified, ReceiveData, ReceiveHandshake
<1>9. CASE SweepStep
  <2>1. CASE Num[ACKBuffer[sweep.i]] = sweep.num
    BY <1>9, <2>1, EraseLeavesOne
  <2>2. CASE Num[ACKBuffer[sweep.i]] # sweep.num
    <3>1. /\ sweep'.i = sweep.i + 1 /\ sweep'.num = sweep.num /\ sweep'.taken = sweep.taken
          /\ UNCHANGED <<ACKBuffer, pc, raced>> /\ sweep.i \in Nat \ {0}
          /\ sweep.i <= Len(ACKBuffer)
      BY <1>9, <2>2, SweepFields DEF SweepStep, TypeOK
    <3>2. LeftBehind' \subseteq LeftBehind
      <4> SUFFICES ASSUME NEW k \in LeftBehind' PROVE k \in LeftBehind
        OBVIOUS
      <4>1. k \in 1 .. sweep.i /\ (k <= Len(ACKBuffer) => Num[ACKBuffer[k]] = sweep.num)
        BY <3>1 DEF LeftBehind
      <4>2. k # sweep.i
        BY <2>2, <3>1, <4>1
      <4>3. k \in 1 .. sweep.i - 1
        BY <3>1, <4>1, <4>2
      <4> QED BY <4>1, <4>3 DEF LeftBehind
    <3> QED BY <1>0, <3>1, <3>2, NoneLeft
  <2> QED BY <2>1, <2>2
<1>10. CASE SweepEnd
  BY <1>10 DEF SweepEnd, SweepTakesHalf, TypeOK, Threads
<1>11. ASSUME NEW p \in Packets, NEW e \in Endpoints, PeerReceive(p, e) PROVE SweepTakesHalf'
  BY <1>1, <1>11 DEF PeerReceive, sendVars
<1>12. CASE UNCHANGED vars
  BY <1>1, <1>12 DEF vars
<1> QED
  BY <1>3, <1>5, <1>6, <1>8, <1>9, <1>10, <1>11, <1>12 DEF Next, Sweep, Terminated

(* The erase inside the listener's loop steps over the entry that moves into
   the erased one's place, and the application's thread may push into a place
   the index is past.  For any numbers and any pushes the loop still leaves no
   more packets of the ACK's number behind it than it took out. *)
THEOREM SweepAlwaysTakesHalf == Spec => []SweepTakesHalf
<1>1. Init => SweepTakesHalf
  BY DEF Init, SweepTakesHalf, Threads
<1> QED BY <1>1, SweepTakesHalfStep, TypeCorrect, PTL DEF Spec
=============================================================================
