------------------------------ MODULE AckBuffer ------------------------------
(***************************************************************************)
(* The acknowledgement bookkeeping of one MPInterfacer: how sendPacket,    *)
(* multicastPacket and onHandshakeReceive put awaitACK packets into        *)
(* ACKBuffer, and how the listener takes them out again.                   *)
(*                                                                         *)
(* Two threads run this code on the same unsynchronised members: the       *)
(* application's thread (sendPacket, multicastPacket) and ListenerThread   *)
(* (ListenerFunction, which sends ACK replies and handshake follow-ups     *)
(* through the same sendPacket).  ACKManagerThread never enters its loop   *)
(* (see AckManager) and is left out here.                                  *)
(*                                                                         *)
(* One action is one access to shared state: the sendto that writes the    *)
(* global iError, the test of iError, the first and the second half of     *)
(* ACKBuffer.push_back, one iteration of the listener's loop over          *)
(* ACKBuffer.  Keys and payloads are not modelled here; see Handshake.     *)
(***************************************************************************)
EXTENDS Naturals, FiniteSets, SequencesExt

CONSTANTS
    Packets,    \* the Packet objects sent with awaitACK = true
    FollowUps,  \* those of them that onHandshakeReceive allocates
    AckReply,   \* an ACK_RESPONSE packet: awaitACK = false, never buffered
    Endpoints,  \* the peers
    Num,        \* getPacketNum() of each packet
    Dest        \* the endpoints a packet is sent to, in the order of the loop

ASSUME PacketsAssumption ==
    /\ FollowUps \subseteq Packets
    /\ AckReply \notin Packets
    /\ Num \in [Packets -> Nat]
    /\ Dest \in [Packets -> Seq(Endpoints)]

Threads == {"app", "listener"}

VARIABLES
    pc,         \* where each thread is inside sendPacket or the listener loop
    todo,       \* the <<packet, endpoint>> sends its current call has yet to do
    seen,       \* the ACKBuffer its push_back in progress started from
    sweep,      \* the listener's local packet number and loop index; history: the
                \* entries this loop has taken out
    iError,     \* the global the result of the last sendto is stored in
    ACKBuffer,  \* the packets awaiting an ACK
    delivered,  \* the packets whose delivered flag is set
    answered,   \* history: the numbers whose ACK the listener has dealt with
    started,    \* the packets handed to a send call so far
    wire,       \* the awaited <<packet, endpoint>> datagrams on the network
    received,   \* those that reached their endpoint, which then sent an ACK
    threw,      \* history: the sends sendPacket threw an exception for
    raced,      \* history: a push_back overlapped another change of ACKBuffer
    crashed     \* the process was terminated

sendVars == <<todo, seen, iError, started, wire, threw>>
ackVars == <<sweep, delivered, answered, received>>
vars == <<pc, todo, seen, sweep, iError, ACKBuffer, delivered, answered,
          started, wire, received, threw, raced, crashed>>

Sends == (Packets \cup {AckReply}) \X Endpoints

TypeOK ==
    /\ pc \in [Threads -> {"rest", "sendto", "check", "grow", "store", "sweep"}]
    /\ pc["app"] # "sweep"
    /\ todo \in [Threads -> Seq(Sends)]
    /\ \A t \in Threads : pc[t] \in {"sendto", "check", "grow", "store"} => todo[t] # <<>>
    /\ \A t \in Threads : pc[t] \in {"grow", "store"} => Head(todo[t])[1] \in Packets
    /\ seen \in [Threads -> Seq(Packets)]
    /\ sweep \in [num : Nat, i : Nat \ {0}, taken : Nat]
    /\ iError \in {"sent", "failed"}
    /\ ACKBuffer \in Seq(Packets)
    /\ delivered \subseteq Packets
    /\ answered \subseteq Nat
    /\ started \subseteq Packets
    /\ wire \subseteq Packets \X Endpoints
    /\ received \subseteq wire
    /\ threw \subseteq Sends
    /\ raced \in BOOLEAN
    /\ crashed \in BOOLEAN

Init ==
    /\ pc = [t \in Threads |-> "rest"]
    /\ todo = [t \in Threads |-> <<>>]
    /\ seen = [t \in Threads |-> <<>>]
    /\ sweep = [num |-> 0, i |-> 1, taken |-> 0]
    /\ iError = "sent"
    /\ ACKBuffer = <<>>
    /\ delivered = {}
    /\ answered = {}
    /\ started = {}
    /\ wire = {}
    /\ received = {}
    /\ threw = {}
    /\ raced = FALSE
    /\ crashed = FALSE

-----------------------------------------------------------------------------
(***************************************************************************)
(* sendPacket, run by either thread.                                       *)
(***************************************************************************)

(* The rest of a call's sends: return to the caller after the last one. *)
Continue(t, rest) ==
    /\ todo' = [todo EXCEPT ![t] = rest]
    /\ pc' = [pc EXCEPT ![t] = IF rest = <<>> THEN "rest" ELSE "sendto"]

(* The sends of sendPacket(p, false) or multicastPacket(p, Dest[p]). *)
SendsOf(p) == [k \in 1 .. Len(Dest[p]) |-> <<p, Dest[p][k]>>]

Call(p) ==
    /\ pc["app"] = "rest"
    /\ p \in Packets \ (FollowUps \cup started)
    /\ started' = started \cup {p}
    /\ Continue("app", SendsOf(p))
    /\ UNCHANGED <<seen, iError, ACKBuffer, wire, threw, raced, crashed, ackVars>>

(* sendto either hands the datagram to the network or fails; both threads
   store its result in the same global. *)
SendTo(t) ==
    /\ pc[t] = "sendto"
    /\ pc' = [pc EXCEPT ![t] = "check"]
    /\ \/ /\ wire' = wire \cup ({Head(todo[t])} \cap (Packets \X Endpoints))
          /\ iError' = "sent"
       \/ /\ wire' = wire
          /\ iError' = "failed"
    /\ UNCHANGED <<todo, seen, ACKBuffer, started, threw, raced, crashed, ackVars>>

(* Mutant: a failed send is tried again instead of throwing. *)
CheckThrowsRetries(t) ==
    /\ pc[t] = "check"
    /\ iError = "failed"
    /\ pc' = [pc EXCEPT ![t] = "sendto"]
    /\ UNCHANGED <<todo, seen, iError, ACKBuffer, started, wire, threw, raced,
                   crashed, ackVars>>

(* The result was an error: sendPacket throws.  The exception leaves the
   caller's multicast loop, or terminates the process when the thread is the
   listener, whose function nothing encloses. *)
CheckThrows(t) ==
    /\ pc[t] = "check"
    /\ iError = "failed"
    /\ threw' = threw \cup {Head(todo[t])}
    /\ crashed' = (t = "listener")
    /\ Continue(t, <<>>)
    /\ UNCHANGED <<seen, iError, ACKBuffer, started, wire, raced, ackVars>>

(* Mutant: a packet is buffered whether it awaits an ACK or not. *)
CheckPassesAny(t) ==
    /\ pc[t] = "check"
    /\ iError = "sent"
    /\ pc' = [pc EXCEPT ![t] = "grow"]
    /\ UNCHANGED <<todo, seen, iError, ACKBuffer, started, wire, threw, raced,
                   crashed, ackVars>>

(* The result was a byte count: an awaitACK packet goes on to ACKBuffer. *)
CheckPasses(t) ==
    /\ pc[t] = "check"
    /\ iError = "sent"
    /\ IF Head(todo[t])[1] = AckReply
       THEN Continue(t, Tail(todo[t]))
       ELSE /\ pc' = [pc EXCEPT ![t] = "grow"]
            /\ todo' = todo
    /\ UNCHANGED <<seen, iError, ACKBuffer, started, wire, threw, raced,
                   crashed, ackVars>>

(* push_back reads the vector's storage and end pointer ... *)
PushBegin(t) ==
    /\ pc[t] = "grow"
    /\ pc' = [pc EXCEPT ![t] = "store"]
    /\ seen' = [seen EXCEPT ![t] = ACKBuffer]
    /\ UNCHANGED <<todo, iError, ACKBuffer, started, wire, threw, raced,
                   crashed, ackVars>>

(* What a push_back of p can leave when the vector went from old to now
   under it: the new end after the change; the old array copied back (or the
   other thread's element overwritten); p lost; the last old element left
   behind in the slot the erase vacated, in place of p or in front of it. *)
RacedPush(old, now, p) ==
    {Append(now, p), Append(old, p), now}
        \cup IF Len(now) < Len(old)
             THEN {Append(now, Last(old)), now \o <<Last(old), p>>}
             ELSE {}

(* ... and stores the element and the new end pointer. *)
PushEnd(t) ==
    /\ pc[t] = "store"
    /\ LET p == Head(todo[t])[1]
       IN  \/ /\ seen[t] = ACKBuffer
              /\ ACKBuffer' = Append(ACKBuffer, p)
              /\ raced' = raced
           \/ /\ seen[t] # ACKBuffer
              /\ ACKBuffer' \in RacedPush(seen[t], ACKBuffer, p)
              /\ raced' = TRUE
    /\ Continue(t, Tail(todo[t]))
    /\ seen' = [seen EXCEPT ![t] = <<>>]
    /\ UNCHANGED <<iError, started, wire, threw, crashed, ackVars>>

(* A push_back that reallocates frees the array under a listener that is
   iterating over it or pushing too. *)
RaceCrash ==
    /\ pc["app"] = "store"
    /\ pc["listener"] \in {"sweep", "store"}
    /\ raced' = TRUE
    /\ crashed' = TRUE
    /\ UNCHANGED <<pc, ACKBuffer, sendVars, ackVars>>

-----------------------------------------------------------------------------
(***************************************************************************)
(* ListenerFunction.                                                       *)
(***************************************************************************)

BeginSweep(n) ==
    /\ pc["listener"] = "rest"
    /\ pc' = [pc EXCEPT !["listener"] = "sweep"]
    /\ sweep' = [num |-> n, i |-> 1, taken |-> 0]
    /\ UNCHANGED <<ACKBuffer, delivered, answered, received, raced, crashed, sendVars>>

(* An endpoint's ACK arrives.  It carries the packet number only; the
   listener does not look at who sent it.  UDP may deliver it late, again or
   never. *)
ReceiveAck == \E r \in received : BeginSweep(Num[r[1]])

(* recvfrom failed, or delivered a datagram that is no ezMP packet: recvPacket
   returns Packet(), whose type UNSPECIFIED_PACKET is ACK_RESPONSE's value and
   whose number is 0. *)
ReceiveUnspecified == BeginSweep(0)

(* Mutant: the packet number is not compared. *)
SweepStepAnyNumber ==
    /\ pc["listener"] = "sweep"
    /\ sweep.i <= Len(ACKBuffer)
    /\ sweep' = [sweep EXCEPT !.i = @ + 1, !.taken = @ + 1]
    /\ delivered' = delivered \cup {ACKBuffer[sweep.i]}
    /\ ACKBuffer' = RemoveAt(ACKBuffer, sweep.i)
    /\ UNCHANGED <<pc, answered, received, raced, crashed, sendVars>>

(* Mutant: the entry is marked after the erase, when its place is taken. *)
SweepStepErasesFirst ==
    /\ pc["listener"] = "sweep"
    /\ sweep.i <= Len(ACKBuffer)
    /\ IF Num[ACKBuffer[sweep.i]] = sweep.num
       THEN /\ sweep' = [sweep EXCEPT !.i = @ + 1, !.taken = @ + 1]
            /\ ACKBuffer' = RemoveAt(ACKBuffer, sweep.i)
            /\ delivered' = delivered \cup {ACKBuffer'[k] : k \in {sweep.i} \cap DOMAIN ACKBuffer'}
       ELSE /\ sweep' = [sweep EXCEPT !.i = @ + 1]
            /\ UNCHANGED <<delivered, ACKBuffer>>
    /\ UNCHANGED <<pc, answered, received, raced, crashed, sendVars>>

(* Mutant: the entry before the loop index is erased instead of the one at it. *)
SweepStepErasesBefore ==
    /\ pc["listener"] = "sweep"
    /\ sweep.i <= Len(ACKBuffer)
    /\ IF Num[ACKBuffer[sweep.i]] = sweep.num
       THEN /\ sweep' = [sweep EXCEPT !.i = @ + 1, !.taken = @ + 1]
            /\ delivered' = delivered \cup {ACKBuffer[sweep.i]}
            /\ ACKBuffer' = IF sweep.i > 1 THEN RemoveAt(ACKBuffer, sweep.i - 1) ELSE ACKBuffer
       ELSE /\ sweep' = [sweep EXCEPT !.i = @ + 1]
            /\ UNCHANGED <<delivered, ACKBuffer>>
    /\ UNCHANGED <<pc, answered, received, raced, crashed, sendVars>>

(* One iteration of the loop over ACKBuffer: i++ also follows an erase. *)
SweepStep ==
    /\ pc["listener"] = "sweep"
    /\ sweep.i <= Len(ACKBuffer)
    /\ IF Num[ACKBuffer[sweep.i]] = sweep.num
       THEN /\ sweep' = [sweep EXCEPT !.i = @ + 1, !.taken = @ + 1]
            /\ delivered' = delivered \cup {ACKBuffer[sweep.i]}
            /\ ACKBuffer' = RemoveAt(ACKBuffer, sweep.i)
       ELSE /\ sweep' = [sweep EXCEPT !.i = @ + 1]
            /\ UNCHANGED <<delivered, ACKBuffer>>
    /\ UNCHANGED <<pc, answered, received, raced, crashed, sendVars>>

(* Mutant: the loop stops before the last entry. *)
SweepEndEarly ==
    /\ pc["listener"] = "sweep"
    /\ sweep.i >= Len(ACKBuffer)
    /\ pc' = [pc EXCEPT !["listener"] = "rest"]
    /\ answered' = answered \cup {sweep.num}
    /\ sweep' = [num |-> 0, i |-> 1, taken |-> 0]
    /\ UNCHANGED <<ACKBuffer, delivered, received, raced, crashed, sendVars>>

SweepEnd ==
    /\ pc["listener"] = "sweep"
    /\ sweep.i > Len(ACKBuffer)
    /\ pc' = [pc EXCEPT !["listener"] = "rest"]
    /\ answered' = answered \cup {sweep.num}
    /\ sweep' = [num |-> 0, i |-> 1, taken |-> 0]
    /\ UNCHANGED <<ACKBuffer, delivered, received, raced, crashed, sendVars>>

Reply(sends, new) ==
    /\ pc["listener"] = "rest"
    /\ started' = started \cup new
    /\ Continue("listener", sends)
    /\ UNCHANGED <<seen, iError, ACKBuffer, wire, threw, raced, crashed, ackVars>>

(* A packet of endpoint e arrives and, when it is an awaitACK packet, is
   acknowledged; the receive callback may then call sendPacket itself. *)
ReceiveData(e) ==
    \E ack \in {<< >>, << <<AckReply, e>> >>} :
        \/ Reply(ack, {})
        \/ \E p \in Packets \ (FollowUps \cup started) : Reply(ack \o SendsOf(p), {p})

(* So does a HANDSHAKE_PACKET with number 0; the listener acknowledges it and
   then sends the follow-up, itself an awaitACK packet. *)
ReceiveHandshake(e) ==
    \E f \in FollowUps \ started : Reply(<< <<AckReply, e>>, <<f, e>> >>, {f})

-----------------------------------------------------------------------------
(* The listener of endpoint e receives p and replies with an ACK. *)
PeerReceive(p, e) ==
    /\ <<p, e>> \in wire \ received
    /\ received' = received \cup {<<p, e>>}
    /\ UNCHANGED <<pc, sweep, ACKBuffer, delivered, answered, raced, crashed, sendVars>>

Send(t) ==
    SendTo(t) \/ CheckThrows(t) \/ CheckPasses(t) \/ PushBegin(t) \/ PushEnd(t)

Sweep == SweepStep \/ SweepEnd

Receive ==
    \/ ReceiveAck
    \/ ReceiveUnspecified
    \/ \E e \in Endpoints : ReceiveData(e) \/ ReceiveHandshake(e)

Terminated == crashed /\ UNCHANGED vars

Next ==
    \/ /\ ~crashed
       /\ \/ \E p \in Packets : Call(p)
          \/ \E t \in Threads : Send(t)
          \/ RaceCrash
          \/ Receive
          \/ Sweep
          \/ \E p \in Packets, e \in Endpoints : PeerReceive(p, e)
    \/ Terminated

Spec == Init /\ [][Next]_vars

(* Both threads are scheduled: a thread inside the library keeps running. *)
FairSpec ==
    /\ Spec
    /\ \A t \in Threads : WF_vars(~crashed /\ Send(t))
    /\ WF_vars(~crashed /\ Sweep)

-----------------------------------------------------------------------------
(* The send of s is under way in thread t: past sendto, not yet returned. *)
InProgress(t, s) ==
    todo[t] # <<>> /\ Head(todo[t]) = s /\ pc[t] \in {"check", "grow", "store"}

Buffered(p) == \E k \in DOMAIN ACKBuffer : ACKBuffer[k] = p

Kept(p, e) ==
    \/ p \in delivered
    \/ Buffered(p)
    \/ <<p, e>> \in threw
    \/ \E t \in Threads : InProgress(t, <<p, e>>)
    \/ raced

(* p shares its number with no other packet, and with no failed receive.  The
   numbers are the application's choice; the library's own are 0 (HolePunch and
   startHandshake) and 1 (each follow-up). *)
OwnNumber(p) ==
    /\ Num[p] # 0
    /\ \A q \in Packets : Num[q] = Num[p] => q = p

(* The number a sweep looks for is that of a received packet, or 0. *)
SweepJustified ==
    pc["listener"] = "sweep" =>
        sweep.num = 0 \/ \E r \in received : Num[r[1]] = sweep.num

(* A packet is only marked delivered when some endpoint received a packet of
   the same number, or that number is 0, the number of the packet a failed
   receive stands for.  (ListenerFunction matches ACKs by number alone.) *)
DeliveredNumberWasReceived ==
    \A p \in delivered :
        Num[p] = 0 \/ \E r \in received : Num[r[1]] = Num[p]

(* No awaitACK packet that went out is forgotten: it is in ACKBuffer until it
   is marked delivered, unless sendPacket threw after the send or two threads
   changed ACKBuffer at once. *)
NothingForgotten ==
    \A p \in Packets, e \in Endpoints : <<p, e>> \in wire => Kept(p, e)

(* The entries the sweep is past, or will not get to, with the ACK's number. *)
LeftBehind ==
    {k \in 1 .. sweep.i - 1 : k <= Len(ACKBuffer) => Num[ACKBuffer[k]] = sweep.num}

(* i++ after an erase steps over the entry that moved up, and over one pushed
   into that place meanwhile: of several neighbours with the ACK's number every
   second one stays.  But an ACK never leaves more of them behind than it takes
   out, so as many ACKs of a number as entries empty the buffer of it. *)
SweepTakesHalf ==
    pc["listener"] = "sweep" /\ ~raced => Cardinality(LeftBehind) <= sweep.taken

(* A packet with a number of its own is only marked delivered when an endpoint
   received it: the removal is of "the packet ... that we got a reply to". *)
DeliveredWasReceived ==
    \A p \in delivered : OwnNumber(p) => \E e \in Endpoints : <<p, e>> \in received

(* A send that goes on to ACKBuffer was one that succeeded: iError is "a result
   code to see if it failed" of the sendto before it, not of another thread's. *)
FailedSendThrows ==
    \A t \in Threads : pc[t] \in {"grow", "store"} => Head(todo[t]) \in wire

(* Once the ACK of a packet has been dealt with, the packet is out of
   ACKBuffer. *)
AnsweredLeavesBuffer ==
    ~raced => \A k \in DOMAIN ACKBuffer : Num[ACKBuffer[k]] \notin answered

Owned == {p \in Packets : OwnNumber(p)}

(* What the buffer does for the application's packets with a number of their
   own, whatever the data races and the packets of other numbers do to it. *)
Promise == INSTANCE DeliveryPromise WITH
    Packets <- Owned,
    sent <- {p \in Owned : \E e \in Endpoints : <<p, e>> \in wire},
    reached <- {p \in Owned : \E e \in Endpoints : <<p, e>> \in received},
    confirmed <- delivered \cap Owned

KeepsPromise == Promise!Spec

(* An ACK's sweep reaches and marks the packet of its number that is ahead of
   the loop index, if no data race interferes. *)
SweepDelivers ==
    \A p \in Owned :
        (/\ pc["listener"] = "sweep"
         /\ sweep.num = Num[p]
         /\ \E k \in DOMAIN ACKBuffer : k >= sweep.i /\ ACKBuffer[k] = p)
        ~> (p \in delivered \/ raced)

(* Every call of sendPacket or multicastPacket returns or throws, unless the
   process is terminated. *)
CallReturns == \A t \in Threads : (pc[t] = "sendto") ~> (pc[t] = "rest" \/ crashed)
=============================================================================
