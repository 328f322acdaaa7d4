------------------------------ MODULE AckManager ------------------------------
(***************************************************************************)
(* Time and the ACKManager thread beside the two threads of AckBuffer:     *)
(* what happens to a packet in ACKBuffer that is not acknowledged.         *)
(*                                                                         *)
(* The loop counts up to the member ACKBufferLength, which its initialiser *)
(* sets and nothing assigns.  An iteration is one step, sendto's result    *)
(* and the exception included: AckManagerProofs shows that there is none,  *)
(* so that AckBuffer may leave the thread out.                             *)
(***************************************************************************)
EXTENDS AckBuffer

CONSTANTS
    ACKRetryCooldown,
    ACKTimeoutTime,
    Wrap,              \* 2^64: the arithmetic of uint64_t wraps here
    MaxTime            \* bound on the clock

VARIABLES
    timeSent,  \* Packet::timeSent
    source,    \* Packet::source, which sendPacket sets to its target
    now,       \* system_clock, in milliseconds
    manager    \* where ACKManager is, its local clock reading and loop index

managerVars == <<timeSent, source, now, manager>>
managedVars == <<vars, managerVars>>

(* int ACKBufferLength = 0; *)
ACKBufferLength == 0

ManagedInit ==
    /\ Init
    /\ timeSent = [p \in Packets |-> 0]
    /\ source = [p \in {} |-> p]
    /\ now = 0
    /\ manager = [at |-> "rest", time |-> 0, i |-> 1]

-----------------------------------------------------------------------------
(* sendPacket writes the target into the packet, and, when the send passed its
   test, the time. *)
TargetedSendTo(t) ==
    /\ SendTo(t)
    /\ source' = (Head(todo[t])[1] :> Head(todo[t])[2]) @@ source
    /\ UNCHANGED <<timeSent, now, manager>>

StampedCheckPasses(t) ==
    /\ CheckPasses(t)
    /\ timeSent' = [p \in Packets |-> IF p = Head(todo[t])[1] THEN now ELSE timeSent[p]]
    /\ UNCHANGED <<source, now, manager>>

ManagedSend(t) ==
    \/ TargetedSendTo(t)
    \/ StampedCheckPasses(t)
    \/ (CheckThrows(t) \/ PushBegin(t) \/ PushEnd(t)) /\ UNCHANGED managerVars

ManagedSweep == Sweep /\ UNCHANGED managerVars

(* The calls and datagrams the threads wait for, and the data race. *)
Environment ==
    /\ \/ \E p \in Packets : Call(p)
       \/ Receive
       \/ RaceCrash
       \/ \E p \in Packets, e \in Endpoints : PeerReceive(p, e)
    /\ UNCHANGED managerVars

Tick ==
    /\ now < MaxTime
    /\ now' = now + 1
    /\ UNCHANGED <<vars, timeSent, source, manager>>

ReadClock ==
    /\ manager.at = "rest"
    /\ manager' = [at |-> "loop", time |-> now, i |-> 1]
    /\ UNCHANGED <<vars, timeSent, source, now>>

(* time - timeSent, both uint64_t. *)
Elapsed(sent) == (manager.time - sent) % Wrap

(* The packet is sent again when its cooldown is over; a send that fails throws
   in a thread whose function nothing encloses. *)
Retry(p) ==
    IF Elapsed(timeSent[p]) >= ACKRetryCooldown
    THEN \/ /\ iError' = "sent"
            /\ wire' = wire \cup {<<p, source[p]>>}
            /\ timeSent' = [timeSent EXCEPT ![p] = now]
            /\ crashed' = crashed
         \/ /\ iError' = "failed"
            /\ crashed' = TRUE
            /\ UNCHANGED <<wire, timeSent>>
    ELSE UNCHANGED <<iError, wire, timeSent, crashed>>

(* One iteration: send again what is due, then erase what has timed out by the
   timeSent it has after that.  Nothing keeps the index inside a buffer the
   listener shrinks. *)
Iteration ==
    /\ manager.at = "loop"
    /\ manager.i <= ACKBufferLength
    /\ manager' = [manager EXCEPT !.i = @ + 1]
    /\ IF manager.i \in DOMAIN ACKBuffer
       THEN LET p == ACKBuffer[manager.i]
            IN  /\ Retry(p)
                /\ ACKBuffer' = IF ~crashed' /\ Elapsed(timeSent'[p]) >= ACKTimeoutTime
                                THEN RemoveAt(ACKBuffer, manager.i)
                                ELSE ACKBuffer
       ELSE /\ crashed' = TRUE
            /\ UNCHANGED <<iError, wire, timeSent, ACKBuffer>>
    /\ UNCHANGED <<pc, todo, seen, started, threw, raced, ackVars, source, now>>

LoopEnd ==
    /\ manager.at = "loop"
    /\ manager.i > ACKBufferLength
    /\ manager' = [manager EXCEPT !.at = "rest"]
    /\ UNCHANGED <<vars, timeSent, source, now>>

Manage == ReadClock \/ Iteration \/ LoopEnd

ManagedNext ==
    \/ /\ ~crashed
       /\ \/ \E t \in Threads : ManagedSend(t)
          \/ ManagedSweep
          \/ Environment
          \/ Tick
          \/ Manage
    \/ Terminated /\ UNCHANGED managerVars

ManagedSpec == ManagedInit /\ [][ManagedNext]_managedVars

(* The three threads are scheduled and the clock goes on. *)
FairManagedSpec ==
    /\ ManagedSpec
    /\ \A t \in Threads : WF_managedVars(~crashed /\ ManagedSend(t))
    /\ WF_managedVars(~crashed /\ ManagedSweep)
    /\ WF_managedVars(~crashed /\ Manage)
    /\ WF_managedVars(~crashed /\ Tick)

-----------------------------------------------------------------------------
ManagerTypeOK ==
    /\ timeSent \in [Packets -> Nat]
    /\ now \in Nat
    /\ manager \in [at : {"rest", "loop"}, time : Nat, i : Nat \ {0}]

Overdue(p) == Buffered(p) /\ now - timeSent[p] > ACKTimeoutTime

(* A packet that is past its timeout is sent again or dropped: an awaitable
   packet is added "to the buffer to be checked and reset if timed out". *)
OverdueIsHandled == \A p \in Packets : Overdue(p) ~> (~Overdue(p) \/ crashed)
=============================================================================
