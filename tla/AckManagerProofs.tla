--------------------------- MODULE AckManagerProofs ---------------------------
(***************************************************************************)
(* Proofs about AckManager, for any packets, numbers and timers: the       *)
(* ACKManager thread changes nothing the other threads see, so that the    *)
(* three threads together implement AckBuffer, and what is proved there    *)
(* holds of them.                                                          *)
(***************************************************************************)
EXTENDS AckManager, AckBufferProofs

(* The loop index starts at the first entry, past ACKBufferLength: no step is
   an iteration. *)
LEMMA NoIteration ==
    ASSUME ManagerTypeOK, Iteration PROVE FALSE
BY DEF ManagerTypeOK, Iteration, ACKBufferLength

LEMMA ManagerTypeStep == ManagerTypeOK /\ [ManagedNext]_managedVars => ManagerTypeOK'
<1> SUFFICES ASSUME ManagerTypeOK, [ManagedNext]_managedVars PROVE ManagerTypeOK'
  OBVIOUS
<1>1. ASSUME UNCHANGED <<timeSent, manager, now>> PROVE ManagerTypeOK'
  BY <1>1 DEF ManagerTypeOK
<1>2. ASSUME NEW t \in Threads, ManagedSend(t) PROVE ManagerTypeOK'
  <2>1. CASE StampedCheckPasses(t)
    BY <2>1 DEF StampedCheckPasses, ManagerTypeOK
  <2>2. CASE TargetedSendTo(t) \/ UNCHANGED managerVars
    BY <1>1, <2>2 DEF TargetedSendTo, managerVars
  <2> QED BY <1>2, <2>1, <2>2 DEF ManagedSend
<1>3. CASE ManagedSweep \/ Environment \/ UNCHANGED managerVars
  BY <1>1, <1>3 DEF ManagedSweep, Environment, managerVars
<1>4. CASE Tick
  BY <1>4 DEF Tick, ManagerTypeOK
<1>5. CASE ReadClock
  BY <1>5 DEF ReadClock, ManagerTypeOK
<1>6. CASE LoopEnd
  BY <1>6 DEF LoopEnd, ManagerTypeOK
<1>7. CASE UNCHANGED managedVars
  BY <1>1, <1>7 DEF managedVars, managerVars
<1> QED
  BY <1>2, <1>3, <1>4, <1>5, <1>6, <1>7, NoIteration DEF ManagedNext, Manage

(* A step of the three threads is one of AckBuffer's, or leaves its variables
   as they are. *)
LEMMA ManagedStep ==
    ASSUME ManagerTypeOK, [ManagedNext]_managedVars PROVE [Next]_vars
<1>1. ASSUME ~crashed, NEW t \in Threads, ManagedSend(t) PROVE Next
  BY <1>1 DEF ManagedSend, TargetedSendTo, StampedCheckPasses, Send, Next
<1>2. ASSUME ~crashed, ManagedSweep \/ Environment PROVE Next
  BY <1>2 DEF ManagedSweep, Environment, Next
<1>3. CASE Tick \/ ReadClock \/ LoopEnd
  BY <1>3 DEF Tick, ReadClock, LoopEnd
<1>4. CASE Terminated
  BY <1>4 DEF Next
<1>5. CASE UNCHANGED managedVars
  BY <1>5 DEF managedVars
<1> QED BY <1>1, <1>2, <1>3, <1>4, <1>5, NoIteration DEF ManagedNext, Manage

LEMMA ManagerTypeInvariant == ManagedSpec => []ManagerTypeOK
<1>1. ManagedInit => ManagerTypeOK
  BY DEF ManagedInit, ManagerTypeOK
<1> QED BY <1>1, ManagerTypeStep, PTL DEF ManagedSpec

(* The three threads together do what AckBuffer's two do: the loop of
   ACKManager, which counts up to ACKBufferLength, sends nothing again, erases
   nothing and ends nothing, whatever its timers are. *)
THEOREM ManagerChangesNothing == ManagedSpec => Spec
<1>1. ManagedInit => Init
  BY DEF ManagedInit
<1>2. ManagerTypeOK /\ [ManagedNext]_managedVars => [Next]_vars
  BY ManagedStep
<1> QED BY <1>1, <1>2, ManagerTypeInvariant, PTL DEF ManagedSpec, Spec

(* With the third thread running, too, no awaitACK packet that went out is
   forgotten: ACKManager takes none out of ACKBuffer. *)
THEOREM StillNothingForgotten == ManagedSpec => []NothingForgotten
BY ManagerChangesNothing, NothingIsForgotten, PTL
=============================================================================
