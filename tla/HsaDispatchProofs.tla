-------------------------- MODULE HsaDispatchProofs --------------------------
(***************************************************************************)
(* Theorems about HsaDispatch, for every size of the grid and of the queue  *)
(* and every BRIG module.                                                   *)
(*                                                                         *)
(* The inductive invariant follows the one packet: not submitted, in its    *)
(* slot, running, complete.  It ties each stage to what the host does, to   *)
(* the completion signal and to the work-items that have run.               *)
(***************************************************************************)
EXTENDS HsaDispatch, TLAPS

Submitting == {"setup", "write", "publish", "ring"}
Dispatching == {"write", "publish", "ring", "wait", "load", "validate"}

Queued ==
  /\ readIndex = 0 /\ slots[0]
  /\ gpu = "idle" /\ todo = WorkItems /\ signal = 1

Running  == readIndex = 1 /\ gpu = "running" /\ signal = 1
Complete == readIndex = 1 /\ gpu = "idle" /\ todo = {} /\ signal = 0

(* The stage of the packet, for each stage of the host. *)
PacketStage ==
  /\ host \in Submitting =>
       /\ readIndex = 0 /\ doorbell = 0
       /\ gpu = "idle" /\ todo = WorkItems /\ signal = 1
  /\ host \in {"setup", "write", "publish"} => writeIndex = 0
  /\ host \in {"publish", "ring"} => slots[0]
  /\ host = "ring" => writeIndex = 1
  /\ host = "wait" => doorbell = 1 /\ (Queued \/ Running \/ Complete)
  /\ host \in Waited => doorbell = 1 /\ Complete

(* The signal of the test is incremented by the first work-item only. *)
FirstAdds == 0 \in todo => testSignal = 255

(* Where the host is in the lists Setup and Cleanup. *)
Progress ==
  /\ host \in Dispatching => next = 1
  /\ host = "cleanup" => next <= Len(Cleanup)

Invariant == TypeOK /\ PacketStage /\ FirstAdds /\ Progress /\ NoPacketLost

LEMMA Lengths ==
  /\ Len(Setup) = 18 /\ DOMAIN Setup = 1 .. 18
  /\ Len(Cleanup) = 4
BY DEF Setup, Cleanup

LEMMA SetupInRange == ASSUME NEW k \in 1 .. 18 PROVE Setup[k] \in Range(Setup)
BY Lengths DEF Range

LEMMA SlotZero == 0 % QueueSize = 0 /\ 0 \in 0 .. QueueSize - 1
BY DispatchAssumption

LEMMA InitInvariant == Init => Invariant
<1> SUFFICES ASSUME Init PROVE Invariant
  OBVIOUS
<1>1. TypeOK
  BY Lengths, DispatchAssumption
  DEF Init, TypeOK, SignalValue, Buffers, WorkItems, Waited
<1>2. PacketStage /\ FirstAdds /\ Progress /\ NoPacketLost
  BY DEF Init, PacketStage, FirstAdds, Progress, NoPacketLost, Submitting, Dispatching, Waited, SignalValue
<1> QED
  BY <1>1, <1>2 DEF Invariant

LEMMA SetupCallMoves ==
  ASSUME TypeOK, SetupCall
  PROVE  /\ host' \in {"setup", "write", "exited"} /\ next' \in 1 .. Len(Setup)
         /\ host' = "write" => next' = 1
         /\ held' \subseteq Range(Setup)
<1>1. next \in 1 .. 18 /\ held \subseteq Range(Setup)
  BY Lengths DEF TypeOK
<1>2. \/ host' = "exited" /\ next' = next
      \/ next < 18 /\ next' = next + 1 /\ host' = "setup"
      \/ next' = 1 /\ host' = "write"
  BY Lengths DEF SetupCall, Goto, Exit
<1>3. next' \in 1 .. 18
  BY <1>1, <1>2
<1>4. Setup[next] \in Range(Setup)
  BY <1>1, SetupInRange
<1>5. held' \subseteq Range(Setup)
  BY <1>1, <1>4 DEF SetupCall
<1> QED
  BY <1>2, <1>3, <1>5, Lengths

LEMMA HostInvariant == Invariant /\ (Host \/ WaitReturnsEarly) => Invariant'
<1> SUFFICES ASSUME Invariant, Host \/ WaitReturnsEarly PROVE Invariant'
  OBVIOUS
<1> USE Lengths, SlotZero, DispatchAssumption
    DEF Invariant, TypeOK, PacketStage, FirstAdds, Progress, NoPacketLost, Queued, Running, Complete,
        Submitting, Dispatching, Waited, SignalValue, Goto, Exit, queue, device
<1>1. CASE SetupCall
  <2>1. TypeOK /\ host = "setup" /\ UNCHANGED <<brigModule, buffer, queue, device, signal, testSignal, verdict>>
    BY <1>1 DEF SetupCall
  <2>2. /\ host' \in {"setup", "write", "exited"} /\ next' \in 1 .. Len(Setup)
        /\ host' = "write" => next' = 1
        /\ held' \subseteq Range(Setup)
    BY <1>1, <2>1, SetupCallMoves
  <2>3. TypeOK'
    BY <2>1, <2>2
  <2>4. PacketStage'
    BY <2>1, <2>2
  <2>5. FirstAdds' /\ Progress' /\ NoPacketLost'
    BY <2>1, <2>2
  <2> QED
    BY <2>3, <2>4, <2>5
<1>2. CASE WritePacket
  BY <1>2 DEF WritePacket, Slot
<1>3. CASE StoreWriteIndex
  BY <1>3 DEF StoreWriteIndex
<1>4. CASE RingDoorbell
  BY <1>4 DEF RingDoorbell
<1>5. CASE WaitCompletes \/ WaitReturnsEarly
  BY <1>5 DEF WaitCompletes, WaitReturnsEarly, CheckWait, Success
<1>6. CASE LoadTestSignal
  BY <1>6 DEF LoadTestSignal
<1>7. CASE Validate
  BY <1>7 DEF Validate
<1>8. CASE CleanupCall
  BY <1>8, SMTT(40) DEF CleanupCall
<1>9. CASE FreeBuffers
  <2>1. host' = "returned" /\ held' \subseteq held
    BY <1>9 DEF FreeBuffers
  <2> QED
    BY <1>9, <2>1 DEF FreeBuffers
<1> QED
  BY <1>1, <1>2, <1>3, <1>4, <1>5, <1>6, <1>7, <1>8, <1>9 DEF Host

LEMMA DeviceInvariant == Invariant /\ Device => Invariant'
<1> SUFFICES ASSUME Invariant, Device PROVE Invariant'
  OBVIOUS
<1> USE SlotZero, DispatchAssumption
    DEF Invariant, TypeOK, PacketStage, FirstAdds, Progress, NoPacketLost, Queued, Running, Complete,
        Submitting, Dispatching, Waited, SignalValue, queue, device
<1>1. CASE TakePacket
  BY <1>1 DEF TakePacket
<1>2. ASSUME NEW id \in WorkItems, RunWorkItem(id) PROVE Invariant'
  <2>1. buffer' \in [Buffers -> [WorkItems -> {0, 1}]]
    BY <1>2 DEF RunWorkItem, KernelArguments, Buffers
  <2>2. testSignal' \in {255, 256} /\ FirstAdds'
    BY <1>2 DEF RunWorkItem
  <2> QED
    BY <1>2, <2>1, <2>2 DEF RunWorkItem
<1>3. CASE CompletePacket
  BY <1>3 DEF CompletePacket
<1> QED
  BY <1>1, <1>2, <1>3 DEF Device

LEMMA StepInvariant == Invariant /\ [Next]_vars => Invariant'
<1>1. CASE UNCHANGED vars
  BY <1>1 DEF vars, queue, device, Invariant, TypeOK, PacketStage, FirstAdds, Progress, NoPacketLost,
              Queued, Running, Complete
<1> QED
  BY <1>1, HostInvariant, DeviceInvariant DEF Next

LEMMA InvariantHolds == Spec => []Invariant
BY InitInvariant, StepInvariant, PTL DEF Spec

(* Every variable keeps its type, whichever call fails and whenever the     *)
(* wait returns.                                                           *)
THEOREM TypeCorrectness == Spec => []TypeOK
<1>1. Invariant => TypeOK
  BY DEF Invariant
<1> QED
  BY <1>1, InvariantHolds, PTL

(* The host reads test_signal and the buffers (vector_copy.c:380-397), and  *)
(* cleans up, only after the last work-item, however many there are.        *)
THEOREM ReadsAfterKernelHolds == Spec => []ReadsAfterKernel
<1>1. Invariant => ReadsAfterKernel
  BY DEF Invariant, PacketStage, Complete, ReadsAfterKernel
<1> QED
  BY <1>1, InvariantHolds, PTL

(* The packet is in the slot that the packet processor looks at, for every *)
(* size of the queue.                                                      *)
THEOREM NoPacketLostHolds == Spec => []NoPacketLost
<1>1. Invariant => NoPacketLost
  BY DEF Invariant
<1> QED
  BY <1>1, InvariantHolds, PTL
------------------------------------------------------------------------------
(* What the host holds while it dispatches. *)

Needed ==
  {"runtime", "queue", "program", "signal", "test signal", "kernel arguments"} \cup Buffers

(* What the calls of Setup have given is held until Cleanup. *)
Held ==
  /\ host = "setup" => \A k \in 1 .. next - 1 : Setup[k] \in held
  /\ host \in Dispatching => Needed \subseteq held

LEMMA SetupSuffices ==
  ASSUME NEW S, \A k \in 1 .. 18 : Setup[k] \in S
  PROVE  Needed \subseteq S
<1>1. /\ Setup[1] = "runtime" /\ Setup[6] = "queue" /\ Setup[8] = "program"
      /\ Setup[13] = "signal" /\ Setup[14] = "in" /\ Setup[15] = "out"
      /\ Setup[17] = "kernel arguments" /\ Setup[18] = "test signal"
  BY DEF Setup
<1>2. /\ Setup[1] \in S /\ Setup[6] \in S /\ Setup[8] \in S
      /\ Setup[13] \in S /\ Setup[14] \in S /\ Setup[15] \in S
      /\ Setup[17] \in S /\ Setup[18] \in S
  OBVIOUS
<1> QED
  BY <1>1, <1>2, Zenon DEF Needed, Buffers

LEMMA StepHeld == Invariant /\ Held /\ [Next]_vars => Held'
<1> SUFFICES ASSUME Invariant, Held, [Next]_vars PROVE Held'
  OBVIOUS
<1> USE DEF Held, Dispatching, Goto, Exit, vars, queue, device
<1>1. CASE SetupCall
  <2>1. host = "setup" /\ next \in 1 .. 18
    BY <1>1, Lengths DEF SetupCall, Invariant, TypeOK
  <2>2. CASE host' = "setup"
    <3>1. next' = next + 1 /\ held' = held \cup {Setup[next]}
      BY <1>1, <2>1, <2>2 DEF SetupCall
    <3> QED
      BY <2>1, <2>2, <3>1
  <2>3. CASE host' = "write"
    <3>1. next = 18 /\ held' = held \cup {Setup[next]}
      BY <1>1, <2>1, <2>3, Lengths DEF SetupCall
    <3>2. \A k \in 1 .. 18 : Setup[k] \in held'
      BY <2>1, <3>1
    <3> QED
      BY <2>3, <3>2, SetupSuffices
  <2> QED
    BY <1>1, <2>1, <2>2, <2>3 DEF SetupCall
<1>2. CASE WritePacket \/ StoreWriteIndex \/ RingDoorbell \/ LoadTestSignal \/ Validate
  BY <1>2 DEF WritePacket, StoreWriteIndex, RingDoorbell, LoadTestSignal, Validate
<1>3. CASE WaitCompletes \/ WaitReturnsEarly
  BY <1>3 DEF WaitCompletes, WaitReturnsEarly, CheckWait
<1>4. CASE CleanupCall \/ FreeBuffers
  BY <1>4 DEF CleanupCall, FreeBuffers
<1>5. CASE Device
  BY <1>5 DEF Device, TakePacket, RunWorkItem, CompletePacket
<1>6. CASE UNCHANGED vars
  BY <1>6
<1> QED
  BY <1>1, <1>2, <1>3, <1>4, <1>5, <1>6 DEF Next, Host

(* While the kernel runs, its queue, its program, its arguments, both       *)
(* signals and both buffers are held by the host.                          *)
THEOREM RunsOnHeldHolds == Spec => []RunsOnHeld
<1>1. Init => Held
  BY DEF Init, Held, Dispatching
<1>2. Invariant /\ Held => RunsOnHeld
  <2> SUFFICES ASSUME Invariant, Held, gpu = "running", host # "exited"
               PROVE  Needed \subseteq held
    BY DEF RunsOnHeld, Needed
  <2>1. host = "wait"
    BY DEF Invariant, TypeOK, PacketStage, Complete, Submitting, Waited
  <2> QED
    BY <2>1 DEF Held, Dispatching
<1> QED
  BY <1>1, <1>2, InvariantHolds, StepHeld, PTL DEF Spec
------------------------------------------------------------------------------
(* What the comparison says. *)

(* What the work-items of vector_copy that have run leave behind. *)
Copied ==
  IsVectorCopy =>
    /\ \A id \in WorkItems \ todo : buffer.in[id] = buffer.out[id]
    /\ 0 \in todo \/ testSignal = 256

NotCompared ==
  host \in Submitting \cup {"wait", "load", "validate"} => verdict = "none"

Comparison == Copied /\ NotCompared /\ ComparisonSpeaksForAll

LEMMA SameKernel == ASSUME brigModule' = brigModule PROVE IsVectorCopy' <=> IsVectorCopy
BY DEF IsVectorCopy

LEMMA AllCopied ==
  ASSUME TypeOK, Copied, IsVectorCopy, todo = {}
  PROVE  /\ buffer.out = buffer.in
         /\ \A id \in Compared : buffer.out[id] = buffer.in[id]
         /\ testSignal = 256
<1>1. buffer.in \in [WorkItems -> {0, 1}] /\ buffer.out \in [WorkItems -> {0, 1}]
  BY DEF TypeOK, Buffers
<1>2. \A id \in WorkItems : buffer.in[id] = buffer.out[id]
  BY DEF Copied
<1>3. buffer.out = buffer.in
  BY <1>1, <1>2
<1> QED
  BY <1>3 DEF Copied

LEMMA StepComparison == Invariant /\ Comparison /\ [Next]_vars => Comparison'
<1> SUFFICES ASSUME Invariant, Comparison, [Next]_vars PROVE Comparison'
  OBVIOUS
<1> USE DEF Comparison, NotCompared, Goto, Exit, vars, queue, device
<1>1. ASSUME UNCHANGED <<brigModule, buffer, todo, testSignal, verdict>>,
             host' \in Submitting \cup {"wait", "load", "validate"} =>
               host \in Submitting \cup {"wait", "load", "validate"}
      PROVE  Comparison'
  BY <1>1, SameKernel DEF Copied, ComparisonSpeaksForAll
<1>2. CASE SetupCall
  BY <1>1, <1>2 DEF SetupCall, Submitting
<1>3. CASE WritePacket \/ StoreWriteIndex \/ RingDoorbell \/ LoadTestSignal
  BY <1>1, <1>3 DEF WritePacket, StoreWriteIndex, RingDoorbell, LoadTestSignal, Submitting
<1>4. CASE WaitCompletes \/ WaitReturnsEarly
  BY <1>1, <1>4 DEF WaitCompletes, WaitReturnsEarly, CheckWait, Submitting
<1>5. CASE Validate
  <2>1. TypeOK /\ todo = {}
    BY <1>5 DEF Validate, Invariant, PacketStage, Waited, Complete
  <2>2. UNCHANGED <<brigModule, buffer, todo, testSignal>> /\ host' = "cleanup"
    BY <1>5 DEF Validate
  <2>3. Copied' /\ NotCompared'
    BY <2>2, SameKernel DEF Copied, Submitting
  <2>4. IsVectorCopy => verdict' = "passed" /\ buffer.out = buffer.in /\ testSignal = 256
    BY <1>5, <2>1, AllCopied DEF Validate
  <2> QED
    BY <2>2, <2>3, <2>4, SameKernel DEF ComparisonSpeaksForAll
<1>6. CASE CleanupCall \/ FreeBuffers
  BY <1>1, <1>6 DEF CleanupCall, FreeBuffers, Submitting
<1>7. CASE TakePacket \/ CompletePacket
  BY <1>1, <1>7 DEF TakePacket, CompletePacket
<1>8. ASSUME NEW id \in WorkItems, RunWorkItem(id) PROVE Comparison'
  <2>1. /\ UNCHANGED <<brigModule, host, verdict>> /\ verdict = "none"
        /\ todo' = todo \ {id}
    BY <1>8 DEF RunWorkItem, Invariant, TypeOK, PacketStage, Complete, Waited, Submitting
  <2>2. Copied'
    <3> SUFFICES ASSUME IsVectorCopy PROVE Copied'
      BY <2>1, SameKernel DEF Copied
    <3>1. buffer \in [Buffers -> [WorkItems -> {0, 1}]]
      BY DEF Invariant, TypeOK
    <3>2. buffer' = [buffer EXCEPT !["in"][id] = buffer["out"][id]]
      BY <1>8 DEF RunWorkItem, KernelArguments
    <3>3. testSignal' = IF id = 0 THEN testSignal + 1 ELSE testSignal
      BY <1>8 DEF RunWorkItem
    <3>4. \A i \in WorkItems \ todo' : buffer'.in[i] = buffer'.out[i]
      BY <2>1, <3>1, <3>2 DEF Copied, Buffers
    <3>5. 0 \in todo' \/ testSignal' = 256
      BY <1>8, <2>1, <3>3 DEF RunWorkItem, Copied, Invariant, FirstAdds
    <3> QED
      BY <3>4, <3>5 DEF Copied
  <2> QED
    BY <2>1, <2>2 DEF ComparisonSpeaksForAll
<1>9. CASE UNCHANGED vars
  BY <1>1, <1>9
<1> QED
  BY <1>2, <1>3, <1>4, <1>5, <1>6, <1>7, <1>8, <1>9 DEF Next, Host, Device

(* The comparison of a quarter of the buffers (vector_copy.c:389) speaks    *)
(* for the whole of them, whatever their size: it passes, the buffers are   *)
(* equal, and the kernel has added to test_signal exactly once.             *)
THEOREM ComparisonSpeaksForAllHolds == Spec => []ComparisonSpeaksForAll
<1>1. Init => Comparison
  BY DispatchAssumption DEF Init, Comparison, Copied, NotCompared, ComparisonSpeaksForAll, WorkItems
<1>2. Comparison => ComparisonSpeaksForAll
  BY DEF Comparison
<1> QED
  BY <1>1, <1>2, InvariantHolds, StepComparison, PTL DEF Spec
==============================================================================
