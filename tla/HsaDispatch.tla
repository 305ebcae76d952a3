----------------------------- MODULE HsaDispatch -----------------------------
(***************************************************************************)
(* hsa_signal/vector_copy.c: a host program that sets up an HSA queue,      *)
(* submits one dispatch packet, waits on its completion signal, compares    *)
(* two buffers and cleans up; with the packet processor of the GPU and the  *)
(* work-items of the kernel of hsa_signal/vector_copy.cl.                   *)
(*                                                                         *)
(* Every call of the runtime may fail, and check() then ends the process.   *)
(* The HSA runtime and the packet processor are not part of the repository: *)
(* they are modelled as the program uses them.  A wait may return before    *)
(* its condition holds; the program treats the value it returns as a        *)
(* status.                                                                  *)
(***************************************************************************)
EXTENDS Integers, Sequences, SequencesExt, FiniteSets

CONSTANTS
  N,           \* work-items of the grid, and ints of each buffer
  QueueSize,   \* packets of the queue
  BrigModules  \* the modules the BRIG file may hold, see FindSymbolOffset

ASSUME DispatchAssumption ==
  /\ N \in Nat \ {0}
  /\ QueueSize \in Nat \ {0}

VARIABLES
  brigModule,  \* the code entries of the BRIG file
  host,        \* what the host does next
  next,        \* the call of Setup or Cleanup that is next
  held,        \* the resources that the host holds
  buffer,      \* the buffers in and out
  slots,       \* for each slot of the queue: does it hold a packet?
  writeIndex, doorbell, readIndex,
  signal, testSignal,
  gpu,         \* the packet processor: idle, running, or lost (took no packet)
  todo,        \* the work-items of the grid that have not run
  verdict      \* of the comparison: none, passed or failed

queue  == <<slots, writeIndex, doorbell>>
device == <<readIndex, gpu, todo>>
vars   == <<brigModule, host, next, held, buffer, queue, device, signal, testSignal, verdict>>

WorkItems == 0 .. N - 1

(* A name is its first 8 characters and the rest of it. *)
KernelName == [prefix |-> "&__OpenC", rest |-> "L_vector_copy_kernel"]

(* The first kernel whose name agrees with symbol_name in its first        *)
(* sizeof(symbol_name) = 8 characters; 0 if there is none.                 *)
FindSymbolOffset(module, name) ==
  SelectInSeq(module, LAMBDA entry : entry.kind = "kernel" /\ entry.name.prefix = name.prefix)

(* What main obtains before the dispatch, one call of the runtime (or test *)
(* of its result) for each, in order.                                      *)
Setup ==
  << "runtime", "agents", "device", "device name", "queue size", "queue",
     "brig module", "program", "module", "symbol", "code", "code descriptor",
     "signal", "in", "out", "kernarg region", "kernel arguments", "test signal" >>

Buffers == {"in", "out"}

(* What main gives back after the comparison, one call for each.  The test *)
(* signal and the kernel arguments are not among it: the runtime is shut   *)
(* down while they are still held.                                         *)
Cleanup == <<"signal", "program", "queue", "runtime">>

(* Mutant of SignalValue: one more than the decrements to come. *)
MutantSignalValue == 2

SignalValue == 1

(* Buffers and signals have their first contents from the start: nobody    *)
(* looks at them before they are created.                                  *)
Init ==
  /\ brigModule \in BrigModules
  /\ host = "setup"
  /\ next = 1
  /\ held = {}
  /\ buffer = [in |-> [id \in WorkItems |-> 1], out |-> [id \in WorkItems |-> 0]]
  /\ slots = [k \in 0 .. QueueSize - 1 |-> FALSE]
  /\ writeIndex = 0 /\ doorbell = 0 /\ readIndex = 0
  /\ signal = SignalValue
  /\ testSignal = 255
  /\ gpu = "idle"
  /\ todo = WorkItems
  /\ verdict = "none"
------------------------------------------------------------------------------
(* The host.  Goto(there) goes on; Exit is the failing branch of check().  *)
Goto(there) == host' = there

Exit ==
  /\ host' = "exited"
  /\ UNCHANGED next

(* Whether the symbol is found is not up to the runtime. *)
MayFail(r)    == r = "symbol" => FindSymbolOffset(brigModule, KernelName) = 0
MaySucceed(r) == r = "symbol" => FindSymbolOffset(brigModule, KernelName) # 0

(* A buffer is allocated first, what may fail is hsa_memory_register. *)
SetupCall ==
  /\ host = "setup"
  /\ LET r == Setup[next] IN
     \/ /\ MaySucceed(r)
        /\ held' = held \cup {r}
        /\ IF next < Len(Setup) THEN next' = next + 1 /\ Goto("setup")
                                ELSE next' = 1 /\ Goto("write")
     \/ /\ MayFail(r)
        /\ held' = held \cup ({r} \cap Buffers)
        /\ Exit
  /\ UNCHANGED <<brigModule, buffer, queue, device, signal, testSignal, verdict>>

(* Mutant of Slot: the slot after the one the write index names. *)
MutantSlot(index) == (index + 1) % QueueSize

Slot(index) == index % QueueSize

WritePacket ==
  /\ host = "write"
  /\ slots' = [slots EXCEPT ![Slot(writeIndex)] = TRUE]
  /\ Goto("publish")
  /\ UNCHANGED <<brigModule, next, held, buffer, writeIndex, doorbell, device, signal, testSignal, verdict>>

StoreWriteIndex ==
  /\ host = "publish"
  /\ writeIndex' = writeIndex + 1
  /\ Goto("ring")
  /\ UNCHANGED <<brigModule, next, held, buffer, slots, doorbell, device, signal, testSignal, verdict>>

RingDoorbell ==
  /\ host = "ring"
  /\ doorbell' = writeIndex
  /\ Goto("wait")
  /\ UNCHANGED <<brigModule, next, held, buffer, slots, writeIndex, device, signal, testSignal, verdict>>

(* Mutant of Success: values below 2 are taken for success, as those of    *)
(* HSA_STATUS_SUCCESS and HSA_STATUS_INFO_BREAK.                            *)
MutantSuccess(value) == value < 2

Success(value) == value = 0

(* check() of the value that hsa_signal_wait_acquire returns. *)
CheckWait ==
  /\ IF Success(signal) THEN Goto("load") /\ UNCHANGED next ELSE Exit
  /\ UNCHANGED <<brigModule, held, buffer, queue, device, signal, testSignal, verdict>>

(* Mutant of WaitCompletes: there is no wait. *)
MutantDoNotWait ==
  /\ host = "wait"
  /\ Goto("load")
  /\ UNCHANGED <<brigModule, next, held, buffer, queue, device, signal, testSignal, verdict>>

(* The wait returns since its condition HSA_LT 1 holds, or before it does. *)
WaitCompletes   == host = "wait" /\ signal < 1 /\ CheckWait
WaitReturnsEarly == host = "wait" /\ signal >= 1 /\ CheckWait

(* The value of test_signal is only printed. *)
LoadTestSignal ==
  /\ host = "load"
  /\ Goto("validate")
  /\ UNCHANGED <<brigModule, next, held, buffer, queue, device, signal, testSignal, verdict>>

(* 1024*1024 of the 1024*1024*4 bytes, that is a quarter of the ints. *)
Compared == {id \in WorkItems : 4 * id < N}

Validate ==
  /\ host = "validate"
  /\ verdict' = IF \A id \in Compared : buffer.out[id] = buffer.in[id] THEN "passed" ELSE "failed"
  /\ Goto("cleanup")
  /\ UNCHANGED <<brigModule, next, held, buffer, queue, device, signal, testSignal>>

CleanupCall ==
  /\ host = "cleanup"
  /\ \/ /\ held' = held \ {Cleanup[next]}
        /\ next' = next + 1
        /\ IF next < Len(Cleanup) THEN Goto("cleanup") ELSE Goto("free")
     \/ held' = held /\ Exit
  /\ UNCHANGED <<brigModule, buffer, queue, device, signal, testSignal, verdict>>

FreeBuffers ==
  /\ host = "free"
  /\ held' = held \ Buffers
  /\ Goto("returned")
  /\ UNCHANGED <<brigModule, next, buffer, queue, device, signal, testSignal, verdict>>

Host ==
  \/ SetupCall
  \/ WritePacket \/ StoreWriteIndex \/ RingDoorbell
  \/ WaitCompletes \/ LoadTestSignal \/ Validate
  \/ CleanupCall \/ FreeBuffers
------------------------------------------------------------------------------
(* The device.  It stops when the process of the host ends. *)

(* The slot is the one the read index names: the packet processor masks it *)
(* like the host.                                                          *)
TakePacket ==
  /\ host # "exited"
  /\ gpu = "idle"
  /\ readIndex < doorbell
  /\ gpu' = IF slots[readIndex % QueueSize] THEN "running" ELSE "lost"
  /\ slots' = [slots EXCEPT ![readIndex % QueueSize] = FALSE]
  /\ readIndex' = readIndex + 1
  /\ UNCHANGED <<brigModule, host, next, held, buffer, writeIndex, doorbell, signal, testSignal, todo, verdict>>

(* Mutant of KernelArguments: the second pointer is the first again. *)
MutantKernelArguments == [a |-> "out", b |-> "out"]

(* The pointers copied to the kernel argument buffer, first out, then in, *)
(* as the parameters of vector_copy.                                      *)
KernelArguments == [a |-> "out", b |-> "in"]

(* Does the packet name the kernel vector_copy? Of any other nothing is known. *)
IsVectorCopy == brigModule[FindSymbolOffset(brigModule, KernelName)].name = KernelName

(* One work-item of vector_copy: b[id] = a[id], and the first adds to the signal. *)
RunWorkItem(id) ==
  /\ host # "exited"
  /\ gpu = "running"
  /\ id \in todo
  /\ todo' = todo \ {id}
  /\ IF IsVectorCopy
     THEN /\ buffer' = [buffer EXCEPT ![KernelArguments.b][id] = buffer[KernelArguments.a][id]]
          /\ testSignal' = IF id = 0 THEN testSignal + 1 ELSE testSignal
     ELSE UNCHANGED <<buffer, testSignal>>
  /\ UNCHANGED <<brigModule, host, next, held, queue, readIndex, gpu, signal, verdict>>

CompletePacket ==
  /\ host # "exited"
  /\ gpu = "running"
  /\ todo = {}
  /\ gpu' = "idle"
  /\ signal' = signal - 1
  /\ UNCHANGED <<brigModule, host, next, held, buffer, queue, readIndex, testSignal, todo, verdict>>

Device == TakePacket \/ (\E id \in WorkItems : RunWorkItem(id)) \/ CompletePacket

Next == Host \/ WaitReturnsEarly \/ Device

(* The process and the device make progress.  No wait need return early. *)
Spec == Init /\ [][Next]_vars /\ WF_vars(Host) /\ WF_vars(Device)
------------------------------------------------------------------------------
Waited  == {"load", "validate", "cleanup", "free", "returned"}

TypeOK ==
  /\ brigModule \in BrigModules
  /\ host \in {"setup", "write", "publish", "ring", "wait", "exited"} \cup Waited
  /\ next \in 1 .. Len(Setup)
  /\ held \subseteq Range(Setup)
  /\ buffer \in [Buffers -> [WorkItems -> {0, 1}]]
  /\ slots \in [0 .. QueueSize - 1 -> BOOLEAN]
  /\ writeIndex \in Nat /\ doorbell \in Nat /\ readIndex \in Nat
  /\ signal \in 0 .. SignalValue
  /\ testSignal \in {255, 256}
  /\ gpu \in {"idle", "running", "lost"}
  /\ todo \subseteq WorkItems
  /\ verdict \in {"none", "passed", "failed"}

(* The host reads test_signal, compares the buffers and releases anything  *)
(* only after every work-item has run and the packet is complete, whenever *)
(* its wait returns.                                                       *)
ReadsAfterKernel == host \in Waited => todo = {} /\ gpu = "idle" /\ signal = 0

(* What the kernel uses is not released while it runs. *)
RunsOnHeld ==
  gpu = "running" /\ host # "exited" =>
    {"runtime", "queue", "program", "signal", "test signal", "kernel arguments"} \cup Buffers
      \subseteq held

(* The packet processor, which runs while the host submits, never comes to *)
(* a slot without a packet.                                                *)
NoPacketLost == gpu # "lost"

(* With the kernel vector_copy, the comparison of a quarter of the buffers *)
(* speaks for all of them: it does not fail, the buffers agree everywhere,  *)
(* and the kernel has added to test_signal once.                           *)
ComparisonSpeaksForAll ==
  verdict # "none" /\ IsVectorCopy =>
    verdict = "passed" /\ buffer.out = buffer.in /\ testSignal = 256

(* Provided that the device makes progress, the program ends: it does not  *)
(* wait for a signal that nobody decrements.                               *)
Terminates == <>(host \in {"returned", "exited"})
------------------------------------------------------------------------------
(* What the program says of itself.                                        *)

(* "Validate the data in the output buffer" (vector_copy.c:385), with the  *)
(* "input parameter" in (line 299) and the "output parameter" out (line     *)
(* 304): validation passes if the input was copied to the output.          *)
OutputIsInput ==
  verdict = "passed" => buffer.out = [id \in WorkItems |-> 1]

(* "Finds the specified symbols offset in the specified brig_module. If    *)
(* the symbol is found the function returns HSA_STATUS_SUCCESS, otherwise   *)
(* it returns HSA_STATUS_ERROR" (vector_copy.c:132-135).                   *)
FindsSpecifiedSymbol ==
  host = "write" => IsVectorCopy
==============================================================================
