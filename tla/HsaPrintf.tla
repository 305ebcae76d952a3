------------------------------ MODULE HsaPrintf ------------------------------
(***************************************************************************)
(* The packet queue of printf/hsa_printf.h.  Any thread, a work-item of a  *)
(* kernel or a host thread, calls hsa_printf: it spins on                  *)
(*     lock.compare_exchange_weak(unlocked, locked)                        *)
(* and under the lock stores the packets of its message at the cursor, or  *)
(* reports an overflow.  A host calls hsa_process_printf_queue, which      *)
(* takes the same lock, walks the packets and prints them.                 *)
(*                                                                         *)
(* unlocked is the EXPECTED argument of the compare-exchange, a local that *)
(* the operation overwrites with the value it saw whenever it fails.  It   *)
(* is a variable of this model, and so is its last use: the release stores *)
(* it.  A failed exchange that saw the expected value (the weak form may)  *)
(* changes nothing and is a stuttering step.                               *)
(*                                                                         *)
(* Each step makes at most one access to a plain (non-atomic) shared       *)
(* variable, a packet counting as one, so that threads that are in the     *)
(* critical section together interleave between any two accesses.          *)
(***************************************************************************)
EXTENDS PrintfMessage

CONSTANTS
  Writers,        \* the threads that call hsa_printf
  Hosts,          \* the threads that call hsa_process_printf_queue
  num,            \* packets in the buffer
  Uninitialized,  \* what a slot of new HSAPrintfPacket[num] holds at first
  NoMessage,      \* a thread that is not in hsa_printf has no arguments
  GarbageCounts   \* the counts a packet that is no header may be read as

ASSUME QueueAssumption ==
  /\ num \in Nat
  /\ Uninitialized \notin Packets
  /\ NoMessage \notin Messages
  /\ GarbageCounts \subseteq Nat

Threads == Writers \cup Hosts

VARIABLES
  \* HSAPrintfPacketQueue
  lock, queue, cursor, overflow,
  \* locals of both functions
  pc, unlocked, error,
  \* locals of hsa_printf: its arguments, the packets set_batch has yet to
  \* store, the value of cursor it loaded
  msg, batch, slot,
  \* locals of hsa_process_printf_queue: i, numPackets, formatStringIndex,
  \* the specifiers left in formatString, and what the call has printed
  i, numPackets, formatStringIndex, left, printed,
  \* the program stopped: an assertion failed, or it left defined behaviour
  fault,
  \* history: the messages stored since the last drain with the slot each
  \* starts at, and whether one was refused since, both kept only while
  \* contended is FALSE: did an exchange ever fail on a lock that was held?
  log, rejected, contended

shared  == <<lock, queue, cursor, overflow>>
writer  == <<msg, batch, slot>>
reader  == <<i, numPackets, formatStringIndex, left, printed>>
history == <<log, rejected, contended>>
vars    == <<shared, pc, unlocked, error, writer, reader, fault, history>>

Init ==
  /\ lock = 0
  /\ queue = [s \in 0 .. num - 1 |-> Uninitialized]
  /\ cursor = 0
  /\ overflow = 0
  /\ pc = [t \in Threads |-> "idle"]
  /\ unlocked = [t \in Threads |-> 0]
  /\ error = [t \in Threads |-> "none"]
  /\ msg = [t \in Threads |-> NoMessage]
  /\ batch = [t \in Threads |-> <<>>]
  /\ slot = [t \in Threads |-> 0]
  /\ i = [t \in Threads |-> 0]
  /\ numPackets = [t \in Threads |-> 0]
  /\ formatStringIndex = [t \in Threads |-> 0]
  /\ left = [t \in Threads |-> <<>>]
  /\ printed = [t \in Threads |-> <<>>]
  /\ fault = "none"
  /\ log = <<>>
  /\ rejected = FALSE
  /\ contended = FALSE
------------------------------------------------------------------------------
(* The control of thread t moves; an assertion that failed stops all.      *)
Goto(t, from, to) ==
  /\ fault = "none"
  /\ pc[t] = from
  /\ pc' = [pc EXCEPT ![t] = to]

Stop(t, from, why) ==
  /\ fault = "none"
  /\ pc[t] = from
  /\ fault' = why
  /\ UNCHANGED <<shared, pc, unlocked, error, writer, reader, history>>

(* hsa_printf(queue, format, all...) is called. *)
CallPrintf(t, m) ==
  /\ t \in Writers
  /\ Goto(t, "idle", "acquire")
  /\ unlocked' = [unlocked EXCEPT ![t] = 0]
  /\ error' = [error EXCEPT ![t] = "success"]
  /\ msg' = [msg EXCEPT ![t] = m]
  /\ printed' = [printed EXCEPT ![t] = <<>>]
  /\ UNCHANGED <<shared, batch, slot, i, numPackets, formatStringIndex, left, fault, history>>

(* hsa_process_printf_queue(queue) is called. *)
CallProcess(t) ==
  /\ t \in Hosts
  /\ Goto(t, "idle", "acquireToProcess")
  /\ unlocked' = [unlocked EXCEPT ![t] = 0]
  /\ error' = [error EXCEPT ![t] = "none"]
  /\ printed' = [printed EXCEPT ![t] = <<>>]
  /\ UNCHANGED <<shared, writer, i, numPackets, formatStringIndex, left, fault, history>>

(* Mutants of ExchangeSucceeds: an exchange that compares nothing, and one *)
(* that compares with a fresh 0.                                           *)
MutantExchangeAlways(t) == TRUE
MutantExpectsZero(t) == lock = 0

(* The comparison of lock.compare_exchange_weak(unlocked, locked, ...). *)
ExchangeSucceeds(t) == lock = unlocked[t]

Acquire(t) ==
  /\ ExchangeSucceeds(t)
  /\ lock' = 1
  /\ \/ Goto(t, "acquire", "check")
     \/ Goto(t, "acquireToProcess", "scan")
  /\ UNCHANGED <<queue, cursor, overflow, unlocked, error, writer, reader, fault, history>>

(* The exchange fails: unlocked takes the value that was seen. *)
FailToAcquire(t) ==
  /\ fault = "none"
  /\ pc[t] \in {"acquire", "acquireToProcess"}
  /\ ~ExchangeSucceeds(t)
  /\ unlocked' = [unlocked EXCEPT ![t] = lock]
  /\ contended' = TRUE
  /\ log' = <<>>
  /\ rejected' = FALSE
  /\ UNCHANGED <<shared, pc, error, writer, reader, fault>>

(* Mutant of Unlock: it stores locked. *)
MutantStoreLocked(t) == lock' = 1

(* lock.store(unlocked), with whatever unlocked holds by now. *)
Unlock(t) == lock' = unlocked[t]
------------------------------------------------------------------------------
(* hsa_printf under the lock.                                              *)

(* Mutant of OutOfSpace: the count packet is forgotten. *)
MutantNoCountPacket(m) == Count(m) + cursor >= num

(* The cursor is loaded for the check and loaded again by set_batch.       *)
OutOfSpace(m) == Size(m) + cursor >= num

(* Mutant of RefuseMessage: it waits under the lock for a drain. *)
MutantWaitForDrain(t) ==
  /\ Goto(t, "check", "check")
  /\ OutOfSpace(msg[t])
  /\ UNCHANGED <<shared, unlocked, error, writer, reader, fault, history>>

RefuseMessage(t) ==
  /\ Goto(t, "check", "refuse")
  /\ OutOfSpace(msg[t])
  /\ UNCHANGED <<shared, unlocked, error, writer, reader, fault, history>>

(* Mutant of MarkOverflow: neither error nor break. *)
MutantRetry(t) ==
  /\ Goto(t, "refuse", "acquire")
  /\ overflow' = 1
  /\ UNCHANGED <<lock, queue, cursor, unlocked, error, writer, reader, fault, history>>

MarkOverflow(t) ==
  /\ Goto(t, "refuse", "release")
  /\ overflow' = 1
  /\ error' = [error EXCEPT ![t] = "overflow"]
  /\ UNCHANGED <<lock, queue, cursor, unlocked, writer, reader, fault, history>>

BeginBatch(t) ==
  /\ Goto(t, "check", "loadCursor")
  /\ ~OutOfSpace(msg[t])
  /\ batch' = [batch EXCEPT ![t] = Batch(msg[t])]
  /\ UNCHANGED <<shared, unlocked, error, msg, slot, reader, fault, history>>

(* queue->queue[queue->cursor++].set(t): the cursor is loaded, stored      *)
(* incremented, and the packet is set at the loaded position.              *)
LoadCursor(t) ==
  /\ Goto(t, "loadCursor", "storeCursor")
  /\ slot' = [slot EXCEPT ![t] = cursor]
  /\ UNCHANGED <<shared, unlocked, error, msg, batch, reader, fault, history>>

StoreCursor(t) ==
  /\ Goto(t, "storeCursor", "setPacket")
  /\ cursor' = slot[t] + 1
  /\ UNCHANGED <<lock, queue, overflow, unlocked, error, writer, reader, fault, history>>

SetPacket(t) ==
  /\ pc[t] = "setPacket"
  /\ slot[t] < num
  /\ Goto(t, "setPacket", IF Tail(batch[t]) = <<>> THEN "release" ELSE "loadCursor")
  /\ queue' = [queue EXCEPT ![slot[t]] = Head(batch[t])]
  /\ batch' = [batch EXCEPT ![t] = Tail(batch[t])]
  /\ UNCHANGED <<lock, cursor, overflow, unlocked, error, msg, slot, reader, fault, history>>

SetOutOfBounds(t) ==
  /\ slot[t] >= num
  /\ Stop(t, "setPacket", "out of bounds")

(* lock.store(unlocked), break and return error; the locals are gone.      *)
Release(t) ==
  /\ Goto(t, "release", "idle")
  /\ Unlock(t)
  /\ log' = IF contended \/ error[t] # "success" THEN log
            ELSE Append(log, [msg |-> msg[t], start |-> cursor - Size(msg[t])])
  /\ rejected' = (rejected \/ (~contended /\ error[t] # "success"))
  /\ unlocked' = [unlocked EXCEPT ![t] = 0]
  /\ msg' = [msg EXCEPT ![t] = NoMessage]
  /\ slot' = [slot EXCEPT ![t] = 0]
  /\ UNCHANGED <<queue, cursor, overflow, error, batch, reader, fault, contended>>
------------------------------------------------------------------------------
(* hsa_process_printf_queue under the lock.                                *)

(* The loop condition, i < queue->cursor. *)
NextRequest(t) ==
  /\ Goto(t, "scan", "readCount")
  /\ i[t] < cursor
  /\ UNCHANGED <<shared, unlocked, error, writer, reader, fault, history>>

(* numPackets = queue->queue[i++].data.ui; a zero is skipped. *)
ReadCount(t) ==
  /\ pc[t] = "readCount"
  /\ i[t] < num
  /\ \E n \in IF queue[i[t]] \in [type : {"unsigned_int"}, data : Nat]
              THEN {queue[i[t]].data}
              ELSE GarbageCounts :
       /\ numPackets' = [numPackets EXCEPT ![t] = n]
       /\ Goto(t, "readCount", IF n = 0 THEN "scan" ELSE "readFormat")
  /\ i' = [i EXCEPT ![t] = @ + 1]
  /\ UNCHANGED <<shared, unlocked, error, writer, formatStringIndex, left, printed,
                 fault, history>>

(* formatStringIndex = i++; the packet is asserted to hold a pointer, which *)
(* becomes the format string.                                              *)
ReadFormat(t) ==
  /\ pc[t] = "readFormat"
  /\ i[t] < num
  /\ LET packet == queue[i[t]]
     IN  /\ packet \in [type : PointerTypes, data : Formats]
         /\ left' = [left EXCEPT ![t] = Specifiers[packet.data]]
         /\ printed' = [printed EXCEPT ![t] =
                          Append(@, [format |-> packet.data, shown |-> <<>>])]
  /\ Goto(t, "readFormat", "printArgs")
  /\ formatStringIndex' = [formatStringIndex EXCEPT ![t] = i[t]]
  /\ i' = [i EXCEPT ![t] = @ + 1]
  /\ UNCHANGED <<shared, unlocked, error, writer, numPackets, fault, history>>

AssertFormatIsPointer(t) ==
  /\ pc[t] = "readFormat"
  /\ i[t] < num
  /\ queue[i[t]] \in [type : PacketTypes \ PointerTypes, data : Nat \cup Formats \cup Data]
  /\ Stop(t, "readFormat", "format is no pointer")

(* A format packet that was never written, or a pointer to no format.      *)
WildFormat(t) ==
  /\ pc[t] = "readFormat"
  /\ i[t] < num
  /\ queue[i[t]] \in {Uninitialized} \cup [type : PointerTypes, data : (Nat \cup Data) \ Formats]
  /\ Stop(t, "readFormat", "wild read")

(* The end of the loop over the arguments, j < numPackets: j, which is not *)
(* a variable of this model, is always i - formatStringIndex.  The mutant  *)
(* loops while j < numPackets - 1.                                         *)
MutantOneArgShort(t) == formatStringIndex[t] + numPackets[t] - 1

RequestEnd(t) == formatStringIndex[t] + numPackets[t]

PrintArg(t) ==
  /\ pc[t] = "printArgs"
  /\ i[t] < RequestEnd(t)
  /\ i[t] < num
  /\ left[t] # <<>>
  /\ Head(left[t]) # "unclassified"
  /\ Goto(t, "printArgs", "printArgs")
  /\ LET item == [specifier |-> Head(left[t]), packet |-> queue[i[t]]]
     IN  printed' = [printed EXCEPT ![t][Len(printed[t])].shown = Append(@, item)]
  /\ left' = [left EXCEPT ![t] = Tail(left[t])]
  /\ i' = [i EXCEPT ![t] = @ + 1]
  /\ UNCHANGED <<shared, unlocked, error, writer, numPackets, formatStringIndex,
                 fault, history>>

(* The chain of four type patterns falls through to assert(false). *)
AssertClassified(t) ==
  /\ i[t] < RequestEnd(t)
  /\ left[t] # <<>>
  /\ Head(left[t]) = "unclassified"
  /\ Stop(t, "printArgs", "unclassified specifier")

(* More arguments than specifiers: skip to the next request. *)
SkipArgs(t) ==
  /\ i[t] < RequestEnd(t)
  /\ left[t] = <<>>
  /\ Goto(t, "printArgs", "printArgs")
  /\ i' = [i EXCEPT ![t] = RequestEnd(t)]
  /\ UNCHANGED <<shared, unlocked, error, writer, numPackets, formatStringIndex,
                 left, printed, fault, history>>

EndRequest(t) ==
  /\ i[t] >= RequestEnd(t)
  /\ Goto(t, "printArgs", "scan")
  /\ numPackets' = [numPackets EXCEPT ![t] = 0]
  /\ formatStringIndex' = [formatStringIndex EXCEPT ![t] = 0]
  /\ left' = [left EXCEPT ![t] = <<>>]
  /\ UNCHANGED <<shared, unlocked, error, writer, i, printed, fault, history>>

(* A read at or beyond num leaves the buffer. *)
WillRead(t) == pc[t] = "printArgs" => /\ i[t] < RequestEnd(t)
                                      /\ left[t] # <<>>
                                      /\ Head(left[t]) # "unclassified"

ReadOutOfBounds(t) ==
  /\ i[t] >= num
  /\ WillRead(t)
  /\ \E from \in {"readCount", "readFormat", "printArgs"} : Stop(t, from, "out of bounds")

EndScan(t) ==
  /\ Goto(t, "scan", "resetOverflow")
  /\ i[t] >= cursor
  /\ UNCHANGED <<shared, unlocked, error, writer, reader, fault, history>>

(* Mutant of ResetOverflow: the flag stays. *)
MutantKeepOverflow(t) ==
  /\ Goto(t, "resetOverflow", "resetCursor")
  /\ UNCHANGED <<shared, unlocked, error, writer, reader, fault, history>>

ResetOverflow(t) ==
  /\ Goto(t, "resetOverflow", "resetCursor")
  /\ overflow' = 0
  /\ UNCHANGED <<lock, queue, cursor, unlocked, error, writer, reader, fault, history>>

ResetCursor(t) ==
  /\ Goto(t, "resetCursor", "releaseProcessed")
  /\ cursor' = 0
  /\ UNCHANGED <<lock, queue, overflow, unlocked, error, writer, reader, fault, history>>

ReleaseProcessed(t) ==
  /\ Goto(t, "releaseProcessed", "idle")
  /\ Unlock(t)
  /\ log' = <<>>
  /\ rejected' = FALSE
  /\ unlocked' = [unlocked EXCEPT ![t] = 0]
  /\ i' = [i EXCEPT ![t] = 0]
  /\ UNCHANGED <<queue, cursor, overflow, error, writer, numPackets, formatStringIndex,
                 left, printed, fault, contended>>
------------------------------------------------------------------------------
Call(t) == (\E m \in Messages : CallPrintf(t, m)) \/ CallProcess(t)

Lock(t) == Acquire(t) \/ FailToAcquire(t)

PrintfStep(t) ==
  \/ RefuseMessage(t) \/ MarkOverflow(t) \/ BeginBatch(t)
  \/ LoadCursor(t) \/ StoreCursor(t) \/ SetPacket(t) \/ SetOutOfBounds(t)
  \/ Release(t)

ProcessStep(t) ==
  \/ NextRequest(t) \/ EndScan(t) \/ ReadCount(t) \/ ReadFormat(t)
  \/ AssertFormatIsPointer(t) \/ WildFormat(t)
  \/ PrintArg(t) \/ AssertClassified(t) \/ SkipArgs(t) \/ EndRequest(t)
  \/ ReadOutOfBounds(t)
  \/ ResetOverflow(t) \/ ResetCursor(t) \/ ReleaseProcessed(t)

Step(t) == Lock(t) \/ PrintfStep(t) \/ ProcessStep(t)

Next == \E t \in Threads : Call(t) \/ Step(t)

Spec == Init /\ [][Next]_vars

(* A thread that has entered a call keeps running; nobody has to call.     *)
FairSpec == Spec /\ \A t \in Threads : WF_vars(Step(t))
------------------------------------------------------------------------------
Writing(t) == pc[t] \in {"check", "refuse", "loadCursor", "storeCursor", "setPacket", "release"}
Reading(t) == pc[t] \in {"scan", "readCount", "readFormat", "printArgs", "resetOverflow",
                        "resetCursor", "releaseProcessed"}
InCriticalSection(t) == Writing(t) \/ Reading(t)
------------------------------------------------------------------------------
(* Properties.                                                             *)

ProgramCounters ==
  {"idle", "acquire", "check", "refuse", "loadCursor", "storeCursor", "setPacket", "release",
   "acquireToProcess", "scan", "readCount", "readFormat", "printArgs",
   "resetOverflow", "resetCursor", "releaseProcessed"}

Faults == {"none", "out of bounds", "format is no pointer", "wild read",
           "unclassified specifier"}

(* What a call has printed: of each message the format and the arguments   *)
(* that it paired with specifiers.                                         *)
Renderings == [format : Formats,
               shown  : Seq([specifier : SpecifierClasses, packet : Packets \cup {Uninitialized}])]

(* The types of HSAPrintfPacketQueue and of the locals of both functions.  *)
TypeOK ==
  /\ lock \in {0, 1}
  /\ queue \in [0 .. num - 1 -> Packets \cup {Uninitialized}]
  /\ cursor \in Nat
  /\ overflow \in {0, 1}
  /\ pc \in [Threads -> ProgramCounters]
  /\ unlocked \in [Threads -> {0, 1}]
  /\ error \in [Threads -> {"none", "success", "overflow"}]
  /\ msg \in [Threads -> Messages \cup {NoMessage}]
  /\ batch \in [Threads -> Seq(Packets)]
  /\ slot \in [Threads -> Nat]
  /\ i \in [Threads -> Nat]
  /\ numPackets \in [Threads -> Nat]
  /\ formatStringIndex \in [Threads -> Nat]
  /\ left \in [Threads -> Seq(SpecifierClasses)]
  /\ printed \in [Threads -> Seq(Renderings)]
  /\ fault \in Faults
  /\ rejected \in BOOLEAN
  /\ contended \in BOOLEAN

(* What the lock still guarantees although a failed exchange overwrites    *)
(* the expected value: of the threads in the critical section at most one  *)
(* came in expecting 0, and while it is there the lock is taken.  Any      *)
(* other thread inside came in by exchanging 1 for 1.                      *)
Fresh(t) == InCriticalSection(t) /\ unlocked[t] = 0

FreshExclusion ==
  /\ \A t \in Threads : Fresh(t) => lock = 1
  /\ \A t, u \in Threads : Fresh(t) /\ Fresh(u) => t = u

(* As long as no exchange has failed on a held lock the lock is a lock:    *)
(* one thread at a time is between lock and unlock, and the lock word      *)
(* tells whether there is one.                                             *)
UncontendedExclusion ==
  ~contended =>
    /\ \A t, u \in Threads : InCriticalSection(t) /\ InCriticalSection(u) => t = u
    /\ lock = 1 <=> \E t \in Threads : InCriticalSection(t)

(* The slot that follows the logged messages.                              *)
End == IF log = <<>> THEN 0 ELSE log[Len(log)].start + Size(log[Len(log)].msg)

(* The packets of m are stored from slot s on. *)
StoredAt(m, s) == \A p \in 1 .. Size(m) : queue[s + p - 1] = Batch(m)[p]

(* Absent contention the buffer is framed: the messages logged since the   *)
(* last drain lie back to back from slot 0, each as its count, format and  *)
(* arguments, a batch in progress continues at their end and has room, and *)
(* between calls the cursor is the end and overflow tells of a refusal.    *)
UncontendedFraming ==
  ~contended =>
    /\ \A k \in DOMAIN log :
         /\ log[k].start = IF k = 1 THEN 0 ELSE log[k-1].start + Size(log[k-1].msg)
         /\ StoredAt(log[k].msg, log[k].start)
    /\ log # <<>> => End < num
    /\ \A t \in Threads : pc[t] \in {"loadCursor", "storeCursor", "setPacket"} =>
         LET stored == Size(msg[t]) - Len(batch[t])
         IN  /\ End + Size(msg[t]) < num
             /\ pc[t] = "loadCursor" => cursor = End + stored
             /\ pc[t] # "loadCursor" => slot[t] = End + stored
             /\ \A p \in 1 .. stored : queue[End + p - 1] = Batch(msg[t])[p]
    /\ lock = 0 => cursor = End /\ (overflow = 1 <=> rejected)

(* Absent contention, and unless a format holds a specifier no pattern     *)
(* accepts, the program neither fails an assertion nor leaves the buffer.  *)
UncontendedSafe == ~contended => fault \in {"none", "unclassified specifier"}

(* Absent contention every call takes effect at one instant between its    *)
(* beginning and its return, as in the abstract log.                       *)
Log == INSTANCE PrintfLog WITH
         accepted   <- [k \in DOMAIN log |-> log[k].msg],
         used       <- End,
         overflowed <- rejected,
         output     <- [t \in Threads |-> IF pc[t] = "idle" THEN printed[t] ELSE <<>>],
         reply      <- [t \in Threads |-> IF pc[t] = "idle" THEN error[t] ELSE "pending"]

ImplementsLog == Log!Spec

UncontendedSteps == [][~contended' => [Log!Next]_(Log!vars)]_vars

(* Every call of a lone thread returns. *)
CallsReturn == \A t \in Threads : pc[t] # "idle" ~> pc[t] = "idle"

(* No loop under the lock runs forever, not even over packets that two     *)
(* threads have mixed up: a thread that is inside leaves, or the program   *)
(* stops.                                                                  *)
HolderLeaves == \A t \in Threads :
  InCriticalSection(t) ~> ~InCriticalSection(t) \/ fault # "none"

(* The spin loops do not block for good.  A release may store 1 and leave  *)
(* the lock taken with nobody inside; the overwritten expected value of a  *)
(* spinning thread then matches it, and the thread gets in all the same.   *)
LockTaken ==
  (\E t \in Threads : pc[t] \in {"acquire", "acquireToProcess"})
    ~> (\E t \in Threads : InCriticalSection(t)) \/ fault # "none"

(* The assertion of lines 146-147: the packet after a count is a pointer.  *)
FormatIsPointer == fault # "format is no pointer"
==============================================================================
