--------------------------- MODULE HsaPrintfProofs ---------------------------
(***************************************************************************)
(* Proofs about the packet queue for every number of threads, every buffer *)
(* size and every set of messages: its types, what its lock excludes, and, *)
(* as long as no exchange has failed on a held lock, its contents: the     *)
(* buffer is framed, the drain prints what was stored, and every call      *)
(* takes effect as in the log of PrintfLog.                                *)
(***************************************************************************)
EXTENDS HsaPrintf, SequenceTheorems, TLAPS

(* A batch is a non-empty sequence of packets.                             *)
LEMMA BatchType ==
  ASSUME NEW m \in Messages
  PROVE  Batch(m) \in Seq(Packets) /\ Batch(m) # <<>>
<1>1. m.format \in Formats /\ m.args \in Seq([type : PacketTypes, data : Data])
  BY MessageAssumption
<1>2. m.args \in Seq(Packets)
  <2>1. [type : PacketTypes, data : Data] \subseteq Packets
    BY DEF Packets
  <2> QED
    BY <1>1, <2>1, SeqMonotonic
<1>3. <<HeaderPacket(m), FormatPacket(m)>> \in Seq(Packets)
  BY <1>1 DEF HeaderPacket, FormatPacket, Packets, PacketTypes, PointerTypes, Count
<1> QED
  BY <1>2, <1>3 DEF Batch

(* From its call to its return hsa_printf has its arguments, and while     *)
(* set_batch runs there is a packet left to store.                         *)
WriterLocals ==
  \A t \in Threads :
    /\ pc[t] \in {"acquire", "check", "refuse", "loadCursor", "storeCursor", "setPacket", "release"}
         => msg[t] \in Messages
    /\ pc[t] \in {"loadCursor", "storeCursor", "setPacket"} => batch[t] # <<>>

Typing == TypeOK /\ WriterLocals

LEMMA InitTyping == Init => Typing
<1> SUFFICES ASSUME Init PROVE Typing
  OBVIOUS
<1>1. queue \in [0 .. num - 1 -> Packets \cup {Uninitialized}]
  BY DEF Init
<1>2. /\ batch \in [Threads -> Seq(Packets)]
      /\ left \in [Threads -> Seq(SpecifierClasses)]
  BY DEF Init
<1>3. /\ pc \in [Threads -> ProgramCounters]
      /\ fault \in Faults
      /\ error \in [Threads -> {"none", "success", "overflow"}]
  BY DEF Init, ProgramCounters, Faults
<1>4. WriterLocals
  BY DEF Init, WriterLocals
<1>5. printed \in [Threads -> Seq(Renderings)]
  BY EmptySeq DEF Init
<1> QED
  BY <1>1, <1>2, <1>3, <1>4, <1>5 DEF Init, Typing, TypeOK

LEMMA CallTyping ==
  ASSUME Typing, NEW t \in Threads, Call(t)
  PROVE  Typing'
<1> USE DEF Typing, TypeOK, WriterLocals, ProgramCounters, shared, writer, reader, history, Goto
<1>1. ASSUME NEW m \in Messages, CallPrintf(t, m) PROVE Typing'
  BY <1>1 DEF CallPrintf
<1>2. CASE CallProcess(t)
  BY <1>2 DEF CallProcess
<1> QED
  BY <1>1, <1>2 DEF Call

LEMMA LockTyping ==
  ASSUME Typing, NEW t \in Threads, Lock(t)
  PROVE  Typing'
<1> USE DEF Typing, TypeOK, WriterLocals, ProgramCounters, shared, writer, reader, history, Goto
<1>1. CASE Acquire(t)
  BY <1>1 DEF Acquire
<1>2. CASE FailToAcquire(t)
  BY <1>2 DEF FailToAcquire
<1> QED
  BY <1>1, <1>2 DEF Lock

LEMMA PrintTyping ==
  ASSUME Typing, NEW t \in Threads, PrintfStep(t)
  PROVE  Typing'
<1> USE DEF Typing, TypeOK, WriterLocals, ProgramCounters, shared, writer, reader, history, Goto
<1>1. CASE RefuseMessage(t)
  BY <1>1 DEF RefuseMessage
<1>2. CASE MarkOverflow(t)
  BY <1>2 DEF MarkOverflow
<1>3. CASE BeginBatch(t)
  <2>1. msg[t] \in Messages
    BY <1>3 DEF BeginBatch
  <2> QED
    BY <1>3, <2>1, BatchType DEF BeginBatch
<1>4. CASE LoadCursor(t)
  BY <1>4 DEF LoadCursor
<1>5. CASE StoreCursor(t)
  BY <1>5 DEF StoreCursor
<1>6. CASE SetPacket(t)
  <2>1. batch[t] \in Seq(Packets) /\ batch[t] # <<>>
    BY <1>6 DEF SetPacket
  <2>2. Head(batch[t]) \in Packets /\ Tail(batch[t]) \in Seq(Packets)
    BY <2>1, HeadTailProperties
  <2>3. queue' \in [0 .. num - 1 -> Packets \cup {Uninitialized}]
    BY <1>6, <2>2 DEF SetPacket
  <2>4. batch' \in [Threads -> Seq(Packets)]
    BY <1>6, <2>2 DEF SetPacket
  <2>5. WriterLocals'
    BY <1>6 DEF SetPacket
  <2> QED
    BY <1>6, <2>3, <2>4, <2>5 DEF SetPacket
<1>7. CASE SetOutOfBounds(t)
  BY <1>7 DEF SetOutOfBounds, Stop, Faults
<1>8. CASE Release(t)
  BY <1>8 DEF Release, Unlock
<1> QED
  BY <1>1, <1>2, <1>3, <1>4, <1>5, <1>6, <1>7, <1>8 DEF PrintfStep

LEMMA ProcessTyping ==
  ASSUME Typing, NEW t \in Threads, ProcessStep(t)
  PROVE  Typing'
<1> USE DEF Typing, TypeOK, WriterLocals, ProgramCounters, shared, writer, reader, history, Goto
<1>1. CASE NextRequest(t)
  BY <1>1 DEF NextRequest
<1>2. CASE EndScan(t)
  BY <1>2 DEF EndScan
<1>3. CASE ReadCount(t)
  <2>1. PICK n \in Nat : numPackets' = [numPackets EXCEPT ![t] = n]
    BY <1>3, QueueAssumption DEF ReadCount
  <2>2. pc' \in [Threads -> ProgramCounters] /\ WriterLocals'
    BY <1>3 DEF ReadCount
  <2>3. i' \in [Threads -> Nat]
    BY <1>3 DEF ReadCount
  <2> QED
    BY <1>3, <2>1, <2>2, <2>3 DEF ReadCount
<1>4. CASE ReadFormat(t)
  <2>1. PICK f \in Formats :
          printed' = [printed EXCEPT ![t] = Append(@, [format |-> f, shown |-> <<>>])]
    BY <1>4 DEF ReadFormat
  <2>2. [format |-> f, shown |-> <<>>] \in Renderings
    BY EmptySeq DEF Renderings
  <2>3. Append(printed[t], [format |-> f, shown |-> <<>>]) \in Seq(Renderings)
    BY <2>2, AppendProperties
  <2>4. printed' \in [Threads -> Seq(Renderings)]
    BY <2>1, <2>3
  <2> HIDE DEF Renderings
  <2>5. left' \in [Threads -> Seq(SpecifierClasses)]
    <3>1. queue[i[t]].data \in Formats /\ left' = [left EXCEPT ![t] = Specifiers[queue[i[t]].data]]
      BY <1>4 DEF ReadFormat
    <3>2. Specifiers[queue[i[t]].data] \in Seq(SpecifierClasses)
      BY <3>1, MessageAssumption
    <3> QED
      BY <3>1, <3>2
  <2>6. i' \in [Threads -> Nat] /\ formatStringIndex' \in [Threads -> Nat]
    BY <1>4 DEF ReadFormat
  <2>7. pc' \in [Threads -> ProgramCounters] /\ WriterLocals'
    BY <1>4 DEF ReadFormat
  <2>8. UNCHANGED <<shared, unlocked, error, writer, numPackets, fault, history>>
    BY <1>4 DEF ReadFormat
  <2> QED
    BY <2>4, <2>5, <2>6, <2>7, <2>8
<1>5. CASE AssertFormatIsPointer(t)
  BY <1>5 DEF AssertFormatIsPointer, Stop, Faults
<1>6. CASE WildFormat(t)
  BY <1>6 DEF WildFormat, Stop, Faults
<1>7. CASE PrintArg(t)
  <2> DEFINE n == Len(printed[t])
             item == [specifier |-> Head(left[t]), packet |-> queue[i[t]]]
             last == [printed[t][n] EXCEPT !.shown = Append(@, item)]
  <2>1. printed' = [printed EXCEPT ![t] = [@ EXCEPT ![n] = last]]
    BY <1>7 DEF PrintArg
  <2>2. [printed[t] EXCEPT ![n] = last] \in Seq(Renderings)
    <3>1. CASE n = 0
      <4>1. printed[t] \in [1 .. n -> Renderings] /\ n \notin 1 .. n
        BY <3>1, LenProperties
      <4>2. \A S, R, x, y : \A f \in [S -> R] : x \notin S => [f EXCEPT ![x] = y] = f
        OBVIOUS
      <4>3. [printed[t] EXCEPT ![n] = last] = printed[t]
        BY <4>1, <4>2
      <4>4. printed[t] \in Seq(Renderings)
        OBVIOUS
      <4> HIDE DEF last, Renderings
      <4> QED
        BY <4>3, <4>4, Zenon
    <3>2. CASE n \in 1 .. Len(printed[t])
      <4>1. printed[t][n] \in Renderings
        BY <3>2, ElementOfSeq
      <4>2. item \in [specifier : SpecifierClasses, packet : Packets \cup {Uninitialized}]
        <5>1. left[t] \in Seq(SpecifierClasses) /\ left[t] # <<>>
          BY <1>7 DEF PrintArg
        <5>2. Head(left[t]) \in SpecifierClasses
          BY <5>1, HeadTailProperties
        <5>3. queue[i[t]] \in Packets \cup {Uninitialized}
          <6>1. i[t] < num /\ i[t] \in Nat
            BY <1>7 DEF PrintArg
          <6>2. i[t] \in 0 .. num - 1
            BY <6>1, QueueAssumption
          <6> QED
            BY <6>2
        <5> QED
          BY <5>2, <5>3
      <4>3. last \in Renderings
        BY <4>1, <4>2, AppendProperties DEF Renderings
      <4> QED
        BY <3>2, <4>3, ExceptSeq
    <3> QED
      BY <3>1, <3>2
  <2>3. printed' \in [Threads -> Seq(Renderings)]
    BY <2>1, <2>2
  <2> QED
    BY <1>7, <2>3, SMTT(40) DEF PrintArg
<1>8. CASE AssertClassified(t)
  BY <1>8 DEF AssertClassified, Stop, Faults
<1>9. CASE SkipArgs(t)
  BY <1>9 DEF SkipArgs, RequestEnd
<1>10. CASE EndRequest(t)
  BY <1>10 DEF EndRequest
<1>11. CASE ReadOutOfBounds(t)
  BY <1>11 DEF ReadOutOfBounds, Stop, Faults
<1>12. CASE ResetOverflow(t)
  BY <1>12 DEF ResetOverflow
<1>13. CASE ResetCursor(t)
  BY <1>13 DEF ResetCursor
<1>14. CASE ReleaseProcessed(t)
  BY <1>14 DEF ReleaseProcessed, Unlock
<1> QED
  BY <1>1, <1>2, <1>3, <1>4, <1>5, <1>6, <1>7, <1>8, <1>9, <1>10, <1>11, <1>12, <1>13, <1>14
  DEF ProcessStep

LEMMA StepTyping == Typing /\ [Next]_vars => Typing'
<1> SUFFICES ASSUME Typing, [Next]_vars PROVE Typing'
  OBVIOUS
<1>1. CASE UNCHANGED vars
  BY <1>1 DEF Typing, TypeOK, WriterLocals, vars, shared, writer, reader, history
<1>2. CASE Next
  BY <1>2, CallTyping, LockTyping, PrintTyping, ProcessTyping DEF Next, Step
<1> QED
  BY <1>1, <1>2

(* The fields of HSAPrintfPacketQueue and the locals of its two functions  *)
(* keep their types, whatever the threads do to each other.                *)
THEOREM TypeCorrectness == Spec => []TypeOK
<1>1. Typing => TypeOK
  BY DEF Typing
<1> QED
  BY <1>1, InitTyping, StepTyping, PTL DEF Spec
------------------------------------------------------------------------------
(* The steps that matter to the lock: how a step moves the threads into    *)
(* and out of the critical section and what it does to their expected      *)
(* values.  Every action is one of the following.                          *)

Enters(t) ==
  /\ lock = unlocked[t] /\ lock' = 1
  /\ pc[t] \in {"acquire", "acquireToProcess"}
  /\ \E to \in {"check", "scan"} : pc' = [pc EXCEPT ![t] = to]
  /\ UNCHANGED <<unlocked, contended>>

Leaves(t) ==
  /\ pc[t] \in {"release", "releaseProcessed"}
  /\ pc' = [pc EXCEPT ![t] = "idle"]
  /\ lock' = unlocked[t]
  /\ unlocked' = [unlocked EXCEPT ![t] = 0]
  /\ UNCHANGED contended

Spins(t) ==
  /\ pc[t] \in {"acquire", "acquireToProcess"}
  /\ unlocked' \in [Threads -> {0, 1}]
  /\ \A u \in Threads \ {t} : unlocked'[u] = unlocked[u]
  /\ contended'
  /\ UNCHANGED <<pc, lock>>

Calls(t) ==
  /\ pc[t] = "idle"
  /\ \E to \in {"acquire", "acquireToProcess"} : pc' = [pc EXCEPT ![t] = to]
  /\ unlocked' = [unlocked EXCEPT ![t] = 0]
  /\ UNCHANGED <<lock, contended>>

Inside ==
  {"check", "refuse", "loadCursor", "storeCursor", "setPacket", "release", "scan",
   "readCount", "readFormat", "printArgs", "resetOverflow", "resetCursor", "releaseProcessed"}

Works(t) ==
  /\ \/ UNCHANGED pc
     \/ pc[t] \in Inside /\ \E to \in Inside : pc' = [pc EXCEPT ![t] = to]
  /\ UNCHANGED <<lock, unlocked, contended>>

LEMMA LockSteps ==
  ASSUME TypeOK, NEW t \in Threads, Call(t) \/ Step(t)
  PROVE  Enters(t) \/ Leaves(t) \/ Spins(t) \/ Calls(t) \/ Works(t)
<1> USE DEF Goto, Stop, shared, history, Inside
<1>1. CASE Call(t)
  BY <1>1 DEF Call, CallPrintf, CallProcess, Calls
<1>2. CASE Acquire(t)
  BY <1>2 DEF Acquire, ExchangeSucceeds, Enters
<1>3. CASE FailToAcquire(t)
  BY <1>3 DEF FailToAcquire, Spins, TypeOK
<1>4. CASE Release(t) \/ ReleaseProcessed(t)
  BY <1>4 DEF Release, ReleaseProcessed, Unlock, Leaves
<1>5. CASE RefuseMessage(t) \/ MarkOverflow(t) \/ BeginBatch(t) \/ LoadCursor(t)
           \/ StoreCursor(t) \/ SetOutOfBounds(t)
  BY <1>5 DEF RefuseMessage, MarkOverflow, BeginBatch, LoadCursor, StoreCursor,
              SetOutOfBounds, Works
<1>6. CASE SetPacket(t)
  BY <1>6 DEF SetPacket, Works
<1>7. CASE NextRequest(t) \/ EndScan(t) \/ ReadFormat(t) \/ AssertFormatIsPointer(t)
           \/ WildFormat(t) \/ PrintArg(t) \/ AssertClassified(t)
  BY <1>7 DEF NextRequest, EndScan, ReadFormat, AssertFormatIsPointer, WildFormat,
              PrintArg, AssertClassified, Works
<1>8. CASE SkipArgs(t) \/ EndRequest(t) \/ ReadOutOfBounds(t) \/ ResetOverflow(t)
           \/ ResetCursor(t)
  BY <1>8 DEF SkipArgs, EndRequest, ReadOutOfBounds, ResetOverflow, ResetCursor, Works
<1>9. CASE ReadCount(t)
  BY <1>9 DEF ReadCount, Works
<1> QED
  BY <1>1, <1>2, <1>3, <1>4, <1>5, <1>6, <1>7, <1>8, <1>9 DEF Step, Lock, PrintfStep, ProcessStep

LEMMA InsideIsInCriticalSection ==
  \A t \in Threads : InCriticalSection(t) <=> pc[t] \in Inside
BY DEF InCriticalSection, Writing, Reading, Inside

LEMMA InsideIsInCriticalSectionNext ==
  \A t \in Threads : InCriticalSection(t)' <=> pc'[t] \in Inside
BY DEF InCriticalSection, Writing, Reading, Inside

(* At most one thread entered expecting 0, and the lock is 1 meanwhile.    *)
LEMMA StepFreshExclusion ==
  TypeOK /\ FreshExclusion /\ [Next]_vars => FreshExclusion'
<1> SUFFICES ASSUME TypeOK, FreshExclusion, [Next]_vars PROVE FreshExclusion'
  OBVIOUS
<1> USE InsideIsInCriticalSection, InsideIsInCriticalSectionNext DEF FreshExclusion, Fresh
<1>0. lock \in {0, 1} /\ unlocked \in [Threads -> {0, 1}] /\ pc \in [Threads -> ProgramCounters]
  BY DEF TypeOK
<1>1. CASE UNCHANGED vars
  BY <1>1 DEF vars, shared
<1>2. ASSUME NEW t \in Threads, Enters(t) PROVE FreshExclusion'
  BY <1>0, <1>2 DEF Enters, Inside
<1>3. ASSUME NEW t \in Threads, Leaves(t) PROVE FreshExclusion'
  BY <1>0, <1>3 DEF Leaves, Inside
<1>4. ASSUME NEW t \in Threads, Spins(t) PROVE FreshExclusion'
  <2>1. \A u \in Threads : pc[u] \in Inside => u # t
    BY <1>0, <1>4 DEF Spins, Inside
  <2>2. \A u \in Threads : pc[u] \in Inside => unlocked'[u] = unlocked[u]
    BY <1>0, <1>4, <2>1 DEF Spins
  <2> QED
    BY <1>0, <1>4, <2>2 DEF Spins
<1>5. ASSUME NEW t \in Threads, Calls(t) PROVE FreshExclusion'
  <2>1. \A u \in Threads : pc'[u] \in Inside /\ unlocked'[u] = 0
                           => pc[u] \in Inside /\ unlocked[u] = 0
    BY <1>0, <1>5 DEF Calls, Inside
  <2> QED
    BY <1>0, <1>5, <2>1 DEF Calls
<1>6. ASSUME NEW t \in Threads, Works(t) PROVE FreshExclusion'
  BY <1>0, <1>6 DEF Works, Inside
<1> QED
  BY <1>1, <1>2, <1>3, <1>4, <1>5, <1>6, LockSteps DEF Next

(* Two threads that are inside together never both came in through a free  *)
(* lock: the exclusion that the overwritten expected value leaves intact.  *)
THEOREM FreshExclusionHolds == Spec => []FreshExclusion
<1>1. Init => FreshExclusion
  BY DEF Init, FreshExclusion, Fresh, InCriticalSection, Writing, Reading
<1>2. Spec => []TypeOK
  BY TypeCorrectness
<1> QED
  BY <1>1, <1>2, StepFreshExclusion, PTL DEF Spec

(* The inductive form of UncontendedExclusion: absent contention every     *)
(* thread still expects 0, so being inside is being inside freshly.        *)
UncontendedLock ==
  ~contended => /\ \A t \in Threads : unlocked[t] = 0
                /\ lock = 1 => \E t \in Threads : pc[t] \in Inside

LEMMA StepUncontendedLock ==
  TypeOK /\ FreshExclusion /\ UncontendedLock /\ [Next]_vars => UncontendedLock'
<1> SUFFICES ASSUME TypeOK, FreshExclusion, UncontendedLock, [Next]_vars PROVE UncontendedLock'
  OBVIOUS
<1> USE InsideIsInCriticalSection DEF FreshExclusion, Fresh, UncontendedLock
<1>0. lock \in {0, 1} /\ unlocked \in [Threads -> {0, 1}] /\ pc \in [Threads -> ProgramCounters]
  BY DEF TypeOK
<1>1. CASE UNCHANGED vars
  BY <1>1 DEF vars, shared, history
<1>2. ASSUME NEW t \in Threads, Enters(t) PROVE UncontendedLock'
  BY <1>0, <1>2 DEF Enters, Inside
<1>3. ASSUME NEW t \in Threads, Leaves(t) PROVE UncontendedLock'
  BY <1>0, <1>3 DEF Leaves, Inside
<1>4. ASSUME NEW t \in Threads, Spins(t) PROVE UncontendedLock'
  BY <1>0, <1>4 DEF Spins
<1>5. ASSUME NEW t \in Threads, Calls(t) PROVE UncontendedLock'
  BY <1>0, <1>5 DEF Calls, Inside
<1>6. ASSUME NEW t \in Threads, Works(t) PROVE UncontendedLock'
  BY <1>0, <1>6 DEF Works
<1> QED
  BY <1>1, <1>2, <1>3, <1>4, <1>5, <1>6, LockSteps DEF Next

(* As long as no exchange has failed on a held lock, hsa_printf and        *)
(* hsa_process_printf_queue exclude one another, and lock says whether a   *)
(* thread is inside.                                                       *)
THEOREM UncontendedExclusionHolds == Spec => []UncontendedExclusion
<1>1. Init => UncontendedLock
  BY DEF Init, UncontendedLock
<1>2. TypeOK /\ FreshExclusion /\ UncontendedLock => UncontendedExclusion
  BY InsideIsInCriticalSection DEF FreshExclusion, UncontendedLock, UncontendedExclusion, Fresh
<1> QED
  BY <1>1, <1>2, TypeCorrectness, FreshExclusionHolds, StepUncontendedLock, PTL DEF Spec
------------------------------------------------------------------------------
(* The contents of the queue.                                              *)

(* The messages of the log lie back to back, and none reaches beyond End.  *)
LogFramed ==
  /\ log \in Seq([msg : Messages, start : Nat])
  /\ \A k \in DOMAIN log :
       /\ log[k].start = IF k = 1 THEN 0 ELSE log[k-1].start + Size(log[k-1].msg)
       /\ log[k].start + Size(log[k].msg) <= End
       /\ StoredAt(log[k].msg, log[k].start)
  /\ log # <<>> => End < num

OverflowTold == overflow = 1 <=> rejected
AtRest == cursor = End /\ OverflowTold

InPrintf == {"acquire", "check", "refuse", "loadCursor", "storeCursor", "setPacket", "release"}
InProcess == {"acquireToProcess", "scan", "readCount", "readFormat", "printArgs",
              "resetOverflow", "resetCursor", "releaseProcessed"}

(* A batch in progress: what is stored of it, and what is left.            *)
Stored(t) == Size(msg[t]) - Len(batch[t])

BatchFramed(t) ==
  /\ End + Size(msg[t]) < num
  /\ Len(batch[t]) <= Size(msg[t])
  /\ \A p \in 1 .. Len(batch[t]) : batch[t][p] = Batch(msg[t])[Stored(t) + p]
  /\ \A p \in 1 .. Stored(t) : queue[End + p - 1] = Batch(msg[t])[p]
  /\ cursor = IF pc[t] = "setPacket" THEN End + Stored(t) + 1 ELSE End + Stored(t)
  /\ pc[t] # "loadCursor" => slot[t] = End + Stored(t)
  /\ OverflowTold

MessageStored(t) ==
  /\ error[t] = "success"
  /\ End + Size(msg[t]) < num
  /\ cursor = End + Size(msg[t])
  /\ StoredAt(msg[t], End)
  /\ OverflowTold

MessageRefused(t) ==
  /\ error[t] = "overflow"
  /\ End + Size(msg[t]) >= num
  /\ cursor = End
  /\ overflow = 1

WriterFramed(t) ==
  /\ pc[t] \in InPrintf => t \in Writers /\ printed[t] = <<>>
  /\ pc[t] \in InPrintf \ {"release"} => error[t] = "success"
  /\ pc[t] \in {"check", "refuse"} => AtRest
  /\ pc[t] = "refuse" => End + Size(msg[t]) >= num
  /\ pc[t] \in {"loadCursor", "storeCursor", "setPacket"} => BatchFramed(t)
  /\ pc[t] = "release" => MessageStored(t) \/ MessageRefused(t)

(* Where message k of the log begins; the next free slot after the last.   *)
Boundary(k) == IF k = Len(log) + 1 THEN End ELSE log[k].start

(* The drain has printed the first n messages.                             *)
PrintedUpTo(t, n) == printed[t] = [q \in 1 .. n |-> Render(log[q].msg)]

(* What the drain has printed when it is at message k, after p arguments.  *)
Output(k, m, p) == [q \in 1 .. k |->
  IF q < k THEN Render(log[q].msg)
  ELSE [format |-> m.format, shown |-> [j \in 1 .. p |-> Shown(m)[j]]]]

(* The drain is at the arguments of message k, of which it has printed the *)
(* first p.                                                                *)
PrintedArgs(t, k, p) ==
  LET m == log[k].msg
  IN  /\ printed[t] = Output(k, m, p)
      /\ Len(left[t]) = Len(Specifiers[m.format]) - p
      /\ \A q \in 1 .. Len(left[t]) : left[t][q] = Specifiers[m.format][p + q]
      /\ \/ i[t] = log[k].start + 2 + p
         \/ left[t] = <<>> /\ i[t] = log[k].start + Size(m)

ReaderFramed(t) ==
  /\ pc[t] \in InProcess => t \in Hosts /\ error[t] = "none"
  /\ pc[t] \notin InProcess \ {"acquireToProcess"} => i[t] = 0
  /\ pc[t] = "acquireToProcess" => printed[t] = <<>>
  /\ pc[t] \in {"scan", "readCount", "readFormat", "printArgs", "resetOverflow"} => AtRest
  /\ pc[t] = "scan" =>
       \E k \in 1 .. Len(log) + 1 : i[t] = Boundary(k) /\ PrintedUpTo(t, k - 1)
  /\ pc[t] = "readCount" =>
       \E k \in 1 .. Len(log) : i[t] = log[k].start /\ PrintedUpTo(t, k - 1)
  /\ pc[t] = "readFormat" =>
       \E k \in 1 .. Len(log) :
         /\ i[t] = log[k].start + 1 /\ PrintedUpTo(t, k - 1)
         /\ numPackets[t] = Count(log[k].msg)
  /\ pc[t] = "printArgs" =>
       \E k \in 1 .. Len(log) :
         /\ formatStringIndex[t] = log[k].start + 1
         /\ numPackets[t] = Count(log[k].msg)
         /\ \E p \in 0 .. Len(Shown(log[k].msg)) : PrintedArgs(t, k, p)
  /\ pc[t] \in {"resetOverflow", "resetCursor", "releaseProcessed"} => PrintedUpTo(t, Len(log))
  /\ pc[t] = "resetCursor" => overflow = 0
  /\ pc[t] = "releaseProcessed" => overflow = 0 /\ cursor = 0

Framed ==
  /\ LogFramed
  /\ lock = 0 => AtRest
  /\ \A t \in Threads : WriterFramed(t) /\ ReaderFramed(t)
  /\ fault \in {"none", "unclassified specifier"}

(* The inductive invariant. *)
Framing == ~contended => Framed
------------------------------------------------------------------------------
(* A batch: its length and its packets.                                    *)
LEMMA BatchPackets ==
  ASSUME NEW m \in Messages
  PROVE  /\ m.format \in Formats
         /\ Len(m.args) \in Nat
         /\ Count(m) = Len(m.args) + 1 /\ Size(m) = Len(m.args) + 2
         /\ Len(Batch(m)) = Size(m)
         /\ Batch(m)[1] = HeaderPacket(m) /\ Batch(m)[2] = FormatPacket(m)
         /\ \A p \in 1 .. Len(m.args) : Batch(m)[p + 2] = m.args[p]
<1>1. m.format \in Formats /\ m.args \in Seq([type : PacketTypes, data : Data])
  BY MessageAssumption
<1>2. m.args \in Seq(Packets)
  <2>1. [type : PacketTypes, data : Data] \subseteq Packets
    BY DEF Packets
  <2> QED
    BY <1>1, <2>1, SeqMonotonic
<1>3. <<HeaderPacket(m), FormatPacket(m)>> \in Seq(Packets)
  BY <1>1 DEF HeaderPacket, FormatPacket, Packets, PacketTypes, PointerTypes, Count
<1>4. Len(m.args) \in Nat
  BY <1>1
<1>5. Len(Batch(m)) = 2 + Len(m.args)
  BY <1>2, <1>3, ConcatProperties DEF Batch
<1>6. \A p \in 1 .. 2 + Len(m.args) :
        Batch(m)[p] = IF p <= 2 THEN <<HeaderPacket(m), FormatPacket(m)>>[p] ELSE m.args[p - 2]
  BY <1>2, <1>3, ConcatProperties DEF Batch
<1> QED
  BY <1>1, <1>4, <1>5, <1>6 DEF Count, Size

LEMMA SizeType ==
  \A m \in Messages : Size(m) \in Nat /\ Count(m) \in Nat /\ Size(m) = Count(m) + 1 /\ Count(m) >= 1
BY BatchPackets

(* What a message prints: as many items as it has arguments or its format  *)
(* has specifiers, whichever are fewer.                                    *)
LEMMA ShownItems ==
  ASSUME NEW m \in Messages
  PROVE  /\ Specifiers[m.format] \in Seq(SpecifierClasses)
         /\ Len(Shown(m)) \in Nat
         /\ Len(Shown(m)) <= Len(m.args) /\ Len(Shown(m)) <= Len(Specifiers[m.format])
         /\ Len(Shown(m)) = Len(m.args) \/ Len(Shown(m)) = Len(Specifiers[m.format])
         /\ Shown(m) = [j \in 1 .. Len(Shown(m)) |->
                          [specifier |-> Specifiers[m.format][j], packet |-> m.args[j]]]
<1>1. Specifiers[m.format] \in Seq(SpecifierClasses)
  BY BatchPackets, MessageAssumption
<1>2. Len(Specifiers[m.format]) \in Nat /\ Len(m.args) \in Nat
  BY <1>1, BatchPackets
<1>3. PICK n \in Nat :
        /\ n = IF Len(m.args) < Len(Specifiers[m.format]) THEN Len(m.args)
                                                          ELSE Len(Specifiers[m.format])
        /\ Shown(m) = [j \in 1 .. n |->
                          [specifier |-> Specifiers[m.format][j], packet |-> m.args[j]]]
  BY <1>2 DEF Shown
<1>4. Len(Shown(m)) = n
  BY <1>3
<1> QED
  BY <1>1, <1>2, <1>3, <1>4

LEMMA EndType ==
  ASSUME LogFramed
  PROVE  /\ Len(log) \in Nat /\ DOMAIN log = 1 .. Len(log)
         /\ \A k \in 1 .. Len(log) : log[k].msg \in Messages /\ log[k].start \in Nat
         /\ End \in Nat
         /\ log = <<>> => End = 0
         /\ log # <<>> => Len(log) >= 1 /\ End = log[Len(log)].start + Size(log[Len(log)].msg)
<1>1. Len(log) \in Nat /\ DOMAIN log = 1 .. Len(log)
  BY DEF LogFramed
<1>2. ASSUME NEW k \in 1 .. Len(log)
      PROVE  log[k].msg \in Messages /\ log[k].start \in Nat
  <2>1. log[k] \in [msg : Messages, start : Nat]
    BY ElementOfSeq DEF LogFramed
  <2> QED
    BY <2>1
<1>3. log # <<>> => Len(log) >= 1
  <2>1. log \in Seq([msg : Messages, start : Nat])
    BY DEF LogFramed
  <2> QED
    BY <2>1, EmptySeq
<1> QED
  BY <1>1, <1>2, <1>3, SizeType DEF End
------------------------------------------------------------------------------
LEMMA InitFramed == Init => Framed
<1> SUFFICES ASSUME Init PROVE Framed
  OBVIOUS
<1>1. LogFramed /\ End = 0
  BY EmptySeq DEF Init, LogFramed, End
<1>2. AtRest
  BY <1>1 DEF Init, AtRest, OverflowTold
<1>3. ASSUME NEW t \in Threads PROVE WriterFramed(t) /\ ReaderFramed(t)
  BY <1>3 DEF Init, WriterFramed, ReaderFramed, InPrintf, InProcess
<1> QED
  BY <1>1, <1>2, <1>3 DEF Framed, Init

(* A step of a thread does not disturb what holds of those outside.        *)
Alone(t) == \A u \in Threads \ {t} : pc[u] \notin Inside

LeavesOthers(t) == \A u \in Threads \ {t} :
  pc'[u] = pc[u] /\ error'[u] = error[u] /\ printed'[u] = printed[u] /\ i'[u] = i[u]

LEMMA OthersFramed ==
  ASSUME Typing, Framed, NEW t \in Threads, Alone(t), LeavesOthers(t)
  PROVE  \A u \in Threads \ {t} : WriterFramed(u)' /\ ReaderFramed(u)'
<1> SUFFICES ASSUME NEW u \in Threads \ {t} PROVE WriterFramed(u)' /\ ReaderFramed(u)'
  OBVIOUS
<1>1. pc'[u] = pc[u] /\ pc[u] \in {"idle", "acquire", "acquireToProcess"}
  BY DEF Alone, LeavesOthers, Typing, TypeOK, ProgramCounters, Inside
<1>2. WriterFramed(u) /\ ReaderFramed(u)
  BY DEF Framed
<1>3. WriterFramed(u)'
  BY <1>1, <1>2 DEF WriterFramed, InPrintf, LeavesOthers
<1>4. ReaderFramed(u)'
  BY <1>1, <1>2 DEF ReaderFramed, InProcess, LeavesOthers
<1> QED
  BY <1>3, <1>4

(* A step that leaves log and queue alone leaves the messages framed.      *)
LEMMA LogFramedKept == LogFramed /\ UNCHANGED <<log, queue>> => LogFramed' /\ End' = End
<1> SUFFICES ASSUME LogFramed, log' = log, queue' = queue PROVE LogFramed' /\ End' = End
  OBVIOUS
<1>1. End' = End
  BY DEF End
<1>2. \A m, s : StoredAt(m, s)' <=> StoredAt(m, s)
  BY DEF StoredAt
<1>3. (log \in Seq([msg : Messages, start : Nat]))'
  BY DEF LogFramed
<1>4. (log # <<>> => End < num)'
  BY <1>1 DEF LogFramed
<1>5. (\A k \in DOMAIN log :
         /\ log[k].start = IF k = 1 THEN 0 ELSE log[k-1].start + Size(log[k-1].msg)
         /\ log[k].start + Size(log[k].msg) <= End)'
  BY <1>1 DEF LogFramed
<1>6. (\A k \in DOMAIN log : StoredAt(log[k].msg, log[k].start))'
  BY <1>2 DEF LogFramed
<1> QED
  BY <1>1, <1>3, <1>4, <1>5, <1>6 DEF LogFramed

LEMMA WriterKept ==
  ASSUME NEW u, WriterFramed(u), End' = End,
         UNCHANGED <<queue, cursor, overflow, rejected, pc[u], error[u], msg[u], batch[u], slot[u],
                     printed[u]>>
  PROVE  WriterFramed(u)'
BY DEF WriterFramed, BatchFramed, MessageStored, MessageRefused, StoredAt, Stored,
       AtRest, OverflowTold

LEMMA ReaderKept ==
  ASSUME NEW u, ReaderFramed(u), End' = End,
         UNCHANGED <<log, cursor, overflow, rejected, pc[u], error[u], i[u], numPackets[u],
                     formatStringIndex[u], left[u], printed[u]>>
  PROVE  ReaderFramed(u)'
<1>1. \A k : Boundary(k)' = Boundary(k)
  BY DEF Boundary
<1>2. \A n : PrintedUpTo(u, n)' <=> PrintedUpTo(u, n)
  BY DEF PrintedUpTo
<1>3. \A k, p : PrintedArgs(u, k, p)' <=> PrintedArgs(u, k, p)
  BY DEF PrintedArgs, Output
<1> QED
  BY <1>1, <1>2, <1>3 DEF ReaderFramed, AtRest, OverflowTold

(* Threads that call, and the one that gets the lock.                      *)
LEMMA CallSteps ==
  ASSUME Typing, NEW t \in Threads, Call(t)
  PROVE  /\ UNCHANGED <<lock, queue, cursor, overflow, fault, log, rejected, slot, batch, i,
                         numPackets, formatStringIndex, left>>
         /\ pc[t] = "idle" /\ printed'[t] = <<>>
         /\ \/ pc'[t] = "acquire" /\ t \in Writers /\ error'[t] = "success"
            \/ pc'[t] = "acquireToProcess" /\ t \in Hosts /\ error'[t] = "none"
         /\ \A u \in Threads \ {t} :
              UNCHANGED <<pc[u], error[u], msg[u], printed[u]>>
<1> USE DEF Goto, shared, writer, reader, history, Typing, TypeOK
<1>1. ASSUME NEW m \in Messages, CallPrintf(t, m)
      PROVE  /\ pc[t] = "idle" /\ t \in Writers
             /\ UNCHANGED <<lock, queue, cursor, overflow, fault, log, rejected, slot, batch, i,
                            numPackets, formatStringIndex, left>>
             /\ pc' = [pc EXCEPT ![t] = "acquire"]
             /\ error' = [error EXCEPT ![t] = "success"]
             /\ printed' = [printed EXCEPT ![t] = <<>>]
             /\ \A u \in Threads \ {t} : msg'[u] = msg[u]
  BY <1>1 DEF CallPrintf
<1>2. ASSUME CallProcess(t)
      PROVE  /\ pc[t] = "idle" /\ t \in Hosts
             /\ UNCHANGED <<lock, queue, cursor, overflow, fault, log, rejected, slot, batch, i,
                            numPackets, formatStringIndex, left, msg>>
             /\ pc' = [pc EXCEPT ![t] = "acquireToProcess"]
             /\ error' = [error EXCEPT ![t] = "none"]
             /\ printed' = [printed EXCEPT ![t] = <<>>]
  BY <1>2 DEF CallProcess
<1> QED
  BY <1>1, <1>2 DEF Call

LEMMA CallFramed ==
  ASSUME Typing, Framed, NEW t \in Threads, Call(t)
  PROVE  Framed'
<1> USE CallSteps
<1>1. UNCHANGED <<lock, queue, cursor, overflow, fault, log, rejected>>
  OBVIOUS
<1>2. LogFramed' /\ End' = End
  BY <1>1, LogFramedKept DEF Framed
<1>3. lock' = 0 => AtRest'
  BY <1>1, <1>2 DEF Framed, AtRest, OverflowTold
<1>4. ASSUME NEW u \in Threads PROVE WriterFramed(u)'
  <2>0. WriterFramed(u)
    BY DEF Framed
  <2>1. CASE u = t
    BY <2>1 DEF WriterFramed, InPrintf
  <2>2. CASE u # t
    <3>1. UNCHANGED <<pc[u], error[u], msg[u], batch[u], slot[u], printed[u]>>
      BY <2>2
    <3> QED
      BY <1>1, <1>2, <2>0, <3>1, WriterKept
  <2> QED
    BY <2>1, <2>2
<1>5. ASSUME NEW u \in Threads PROVE ReaderFramed(u)'
  <2>0. ReaderFramed(u)
    BY DEF Framed
  <2>1. CASE u = t
    BY <2>0, <2>1 DEF ReaderFramed, InProcess
  <2>2. CASE u # t
    <3>1. UNCHANGED <<pc[u], error[u], i[u], numPackets[u], formatStringIndex[u], left[u],
                      printed[u]>>
      BY <2>2
    <3> QED
      BY <1>1, <1>2, <2>0, <3>1, ReaderKept
  <2> QED
    BY <2>1, <2>2
<1> QED
  BY <1>1, <1>2, <1>3, <1>4, <1>5 DEF Framed

LEMMA AcquireFramed ==
  ASSUME Typing, Framed, NEW t \in Threads, Alone(t), lock = 0, Acquire(t)
  PROVE  Framed'
<1> USE DEF Goto, shared, writer, reader, history
<1>1. LeavesOthers(t)
  BY DEF Acquire, LeavesOthers, Typing, TypeOK
<1>2. LogFramed' /\ End' = End
  BY LogFramedKept DEF Framed, Acquire
<1>3. AtRest'
  BY <1>2 DEF Framed, Acquire, AtRest, OverflowTold
<1>4. WriterFramed(t) /\ ReaderFramed(t)
  BY DEF Framed
<1>5. CASE Goto(t, "acquire", "check")
  <2>1. pc[t] = "acquire" /\ pc'[t] = "check"
    BY <1>5 DEF Typing, TypeOK
  <2>2. WriterFramed(t)'
    BY <1>2, <1>3, <1>4, <2>1 DEF Acquire, WriterFramed, InPrintf
  <2>3. ReaderFramed(t)'
    BY <1>4, <2>1 DEF Acquire, ReaderFramed, InProcess
  <2> QED
    BY <1>1, <1>2, <1>3, <2>2, <2>3, OthersFramed DEF Framed, Acquire
<1>6. CASE Goto(t, "acquireToProcess", "scan")
  <2>1. pc[t] = "acquireToProcess" /\ pc'[t] = "scan"
    BY <1>6 DEF Typing, TypeOK
  <2>2. WriterFramed(t)'
    BY <1>4, <2>1 DEF Acquire, WriterFramed, InPrintf
  <2>3. i'[t] = 0 /\ printed'[t] = <<>>
    BY <1>4, <2>1 DEF Acquire, ReaderFramed, InProcess
  <2>4. Len(log') \in Nat /\ i'[t] = Boundary(1)'
    <3>1. LogFramed
      BY DEF Framed
    <3> QED
      BY <1>2, <2>3, <3>1, EndType, SMTT(40) DEF Acquire, Boundary, LogFramed
  <2>5. PrintedUpTo(t, 0)'
    BY <2>3 DEF PrintedUpTo
  <2>6. ReaderFramed(t)'
    BY <1>3, <1>4, <2>1, <2>4, <2>5 DEF Acquire, ReaderFramed, InProcess
  <2> QED
    BY <1>1, <1>2, <1>3, <2>2, <2>6, OthersFramed DEF Framed, Acquire
<1> QED
  BY <1>5, <1>6 DEF Acquire
------------------------------------------------------------------------------
(* The steps of hsa_printf under the lock.                                 *)

LEMMA InsideStep ==
  ASSUME Typing, Framed, NEW t \in Threads, Alone(t), LeavesOthers(t), LogFramed',
         lock' = 0 => AtRest', WriterFramed(t)', ReaderFramed(t)', UNCHANGED fault
  PROVE  Framed'
BY OthersFramed DEF Framed

LEMMA WriterDoesNotRead ==
  ASSUME NEW t, ReaderFramed(t), pc[t] \in InPrintf, pc'[t] \in InPrintf \cup {"idle"}, UNCHANGED i
  PROVE  ReaderFramed(t)'
BY DEF ReaderFramed, InPrintf, InProcess

LEMMA RefuseFramed ==
  ASSUME Typing, Framed, NEW t \in Threads, Alone(t), lock = 1,
         RefuseMessage(t) \/ MarkOverflow(t)
  PROVE  Framed'
<1> USE DEF Goto, shared, writer, reader, history
<1>1. LeavesOthers(t) /\ UNCHANGED <<lock, fault, i>>
  BY DEF RefuseMessage, MarkOverflow, LeavesOthers, Typing, TypeOK
<1>2. LogFramed' /\ End' = End
  BY LogFramedKept DEF Framed, RefuseMessage, MarkOverflow
<1>3. WriterFramed(t) /\ ReaderFramed(t) /\ pc \in [Threads -> ProgramCounters]
  BY DEF Framed, Typing, TypeOK
<1>4. CASE RefuseMessage(t)
  <2>1. pc[t] = "check" /\ pc'[t] = "refuse"
    BY <1>3, <1>4 DEF RefuseMessage
  <2>2. AtRest' /\ End + Size(msg[t]) >= num
    <3>1. AtRest
      BY <1>3, <2>1 DEF WriterFramed
    <3> QED
      BY <1>2, <1>4, <3>1, SizeType, EndType
      DEF RefuseMessage, OutOfSpace, AtRest, OverflowTold, Framed, Typing, WriterLocals
  <2>3. WriterFramed(t)'
    BY <1>2, <1>3, <1>4, <2>1, <2>2 DEF RefuseMessage, WriterFramed, InPrintf
  <2>4. ReaderFramed(t)'
    BY <1>1, <1>3, <2>1, WriterDoesNotRead DEF InPrintf
  <2> QED
    BY <1>1, <1>2, <2>3, <2>4, InsideStep
<1>5. CASE MarkOverflow(t)
  <2>1. pc[t] = "refuse" /\ pc'[t] = "release" /\ error'[t] = "overflow"
    BY <1>3, <1>5 DEF MarkOverflow, Typing, TypeOK
  <2>2. MessageRefused(t)'
    BY <1>2, <1>3, <1>5, <2>1 DEF MarkOverflow, WriterFramed, AtRest, MessageRefused
  <2>3. WriterFramed(t)'
    BY <1>2, <1>3, <1>5, <2>1, <2>2 DEF MarkOverflow, WriterFramed, InPrintf
  <2>4. ReaderFramed(t)'
    BY <1>1, <1>3, <2>1, WriterDoesNotRead DEF InPrintf
  <2> QED
    BY <1>1, <1>2, <2>3, <2>4, InsideStep
<1> QED
  BY <1>4, <1>5

LEMMA BeginFramed ==
  ASSUME Typing, Framed, NEW t \in Threads, Alone(t), lock = 1, BeginBatch(t)
  PROVE  Framed'
<1> USE DEF Goto, shared, writer, reader, history
<1>1. LeavesOthers(t) /\ UNCHANGED <<lock, fault, i>>
  BY DEF BeginBatch, LeavesOthers, Typing, TypeOK
<1>2. LogFramed' /\ End' = End
  BY LogFramedKept DEF Framed, BeginBatch
<1>3. WriterFramed(t) /\ ReaderFramed(t)
  BY DEF Framed
<1>4. pc[t] = "check" /\ pc'[t] = "loadCursor"
  BY DEF BeginBatch, Typing, TypeOK
<1>5. AtRest /\ End \in Nat /\ msg[t] \in Messages
  BY <1>3, <1>4, EndType DEF WriterFramed, Framed, Typing, WriterLocals
<1>6. batch'[t] = Batch(msg[t]) /\ msg'[t] = msg[t]
  BY DEF BeginBatch, Typing, TypeOK
<1>7. Size(msg[t]) \in Nat /\ Len(batch'[t]) = Size(msg[t])
  BY <1>5, <1>6, BatchPackets
<1>8. Stored(t)' = 0
  BY <1>6, <1>7 DEF Stored
<1>9. BatchFramed(t)'
  <2>1. End + Size(msg[t]) < num
    BY <1>5, <1>7, QueueAssumption DEF BeginBatch, OutOfSpace, AtRest
  <2> QED
    BY <1>2, <1>4, <1>5, <1>6, <1>7, <1>8, <2>1 DEF BatchFramed, BeginBatch, AtRest, OverflowTold
<1>10. WriterFramed(t)'
  BY <1>3, <1>4, <1>9 DEF BeginBatch, WriterFramed, InPrintf
<1>11. ReaderFramed(t)'
  BY <1>1, <1>3, <1>4, WriterDoesNotRead DEF InPrintf
<1> QED
  BY <1>1, <1>2, <1>10, <1>11, InsideStep

LEMMA CursorFramed ==
  ASSUME Typing, Framed, NEW t \in Threads, Alone(t), lock = 1, LoadCursor(t) \/ StoreCursor(t)
  PROVE  Framed'
<1> USE DEF Goto, shared, writer, reader, history
<1>1. LeavesOthers(t) /\ UNCHANGED <<lock, fault, i, queue, overflow, rejected, msg, batch>>
  BY DEF LoadCursor, StoreCursor, LeavesOthers, Typing, TypeOK
<1>2. LogFramed' /\ End' = End
  BY LogFramedKept DEF Framed, LoadCursor, StoreCursor
<1>3. WriterFramed(t) /\ ReaderFramed(t)
  BY DEF Framed
<1>4. \/ pc[t] = "loadCursor" /\ pc'[t] = "storeCursor"
      \/ pc[t] = "storeCursor" /\ pc'[t] = "setPacket"
  BY DEF LoadCursor, StoreCursor, Typing, TypeOK
<1>5. BatchFramed(t) /\ Stored(t)' = Stored(t)
  BY <1>1, <1>3, <1>4 DEF WriterFramed, Stored
<1>6. cursor' = (IF pc'[t] = "setPacket" THEN End + Stored(t) + 1 ELSE End + Stored(t)) /\ slot'[t] = End + Stored(t)
  <2>0. End \in Nat /\ Stored(t) \in Int
    <3>1. msg[t] \in Messages /\ batch[t] \in Seq(Packets)
      BY <1>4 DEF Typing, TypeOK, WriterLocals
    <3>2. LogFramed
      BY DEF Framed
    <3>3. Len(batch[t]) \in Nat /\ Size(msg[t]) \in Nat
      BY <3>1, LenProperties, SizeType
    <3> QED
      BY <3>2, <3>3, EndType DEF Stored
  <2>1. CASE LoadCursor(t)
    <3>1. pc[t] = "loadCursor" /\ pc'[t] = "storeCursor" /\ slot'[t] = cursor /\ cursor' = cursor
      BY <2>1 DEF LoadCursor, Typing, TypeOK
    <3> QED
      BY <1>5, <2>0, <3>1 DEF BatchFramed
  <2>2. CASE StoreCursor(t)
    <3>1. pc[t] = "storeCursor" /\ pc'[t] = "setPacket" /\ slot'[t] = slot[t] /\ cursor' = slot[t] + 1
      BY <2>2 DEF StoreCursor, Typing, TypeOK
    <3> QED
      BY <1>5, <2>0, <3>1 DEF BatchFramed
  <2> QED
    BY <2>1, <2>2
<1>7. BatchFramed(t)'
  BY <1>1, <1>2, <1>5, <1>6 DEF BatchFramed, OverflowTold
<1>8. WriterFramed(t)'
  BY <1>3, <1>4, <1>7 DEF LoadCursor, StoreCursor, WriterFramed, InPrintf
<1>9. ReaderFramed(t)'
  BY <1>1, <1>3, <1>4, WriterDoesNotRead DEF InPrintf
<1> QED
  BY <1>1, <1>2, <1>8, <1>9, InsideStep
(* A packet goes to the slot after those that are framed.                  *)
LEMMA SetFramed ==
  ASSUME Typing, Framed, NEW t \in Threads, Alone(t), lock = 1, SetPacket(t)
  PROVE  Framed'
<1> USE DEF Goto, shared, writer, reader, history
<1>1. LeavesOthers(t) /\ UNCHANGED <<lock, cursor, overflow, rejected, fault, i, msg, slot, log, error, printed>>
  BY DEF SetPacket, LeavesOthers, Typing, TypeOK
<1>2. WriterFramed(t) /\ ReaderFramed(t) /\ LogFramed /\ End \in Nat
  BY EndType DEF Framed
<1>3. pc[t] = "setPacket" /\ pc'[t] = IF Tail(batch[t]) = <<>> THEN "release" ELSE "loadCursor"
  BY DEF SetPacket, Typing, TypeOK
<1>4. BatchFramed(t) /\ t \in Writers /\ printed[t] = <<>> /\ error[t] = "success"
  BY <1>2, <1>3 DEF WriterFramed, InPrintf
<1>5. /\ msg[t] \in Messages /\ Size(msg[t]) \in Nat
      /\ batch[t] \in Seq(Packets) /\ batch[t] # <<>> /\ Len(batch[t]) \in Nat \ {0}
  <2>1. batch[t] \in Seq(Packets) /\ batch[t] # <<>> /\ msg[t] \in Messages
    BY <1>3 DEF Typing, TypeOK, WriterLocals
  <2> QED
    BY <2>1, SizeType, EmptySeq
<1>6. /\ batch'[t] = Tail(batch[t])
      /\ Len(batch'[t]) = Len(batch[t]) - 1
      /\ \A p \in 1 .. Len(batch[t]) - 1 : batch'[t][p] = batch[t][p + 1]
      /\ batch'[t] = <<>> => Len(batch[t]) = 1
  <2>1. batch'[t] = Tail(batch[t])
    BY DEF SetPacket, Typing, TypeOK
  <2>2. Tail(batch[t]) = <<>> => Len(Tail(batch[t])) = 0
    BY EmptySeq
  <2> QED
    BY <1>5, <2>1, <2>2, HeadTailProperties
<1>7. /\ Stored(t) \in Nat /\ Stored(t)' = Stored(t) + 1
      /\ Stored(t) = Size(msg[t]) - Len(batch[t])
      /\ slot[t] = End + Stored(t) /\ slot[t] < num /\ cursor = End + Stored(t) + 1
  <2>1. Len(batch[t]) <= Size(msg[t]) /\ cursor = End + Stored(t) + 1 /\ slot[t] = End + Stored(t)
    BY <1>3, <1>4 DEF BatchFramed
  <2>2. Stored(t) = Size(msg[t]) - Len(batch[t])
    BY DEF Stored
  <2>3. Stored(t)' = Size(msg[t]) - Len(batch'[t])
    BY <1>1 DEF Stored
  <2>4. slot[t] < num
    BY DEF SetPacket
  <2> QED
    BY <1>5, <1>6, <2>1, <2>2, <2>3, <2>4
<1>8. queue' = [queue EXCEPT ![slot[t]] = Batch(msg[t])[Stored(t) + 1]]
  <2>1. Head(batch[t]) = batch[t][1]
    BY <1>5
  <2>2. batch[t][1] = Batch(msg[t])[Stored(t) + 1]
    BY <1>4, <1>5 DEF BatchFramed
  <2> QED
    BY <2>1, <2>2 DEF SetPacket
<1>9. /\ queue'[slot[t]] = Batch(msg[t])[Stored(t) + 1]
      /\ \A s \in 0 .. slot[t] - 1 : queue'[s] = queue[s]
  <2>1. queue \in [0 .. num - 1 -> Packets \cup {Uninitialized}] /\ slot[t] \in 0 .. num - 1
    BY <1>2, <1>7, QueueAssumption, SMTT(40) DEF Typing, TypeOK
  <2> QED
    BY <1>2, <1>7, <1>8, <2>1
<1>10. End' = End
  BY <1>1 DEF End
<1>11. LogFramed'
  <2>1. ASSUME NEW k \in DOMAIN log PROVE StoredAt(log[k].msg, log[k].start)'
    <3>1. /\ log[k].msg \in Messages /\ log[k].start \in Nat /\ Size(log[k].msg) \in Nat
          /\ log[k].start + Size(log[k].msg) <= End
          /\ StoredAt(log[k].msg, log[k].start)
      BY <1>2, EndType, SizeType DEF LogFramed
    <3>2. \A p \in 1 .. Size(log[k].msg) : log[k].start + p - 1 \in 0 .. slot[t] - 1
      BY <1>2, <1>7, <3>1, SMTT(40)
    <3> QED
      BY <1>1, <1>9, <3>1, <3>2 DEF StoredAt
  <2> QED
    BY <1>1, <1>2, <1>10, <2>1 DEF LogFramed
<1>12. \A p \in 1 .. Stored(t) + 1 : queue'[End + p - 1] = Batch(msg[t])[p]
  <2> SUFFICES ASSUME NEW p \in 1 .. Stored(t) + 1 PROVE queue'[End + p - 1] = Batch(msg[t])[p]
    OBVIOUS
  <2>1. CASE p = Stored(t) + 1
    BY <1>2, <1>7, <1>9, <2>1
  <2>2. CASE p \in 1 .. Stored(t)
    <3>1. End + p - 1 \in 0 .. slot[t] - 1
      BY <1>2, <1>7, <2>2
    <3> QED
      BY <1>4, <1>9, <2>2, <3>1 DEF BatchFramed
  <2> QED
    BY <1>7, <2>1, <2>2
<1>13. WriterFramed(t)'
  <2>1. CASE Tail(batch[t]) = <<>>
    <3>1. pc'[t] = "release" /\ Size(msg[t]) = Stored(t) + 1
      <4>1. pc'[t] = "release"
        BY <1>3, <2>1
      <4>2. Len(batch[t]) = 1
        BY <1>6, <2>1
      <4> QED
        BY <1>5, <1>7, <4>1, <4>2
    <3>2. StoredAt(msg[t], End)'
      BY <1>1, <1>10, <1>12, <3>1 DEF StoredAt
    <3>3. OverflowTold' /\ End + Size(msg[t]) < num
      BY <1>1, <1>4 DEF BatchFramed, OverflowTold
    <3>4. cursor' = End + Size(msg[t])
      BY <1>1, <1>2, <1>7, <3>1
    <3>5. MessageStored(t)'
      BY <1>1, <1>4, <1>10, <3>2, <3>3, <3>4 DEF MessageStored
    <3> QED
      BY <1>1, <1>4, <3>1, <3>5 DEF WriterFramed, InPrintf
  <2>2. CASE Tail(batch[t]) # <<>>
    <3>1. pc'[t] = "loadCursor"
      BY <1>3, <2>2
    <3>2. \A p \in 1 .. Len(batch'[t]) : batch'[t][p] = Batch(msg[t])[Stored(t)' + p]
      <4> SUFFICES ASSUME NEW p \in 1 .. Len(batch'[t])
                   PROVE  batch'[t][p] = Batch(msg[t])[Stored(t)' + p]
        OBVIOUS
      <4>1. batch'[t][p] = batch[t][p + 1] /\ p + 1 \in 1 .. Len(batch[t])
        BY <1>5, <1>6
      <4>2. batch[t][p + 1] = Batch(msg[t])[Stored(t) + (p + 1)]
        BY <1>4, <4>1 DEF BatchFramed
      <4>3. Stored(t) + (p + 1) = Stored(t)' + p
        BY <1>7, <4>1
      <4> QED
        BY <4>1, <4>2, <4>3
    <3>3. OverflowTold' /\ End + Size(msg[t]) < num /\ Len(batch'[t]) <= Size(msg[t])
      BY <1>1, <1>4, <1>5, <1>6 DEF BatchFramed, OverflowTold
    <3>4. cursor' = End + Stored(t)'
      BY <1>1, <1>2, <1>7
    <3>5. \A p \in 1 .. Stored(t)' : queue'[End + p - 1] = Batch(msg[t])[p]
      BY <1>7, <1>12
    <3>6. BatchFramed(t)'
      BY <1>1, <1>2, <1>7, <1>10, <3>1, <3>2, <3>3, <3>4, <3>5 DEF BatchFramed
    <3> QED
      BY <1>1, <1>4, <3>1, <3>6 DEF WriterFramed, InPrintf
  <2> QED
    BY <2>1, <2>2
<1>14. ReaderFramed(t)'
  BY <1>1, <1>2, <1>3, WriterDoesNotRead DEF InPrintf
<1> QED
  BY <1>1, <1>11, <1>13, <1>14, InsideStep
LEMMA ReleaseFramed ==
  ASSUME Typing, Framed, ~contended, NEW t \in Threads, Alone(t), unlocked[t] = 0, Release(t)
  PROVE  Framed'
<1> USE DEF Goto, Unlock, shared, writer, reader, history
<1>1. LeavesOthers(t) /\ UNCHANGED <<queue, cursor, overflow, fault, i, error, printed>>
  BY DEF Release, LeavesOthers, Typing, TypeOK
<1>2. WriterFramed(t) /\ ReaderFramed(t) /\ LogFramed /\ End \in Nat
  BY EndType DEF Framed
<1>3. pc[t] = "release" /\ pc'[t] = "idle" /\ lock' = 0
  BY DEF Release, Typing, TypeOK
<1>4. msg[t] \in Messages /\ Size(msg[t]) \in Nat
  BY <1>3, SizeType DEF Typing, WriterLocals
<1>5. LogFramed' /\ AtRest'
  <2>1. CASE MessageStored(t)
    <3> DEFINE entry == [msg |-> msg[t], start |-> End]
    <3>1. log' = Append(log, entry) /\ rejected' = rejected
      <4>1. error[t] = "success" /\ cursor = End + Size(msg[t])
        BY <2>1 DEF MessageStored
      <4>2. cursor - Size(msg[t]) = End
        BY <1>2, <1>4, <4>1
      <4>3. log' = Append(log, entry)
        BY <4>1, <4>2 DEF Release
      <4>4. rejected \in BOOLEAN /\ rejected' = (rejected \/ FALSE)
        BY <4>1 DEF Release, Typing, TypeOK
      <4> QED
        BY <4>3, <4>4
    <3>2. entry \in [msg : Messages, start : Nat] /\ log \in Seq([msg : Messages, start : Nat])
      BY <1>2, <1>4 DEF LogFramed
    <3>3. /\ log' \in Seq([msg : Messages, start : Nat])
          /\ Len(log') = Len(log) + 1
          /\ \A k \in 1 .. Len(log) : log'[k] = log[k]
          /\ log'[Len(log')] = entry
          /\ log' # <<>>
      BY <3>1, <3>2, AppendProperties
    <3>4. End' = End + Size(msg[t])
      BY <3>3 DEF End
    <3>5. Len(log) \in Nat /\ DOMAIN log' = 1 .. Len(log) + 1
      BY <3>2, <3>3
    <3>6. ASSUME NEW k \in 1 .. Len(log) + 1
          PROVE  /\ log'[k].start = IF k = 1 THEN 0 ELSE log'[k-1].start + Size(log'[k-1].msg)
                 /\ log'[k].start + Size(log'[k].msg) <= End'
                 /\ \A p \in 1 .. Size(log'[k].msg) :
                      queue'[log'[k].start + p - 1] = Batch(log'[k].msg)[p]
      <4>1. CASE k \in 1 .. Len(log)
        <5>1. log'[k] = log[k] /\ (k # 1 => log'[k-1] = log[k-1])
          BY <3>3, <3>5, <4>1, SMTT(40)
        <5>2. /\ log[k].start = IF k = 1 THEN 0 ELSE log[k-1].start + Size(log[k-1].msg)
              /\ log[k].start + Size(log[k].msg) <= End
              /\ StoredAt(log[k].msg, log[k].start)
          BY <1>2, <4>1, EndType DEF LogFramed
        <5>3. log[k].start \in Nat /\ Size(log[k].msg) \in Nat
          BY <1>2, <4>1, EndType, SizeType
        <5> QED
          BY <1>1, <1>2, <1>4, <3>4, <5>1, <5>2, <5>3 DEF StoredAt
      <4>2. CASE k = Len(log) + 1
        <5>1. log'[k] = entry
          BY <3>3, <4>2
        <5>2. \A p \in 1 .. Size(log'[k].msg) :
                queue'[log'[k].start + p - 1] = Batch(log'[k].msg)[p]
          BY <1>1, <2>1, <5>1 DEF StoredAt, MessageStored
        <5>3. k = 1 => End = 0
          BY <1>2, <3>5, <4>2, EndType
        <5>4. k # 1 => log'[k-1] = log[Len(log)] /\ End = log[Len(log)].start + Size(log[Len(log)].msg)
          BY <1>2, <3>3, <3>5, <4>2, EndType
        <5> QED
          BY <1>2, <1>4, <3>4, <5>1, <5>2, <5>3, <5>4
      <4> QED
        BY <3>5, <3>6, <4>1, <4>2
    <3>7. LogFramed'
      <4>1. End' < num
        BY <2>1, <3>4 DEF MessageStored
      <4> QED
        BY <3>3, <3>5, <3>6, <4>1 DEF LogFramed, StoredAt
    <3>8. AtRest'
      BY <1>1, <2>1, <3>1, <3>4 DEF AtRest, MessageStored, OverflowTold
    <3> QED
      BY <3>7, <3>8
  <2>2. CASE MessageRefused(t)
    <3>1. log' = log /\ rejected' = TRUE
      BY <2>2 DEF Release, MessageRefused
    <3>2. LogFramed' /\ End' = End
      BY <1>1, <1>2, <3>1, LogFramedKept
    <3> QED
      BY <1>1, <2>2, <3>1, <3>2 DEF AtRest, MessageRefused, OverflowTold
  <2> QED
    BY <1>2, <1>3, <2>1, <2>2 DEF WriterFramed
<1>6. WriterFramed(t)'
  BY <1>3 DEF WriterFramed, InPrintf
<1>7. ReaderFramed(t)'
  BY <1>1, <1>2, <1>3, WriterDoesNotRead DEF InPrintf
<1> QED
  BY <1>1, <1>5, <1>6, <1>7, InsideStep

LEMMA PrintfFramed ==
  ASSUME Typing, Framed, ~contended, NEW t \in Threads, Alone(t), lock = 1, unlocked[t] = 0,
         PrintfStep(t)
  PROVE  Framed'
<1>1. CASE SetOutOfBounds(t)
  <2>1. WriterFramed(t) /\ LogFramed
    BY DEF Framed
  <2>2. pc[t] = "setPacket" /\ slot[t] >= num
    BY <1>1 DEF SetOutOfBounds, Stop
  <2>3. BatchFramed(t) /\ batch[t] \in Seq(Packets) /\ batch[t] # <<>> /\ msg[t] \in Messages
    BY <2>1, <2>2 DEF WriterFramed, Typing, TypeOK, WriterLocals
  <2>4. Len(batch[t]) \in Nat \ {0} /\ End \in Nat /\ Size(msg[t]) \in Nat
    BY <2>1, <2>3, EmptySeq, EndType, SizeType
  <2>5. slot[t] = End + (Size(msg[t]) - Len(batch[t])) /\ End + Size(msg[t]) < num
    BY <2>2, <2>3 DEF BatchFramed, Stored
  <2> QED
    BY <2>2, <2>4, <2>5, QueueAssumption
<1> QED
  BY <1>1, RefuseFramed, BeginFramed, CursorFramed, SetFramed, ReleaseFramed DEF PrintfStep
------------------------------------------------------------------------------
(* The steps of hsa_process_printf_queue under the lock.                   *)

LEMMA ReaderStep ==
  ASSUME Typing, Framed, NEW t \in Threads, Alone(t), LeavesOthers(t),
         UNCHANGED <<log, queue, fault>>, lock' = 1, pc'[t] \in InProcess, ReaderFramed(t)'
  PROVE  Framed'
<1>1. LogFramed'
  BY LogFramedKept DEF Framed
<1>2. WriterFramed(t)'
  BY DEF WriterFramed, InPrintf, InProcess
<1> QED
  BY <1>1, <1>2, InsideStep

(* The packets of message k, and where the next message begins.            *)
LEMMA MessageInQueue ==
  ASSUME LogFramed, NEW k \in 1 .. Len(log)
  PROVE  /\ log[k].msg \in Messages /\ log[k].start \in Nat
         /\ log[k].start + Size(log[k].msg) <= End /\ End < num /\ End \in Nat
         /\ queue[log[k].start] = HeaderPacket(log[k].msg)
         /\ queue[log[k].start + 1] = FormatPacket(log[k].msg)
         /\ \A p \in 1 .. Len(log[k].msg.args) : queue[log[k].start + 1 + p] = log[k].msg.args[p]
<1>1. /\ log[k].msg \in Messages /\ log[k].start \in Nat /\ End \in Nat
      /\ Len(log) \in Nat /\ k \in DOMAIN log
  BY EndType
<1>2. /\ log[k].start + Size(log[k].msg) <= End
      /\ StoredAt(log[k].msg, log[k].start)
      /\ log # <<>> => End < num
  BY <1>1 DEF LogFramed
<1>3. log # <<>>
  BY <1>1, EmptySeq
<1>4. Size(log[k].msg) = Len(log[k].msg.args) + 2 /\ Len(log[k].msg.args) \in Nat
  BY <1>1, BatchPackets
<1>5. \A p \in 1 .. Size(log[k].msg) : queue[log[k].start + p - 1] = Batch(log[k].msg)[p]
  BY <1>2 DEF StoredAt
<1>6. queue[log[k].start] = HeaderPacket(log[k].msg)
  <2>1. queue[log[k].start + 1 - 1] = Batch(log[k].msg)[1]
    BY <1>4, <1>5
  <2> QED
    BY <1>1, <2>1, BatchPackets
<1>7. queue[log[k].start + 1] = FormatPacket(log[k].msg)
  <2>1. queue[log[k].start + 2 - 1] = Batch(log[k].msg)[2]
    BY <1>4, <1>5
  <2> QED
    BY <1>1, <2>1, BatchPackets
<1>8. ASSUME NEW p \in 1 .. Len(log[k].msg.args)
      PROVE  queue[log[k].start + 1 + p] = log[k].msg.args[p]
  <2>1. queue[log[k].start + (p + 2) - 1] = Batch(log[k].msg)[p + 2]
    BY <1>4, <1>5
  <2>2. log[k].start + (p + 2) - 1 = log[k].start + 1 + p
    BY <1>1
  <2> QED
    BY <1>1, <2>1, <2>2, BatchPackets
<1> QED
  BY <1>1, <1>2, <1>3, <1>6, <1>7, <1>8

LEMMA BoundaryNext ==
  ASSUME LogFramed, NEW k \in 1 .. Len(log)
  PROVE  Boundary(k) = log[k].start /\ Boundary(k + 1) = log[k].start + Size(log[k].msg)
<1>0. Len(log) \in Nat
  BY EndType
<1>1. DOMAIN log = 1 .. Len(log)
  BY EndType
<1>2. CASE k = Len(log)
  <2>1. log # <<>>
    BY <1>0, <1>2, EmptySeq
  <2>2. k # Len(log) + 1 /\ k + 1 = Len(log) + 1
    BY <1>0, <1>2
  <2>3. End = log[k].start + Size(log[k].msg)
    BY <1>2, <2>1 DEF End
  <2> QED
    BY <2>2, <2>3 DEF Boundary
<1>3. CASE k # Len(log)
  <2> DEFINE j == k + 1
  <2>1. j \in 1 .. Len(log) /\ j # 1 /\ j - 1 = k /\ j # Len(log) + 1 /\ k # Len(log) + 1
    BY <1>0, <1>3
  <2> HIDE DEF j
  <2>2. log[j].start = log[k].start + Size(log[k].msg)
    BY <1>1, <2>1 DEF LogFramed
  <2> USE DEF j
  <2> QED
    BY <2>1, <2>2 DEF Boundary
<1> QED
  BY <1>2, <1>3

LEMMA ScanFramed ==
  ASSUME Typing, Framed, NEW t \in Threads, Alone(t), lock = 1, NextRequest(t) \/ EndScan(t)
  PROVE  Framed'
<1> USE DEF Goto, shared, writer, reader, history
<1>1. /\ LeavesOthers(t)
      /\ UNCHANGED <<lock, queue, cursor, overflow, rejected, fault, log, error, printed, i>>
  BY DEF NextRequest, EndScan, LeavesOthers, Typing, TypeOK
<1>2. ReaderFramed(t) /\ LogFramed
  BY DEF Framed
<1>3. pc[t] = "scan"
  BY DEF NextRequest, EndScan
<1>4. t \in Hosts /\ error[t] = "none" /\ AtRest
  BY <1>2, <1>3 DEF ReaderFramed, InProcess
<1>5. PICK k \in 1 .. Len(log) + 1 : i[t] = Boundary(k) /\ PrintedUpTo(t, k - 1)
  BY <1>2, <1>3 DEF ReaderFramed
<1>6. Len(log) \in Nat
  BY <1>2, EndType
<1>7. AtRest' /\ (\A n : PrintedUpTo(t, n)' <=> PrintedUpTo(t, n))
  BY <1>1, <1>4 DEF AtRest, OverflowTold, End, PrintedUpTo
<1>8. CASE k = Len(log) + 1
  <2>1. i[t] = End /\ PrintedUpTo(t, Len(log))
    BY <1>5, <1>6, <1>8 DEF Boundary
  <2>2. EndScan(t) /\ pc'[t] = "resetOverflow"
    BY <1>4, <2>1 DEF NextRequest, EndScan, AtRest, Typing, TypeOK
  <2>3. ReaderFramed(t)'
    BY <1>1, <1>4, <1>7, <2>1, <2>2 DEF ReaderFramed, InProcess
  <2> QED
    BY <1>1, <2>2, <2>3, ReaderStep DEF InProcess
<1>9. CASE k \in 1 .. Len(log)
  <2>1. i[t] = log[k].start /\ i[t] < cursor
    BY <1>2, <1>4, <1>5, <1>9, BoundaryNext, MessageInQueue, SizeType, BatchPackets, SMTT(40) DEF AtRest
  <2>2. NextRequest(t) /\ pc'[t] = "readCount"
    BY <2>1 DEF NextRequest, EndScan, Typing, TypeOK
  <2>3. ReaderFramed(t)'
    BY <1>1, <1>4, <1>5, <1>7, <1>9, <2>1, <2>2 DEF ReaderFramed, InProcess
  <2> QED
    BY <1>1, <2>2, <2>3, ReaderStep DEF InProcess
<1> QED
  BY <1>5, <1>6, <1>8, <1>9
LEMMA ReadCountFramed ==
  ASSUME Typing, Framed, NEW t \in Threads, Alone(t), lock = 1, ReadCount(t)
  PROVE  Framed'
<1> USE DEF Goto, shared, writer, reader, history
<1>1. /\ LeavesOthers(t)
      /\ UNCHANGED <<lock, queue, cursor, overflow, rejected, fault, log, error, printed>>
      /\ i'[t] = i[t] + 1
  BY DEF ReadCount, LeavesOthers, Typing, TypeOK
<1>2. ReaderFramed(t) /\ LogFramed
  BY DEF Framed
<1>3. pc[t] = "readCount"
  BY DEF ReadCount
<1>4. t \in Hosts /\ error[t] = "none" /\ AtRest
  BY <1>2, <1>3 DEF ReaderFramed, InProcess
<1>5. PICK k \in 1 .. Len(log) : i[t] = log[k].start /\ PrintedUpTo(t, k - 1)
  BY <1>2, <1>3 DEF ReaderFramed
<1>6. /\ queue[i[t]] = [type |-> "unsigned_int", data |-> Count(log[k].msg)]
      /\ Count(log[k].msg) \in Nat /\ Count(log[k].msg) # 0
  BY <1>2, <1>5, MessageInQueue, SizeType DEF HeaderPacket
<1>7. numPackets'[t] = Count(log[k].msg) /\ pc'[t] = "readFormat"
  <2>1. queue[i[t]] \in [type : {"unsigned_int"}, data : Nat] /\ queue[i[t]].data = Count(log[k].msg)
    BY <1>6
  <2>2. PICK n \in {Count(log[k].msg)} :
          /\ numPackets' = [numPackets EXCEPT ![t] = n]
          /\ Goto(t, "readCount", IF n = 0 THEN "scan" ELSE "readFormat")
    BY <2>1 DEF ReadCount
  <2> QED
    BY <1>6, <2>2 DEF Typing, TypeOK
<1>8. AtRest' /\ PrintedUpTo(t, k - 1)'
  BY <1>1, <1>4, <1>5 DEF AtRest, OverflowTold, End, PrintedUpTo
<1>9. ReaderFramed(t)'
  BY <1>1, <1>4, <1>5, <1>7, <1>8 DEF ReaderFramed, InProcess
<1> QED
  BY <1>1, <1>7, <1>9, ReaderStep DEF InProcess

(* The packet of a format is a pointer to a format.                        *)
LEMMA FormatIsRead ==
  ASSUME NEW m \in Messages
  PROVE  /\ FormatPacket(m) \in [type : PointerTypes, data : Formats]
         /\ FormatPacket(m) \notin [type : PacketTypes \ PointerTypes, data : Nat \cup Formats \cup Data]
         /\ FormatPacket(m) \notin {Uninitialized} \cup [type : PointerTypes, data : (Nat \cup Data) \ Formats]
         /\ FormatPacket(m).data = m.format
<1>1. m.format \in Formats
  BY BatchPackets
<1>2. FormatPacket(m) \in Packets
  BY <1>1 DEF FormatPacket, Packets, PacketTypes, PointerTypes
<1> QED
  BY <1>1, <1>2, QueueAssumption DEF FormatPacket, PointerTypes, PacketTypes

LEMMA ReadFormatFramed ==
  ASSUME Typing, Framed, NEW t \in Threads, Alone(t), lock = 1, ReadFormat(t)
  PROVE  Framed'
<1> USE DEF Goto, shared, writer, reader, history
<1>1. /\ LeavesOthers(t)
      /\ UNCHANGED <<lock, queue, cursor, overflow, rejected, fault, log, error, numPackets>>
      /\ i'[t] = i[t] + 1 /\ formatStringIndex'[t] = i[t] /\ pc'[t] = "printArgs"
  BY DEF ReadFormat, LeavesOthers, Typing, TypeOK
<1>2. ReaderFramed(t) /\ LogFramed
  BY DEF Framed
<1>3. pc[t] = "readFormat"
  BY DEF ReadFormat
<1>4. t \in Hosts /\ error[t] = "none" /\ AtRest
  BY <1>2, <1>3 DEF ReaderFramed, InProcess
<1>5. PICK k \in 1 .. Len(log) : /\ i[t] = log[k].start + 1 /\ PrintedUpTo(t, k - 1)
                                /\ numPackets[t] = Count(log[k].msg)
  BY <1>2, <1>3 DEF ReaderFramed
<1> DEFINE m == log[k].msg
<1>6. m \in Messages /\ log[k].start \in Nat /\ queue[i[t]] = FormatPacket(m)
  BY <1>2, <1>5, MessageInQueue
<1>7. left'[t] = Specifiers[m.format]
  BY <1>6, FormatIsRead DEF ReadFormat, Typing, TypeOK
<1>8. printed'[t] = Append(printed[t], [format |-> m.format, shown |-> <<>>])
  BY <1>6, FormatIsRead DEF ReadFormat, Typing, TypeOK
<1>9. PrintedArgs(t, k, 0)'
  <2>1. Len(log) \in Nat /\ k - 1 \in Nat
    BY <1>2, EndType
  <2>2. printed'[t] = [q \in 1 .. k |->
                         IF q < k THEN Render(log[q].msg)
                         ELSE [format |-> m.format, shown |-> [j \in 1 .. 0 |-> Shown(m)[j]]]]
    <3>1. [j \in 1 .. 0 |-> Shown(m)[j]] = <<>>
      OBVIOUS
    <3>2. printed[t] = [q \in 1 .. k - 1 |-> Render(log[q].msg)]
      BY <1>5 DEF PrintedUpTo
    <3>3. Append([q \in 1 .. k - 1 |-> Render(log[q].msg)], [format |-> m.format, shown |-> <<>>])
            = [q \in 1 .. k |-> IF q < k THEN Render(log[q].msg)
                               ELSE [format |-> m.format, shown |-> <<>>]]
      BY <2>1
    <3> QED
      BY <1>8, <3>1, <3>2, <3>3
  <2>3. Specifiers[m.format] \in Seq(SpecifierClasses)
    BY <1>6, ShownItems
  <2> QED
    BY <1>1, <1>5, <1>6, <1>7, <2>2, <2>3 DEF PrintedArgs, Output
<1>10. AtRest'
  BY <1>1, <1>4 DEF AtRest, OverflowTold, End
<1>11. ReaderFramed(t)'
  BY <1>1, <1>4, <1>5, <1>6, <1>9, <1>10, ShownItems DEF ReaderFramed, InProcess
<1> QED
  BY <1>1, <1>11, ReaderStep DEF InProcess
(* The drain stands among the arguments of message k, which is m and       *)
(* starts at slot s, and has printed the first p of them.                  *)
InArguments(t, k, m, s, p) ==
  /\ k \in 1 .. Len(log) /\ m = log[k].msg /\ s = log[k].start
  /\ m \in Messages /\ s \in Nat /\ p \in Nat
  /\ formatStringIndex[t] = s + 1 /\ numPackets[t] = Count(m)
  /\ PrintedArgs(t, k, p) /\ p <= Len(Shown(m))

LEMMA AtArguments ==
  ASSUME Typing, Framed, NEW t \in Threads, pc[t] = "printArgs"
  PROVE  \E k, m, s, p : InArguments(t, k, m, s, p)
<1>1. ReaderFramed(t) /\ LogFramed
  BY DEF Framed
<1>2. PICK k \in 1 .. Len(log) :
        /\ formatStringIndex[t] = log[k].start + 1
        /\ numPackets[t] = Count(log[k].msg)
        /\ \E p \in 0 .. Len(Shown(log[k].msg)) : PrintedArgs(t, k, p)
  BY <1>1 DEF ReaderFramed
<1>3. log[k].msg \in Messages /\ log[k].start \in Nat
  BY <1>1, MessageInQueue
<1>4. PICK p \in 0 .. Len(Shown(log[k].msg)) : PrintedArgs(t, k, p)
  BY <1>2
<1>5. p \in Nat /\ p <= Len(Shown(log[k].msg))
  BY <1>3, <1>4, ShownItems
<1> QED
  BY <1>2, <1>3, <1>4, <1>5 DEF InArguments

LEMMA ArgumentsEnd ==
  ASSUME Typing, Framed, NEW t \in Threads, NEW k, NEW m, NEW s, NEW p, InArguments(t, k, m, s, p)
  PROVE  /\ RequestEnd(t) = s + Size(m) /\ RequestEnd(t) = s + 2 + Len(m.args)
         /\ RequestEnd(t) \in Nat /\ RequestEnd(t) < num
         /\ Len(m.args) \in Nat
         /\ left[t] = <<>> <=> p = Len(Specifiers[m.format])
         /\ i[t] = s + 2 + p \/ (left[t] = <<>> /\ i[t] = s + Size(m))
<1>1. /\ m \in Messages /\ s \in Nat /\ p \in Nat
      /\ formatStringIndex[t] = s + 1 /\ numPackets[t] = Count(m)
  BY DEF InArguments
<1>2. Size(m) = Len(m.args) + 2 /\ Count(m) = Len(m.args) + 1 /\ Len(m.args) \in Nat
  BY <1>1, BatchPackets
<1>3. s + Size(m) <= End /\ End < num /\ End \in Nat
  BY MessageInQueue DEF InArguments, Framed
<1>4. RequestEnd(t) = s + 1 + Count(m)
  BY <1>1 DEF RequestEnd
<1>5. num \in Nat
  BY QueueAssumption
<1>6. left[t] = <<>> <=> p = Len(Specifiers[m.format])
  <2>1. left[t] \in Seq(SpecifierClasses) /\ Specifiers[m.format] \in Seq(SpecifierClasses)
    BY <1>1, ShownItems DEF Typing, TypeOK
  <2>2. left[t] = <<>> <=> Len(left[t]) = 0
    BY <2>1, EmptySeq
  <2>3. Len(left[t]) = Len(Specifiers[m.format]) - p
    BY DEF InArguments, PrintedArgs
  <2>4. Len(Specifiers[m.format]) \in Nat
    BY <2>1, LenProperties
  <2> QED
    BY <1>1, <2>2, <2>3, <2>4
<1>7. i[t] = s + 2 + p \/ (left[t] = <<>> /\ i[t] = s + Size(m))
  <2>1. PrintedArgs(t, k, p)
    BY DEF InArguments
  <2>3. m = log[k].msg /\ s = log[k].start
    BY DEF InArguments
  <2>2. \/ i[t] = log[k].start + 2 + p
        \/ left[t] = <<>> /\ i[t] = log[k].start + Size(log[k].msg)
    BY <2>1 DEF PrintedArgs
  <2> QED
    BY <2>2, <2>3
<1>8. RequestEnd(t) = s + Size(m) /\ RequestEnd(t) = s + 2 + Len(m.args)
  BY <1>1, <1>2, <1>4, SMTT(40)
<1>9. RequestEnd(t) \in Nat /\ RequestEnd(t) < num
  BY <1>1, <1>2, <1>3, <1>5, <1>8
<1> QED
  BY <1>2, <1>6, <1>7, <1>8, <1>9

LEMMA OneMoreArgument ==
  ASSUME NEW k \in Nat \ {0}, NEW m, NEW p \in Nat
  PROVE  /\ Len(Output(k, m, p)) = k
         /\ [Output(k, m, p) EXCEPT ![k] =
               [Output(k, m, p)[k] EXCEPT
                 !.shown = Append(Output(k, m, p)[k].shown, Shown(m)[p + 1])]]
              = Output(k, m, p + 1)
<1> DEFINE items(r) == [j \in 1 .. r |-> Shown(m)[j]]
           last(r) == [format |-> m.format, shown |-> items(r)]
<1>1. Len(Output(k, m, p)) = k
  BY DEF Output
<1>2. Append(items(p), Shown(m)[p + 1]) = items(p + 1)
  OBVIOUS
<1> HIDE DEF items
<1>3. /\ last(p).shown = items(p)
      /\ [last(p) EXCEPT !.shown = items(p + 1)] = last(p + 1)
  OBVIOUS
<1> HIDE DEF last
<1>4. \A r : Output(k, m, r) = [q \in 1 .. k |-> IF q < k THEN Render(log[q].msg) ELSE last(r)]
  BY DEF Output, last, items
<1>5. Output(k, m, p)[k] = last(p)
  BY <1>4
<1>6. [Output(k, m, p) EXCEPT ![k] = last(p + 1)] = Output(k, m, p + 1)
  BY <1>4
<1> QED
  BY <1>1, <1>2, <1>3, <1>5, <1>6
LEMMA PrintArgFramed ==
  ASSUME Typing, Framed, NEW t \in Threads, Alone(t), lock = 1, PrintArg(t)
  PROVE  Framed'
<1> USE DEF Goto, shared, writer, reader, history
<1>1. /\ LeavesOthers(t)
      /\ UNCHANGED <<lock, queue, cursor, overflow, rejected, fault, log, error, numPackets,
                     formatStringIndex>>
      /\ pc[t] = "printArgs" /\ pc'[t] = "printArgs"
  BY DEF PrintArg, LeavesOthers, Typing, TypeOK
<1>2. ReaderFramed(t) /\ LogFramed
  BY DEF Framed
<1>3. i'[t] = i[t] + 1 /\ left[t] # <<>> /\ i[t] < RequestEnd(t)
  BY DEF PrintArg, Typing, TypeOK
<1>4. t \in Hosts /\ error[t] = "none" /\ AtRest
  BY <1>1, <1>2 DEF ReaderFramed, InProcess
<1>5. PICK k, m, s, p : InArguments(t, k, m, s, p)
  BY <1>1, AtArguments
<1>6. m \in Messages /\ s \in Nat /\ p \in Nat
  BY <1>5 DEF InArguments
<1>7. k \in 1 .. Len(log) /\ m = log[k].msg /\ s = log[k].start
  BY <1>5 DEF InArguments
<1>8. i[t] = s + 2 + p /\ p < Len(m.args) /\ p < Len(Specifiers[m.format])
  <2>1. /\ RequestEnd(t) = s + 2 + Len(m.args) /\ Len(m.args) \in Nat
        /\ i[t] = s + 2 + p
        /\ p # Len(Specifiers[m.format])
    BY <1>3, <1>5, ArgumentsEnd
  <2>2. p <= Len(Shown(m)) /\ Len(Shown(m)) <= Len(Specifiers[m.format]) /\ Len(Shown(m)) \in Nat
        /\ Len(Specifiers[m.format]) \in Nat
    BY <1>5, <1>6, ShownItems, LenProperties DEF InArguments
  <2>3. p < Len(Specifiers[m.format])
    BY <1>6, <2>1, <2>2
  <2>4. p < Len(m.args)
    <3>1. s + 2 + p < s + 2 + Len(m.args)
      BY <1>3, <2>1, Zenon
    <3>2. \A n \in Nat : s + 2 + p < s + 2 + n => p < n
      BY <1>6
    <3> QED
      BY <2>1, <3>1, <3>2, Zenon
  <2> QED
    BY <2>1, <2>3, <2>4
<1>9. p + 1 \in 1 .. Len(Shown(m)) /\ p + 1 \in 1 .. Len(m.args)
  <2>1. /\ Len(Shown(m)) = Len(m.args) \/ Len(Shown(m)) = Len(Specifiers[m.format])
        /\ Len(Shown(m)) \in Nat
    BY <1>6, ShownItems
  <2>2. Len(m.args) \in Nat
    BY <1>6, BatchPackets
  <2> QED
    BY <1>6, <1>8, <2>1, <2>2
<1> DEFINE a == left[t]
           b == left'[t]
<1>10. /\ Len(a) = Len(Specifiers[m.format]) - p /\ Len(a) \in Nat \ {0}
       /\ \A q \in 1 .. Len(a) : a[q] = Specifiers[m.format][p + q]
       /\ Len(b) = Len(a) - 1
       /\ \A q \in 1 .. Len(b) : b[q] = a[q + 1]
       /\ Head(a) = a[1]
  <2>1. a \in Seq(SpecifierClasses) /\ b = Tail(a) /\ a # <<>>
    BY <1>3 DEF PrintArg, Typing, TypeOK
  <2>2. /\ Len(a) = Len(Specifiers[m.format]) - p
        /\ \A q \in 1 .. Len(a) : a[q] = Specifiers[m.format][p + q]
    BY <1>5 DEF InArguments, PrintedArgs
  <2> HIDE DEF a, b
  <2> QED
    BY <2>1, <2>2, HeadTailProperties, EmptySeq
<1>11. Head(a) = Specifiers[m.format][p + 1] /\ queue[i[t]] = m.args[p + 1]
  <2>1. Head(a) = Specifiers[m.format][p + 1]
    <3> HIDE DEF a, b
    <3> QED
      BY <1>10
  <2>2. queue[s + 1 + (p + 1)] = m.args[p + 1]
    BY <1>2, <1>7, <1>9, MessageInQueue
  <2>3. i[t] = s + 1 + (p + 1)
    BY <1>6, <1>8
  <2> QED
    BY <2>1, <2>2, <2>3
<1>12. [specifier |-> Head(a), packet |-> queue[i[t]]] = Shown(m)[p + 1]
  BY <1>6, <1>9, <1>11, ShownItems
<1>13. printed'[t] = Output(k, m, p + 1)
  <2>1. printed[t] = Output(k, m, p)
    BY <1>5 DEF InArguments, PrintedArgs
  <2>2. k \in Nat \ {0}
    BY <1>2, <1>7, EndType
  <2>3. Len(Output(k, m, p)) = k
    BY <1>6, <2>2, OneMoreArgument, Zenon
  <2>4. [Output(k, m, p) EXCEPT ![k] =
           [Output(k, m, p)[k] EXCEPT
             !.shown = Append(Output(k, m, p)[k].shown, Shown(m)[p + 1])]] = Output(k, m, p + 1)
    BY <1>6, <2>2, OneMoreArgument, Zenon
  <2>5. printed'[t] = [printed[t] EXCEPT ![Len(printed[t])] =
                         [printed[t][Len(printed[t])] EXCEPT
                            !.shown = Append(printed[t][Len(printed[t])].shown, Shown(m)[p + 1])]]
    BY <1>12 DEF PrintArg, Typing, TypeOK
  <2> QED
    BY <2>1, <2>3, <2>4, <2>5, Zenon
<1>14. PrintedArgs(t, k, p + 1)'
  <2>1. Len(b) = Len(Specifiers[m.format]) - (p + 1)
    <3>1. Len(Specifiers[m.format]) \in Nat
      BY <1>6, ShownItems, LenProperties
    <3> HIDE DEF a, b
    <3> QED
      BY <1>6, <1>10, <3>1
  <2>2. ASSUME NEW q \in 1 .. Len(b) PROVE b[q] = Specifiers[m.format][(p + 1) + q]
    <3> HIDE DEF a, b
    <3>1. q + 1 \in 1 .. Len(a) /\ b[q] = a[q + 1] /\ q \in Nat
      BY <1>10
    <3>2. a[q + 1] = Specifiers[m.format][p + (q + 1)]
      BY <1>10, <3>1
    <3>3. p + (q + 1) = (p + 1) + q
      BY <1>6, <3>1
    <3> QED
      BY <3>1, <3>2, <3>3
  <2>3. i'[t] = s + 2 + (p + 1)
    BY <1>3, <1>6, <1>8
  <2>4. log'[k].msg = m /\ log'[k].start = s /\ Output(k, m, p + 1)' = Output(k, m, p + 1)
    BY <1>1, <1>7 DEF Output
  <2> QED
    BY <1>13, <2>1, <2>2, <2>3, <2>4 DEF PrintedArgs
<1>15. AtRest'
  BY <1>1, <1>4 DEF AtRest, OverflowTold, End
<1>16. /\ formatStringIndex'[t] = log'[k].start + 1 /\ numPackets'[t] = Count(log'[k].msg)
       /\ k \in 1 .. Len(log') /\ p + 1 \in 0 .. Len(Shown(log'[k].msg))
  BY <1>1, <1>5, <1>6, <1>7, <1>9 DEF InArguments
<1>17. ReaderFramed(t)'
  BY <1>1, <1>4, <1>14, <1>15, <1>16 DEF ReaderFramed, InProcess
<1> QED
  BY <1>1, <1>17, ReaderStep DEF InProcess
LEMMA SkipFramed ==
  ASSUME Typing, Framed, NEW t \in Threads, Alone(t), lock = 1, SkipArgs(t)
  PROVE  Framed'
<1> USE DEF Goto, shared, writer, reader, history
<1>1. /\ LeavesOthers(t)
      /\ UNCHANGED <<lock, queue, cursor, overflow, rejected, fault, log, error, numPackets,
                     formatStringIndex, left, printed>>
      /\ pc[t] = "printArgs" /\ pc'[t] = "printArgs"
  BY DEF SkipArgs, LeavesOthers, Typing, TypeOK
<1>2. ReaderFramed(t)
  BY DEF Framed
<1>3. i'[t] = RequestEnd(t) /\ left[t] = <<>>
  BY DEF SkipArgs, Typing, TypeOK
<1>4. t \in Hosts /\ error[t] = "none" /\ AtRest
  BY <1>1, <1>2 DEF ReaderFramed, InProcess
<1>5. PICK k, m, s, p : InArguments(t, k, m, s, p)
  BY <1>1, AtArguments
<1>6. m \in Messages /\ p \in Nat /\ p <= Len(Shown(m))
  BY <1>5 DEF InArguments
<1>7. k \in 1 .. Len(log) /\ m = log[k].msg /\ s = log[k].start
  BY <1>5 DEF InArguments
<1>8. i'[t] = s + Size(m)
  BY <1>3, <1>5, ArgumentsEnd
<1>9. PrintedArgs(t, k, p)'
  <2>1. PrintedArgs(t, k, p)
    BY <1>5 DEF InArguments
  <2>2. Output(k, m, p)' = Output(k, m, p)
    BY <1>1 DEF Output
  <2> QED
    BY <1>1, <1>3, <1>7, <1>8, <2>1, <2>2 DEF PrintedArgs
<1>10. AtRest'
  BY <1>1, <1>4 DEF AtRest, OverflowTold, End
<1>11. /\ formatStringIndex'[t] = log'[k].start + 1 /\ numPackets'[t] = Count(log'[k].msg)
       /\ k \in 1 .. Len(log') /\ p \in 0 .. Len(Shown(log'[k].msg))
  BY <1>1, <1>5, <1>6, <1>7, ShownItems DEF InArguments
<1>12. ReaderFramed(t)'
  BY <1>1, <1>4, <1>9, <1>10, <1>11 DEF ReaderFramed, InProcess
<1> QED
  BY <1>1, <1>12, ReaderStep DEF InProcess

(* When the loop over the arguments ends the message is printed as it      *)
(* should be, and the next one begins where the loop has ended.            *)
LEMMA EndRequestFramed ==
  ASSUME Typing, Framed, NEW t \in Threads, Alone(t), lock = 1, EndRequest(t)
  PROVE  Framed'
<1> USE DEF Goto, shared, writer, reader, history
<1>1. /\ LeavesOthers(t)
      /\ UNCHANGED <<lock, queue, cursor, overflow, rejected, fault, log, error, i, printed>>
      /\ pc[t] = "printArgs" /\ pc'[t] = "scan"
  BY DEF EndRequest, LeavesOthers, Typing, TypeOK
<1>2. ReaderFramed(t) /\ LogFramed
  BY DEF Framed
<1>3. i[t] >= RequestEnd(t)
  BY DEF EndRequest
<1>4. t \in Hosts /\ error[t] = "none" /\ AtRest
  BY <1>1, <1>2 DEF ReaderFramed, InProcess
<1>5. PICK k, m, s, p : InArguments(t, k, m, s, p)
  BY <1>1, AtArguments
<1>6. m \in Messages /\ s \in Nat /\ p \in Nat /\ p <= Len(Shown(m))
  BY <1>5 DEF InArguments
<1>7. k \in 1 .. Len(log) /\ m = log[k].msg /\ s = log[k].start
  BY <1>5 DEF InArguments
<1>8. p = Len(Shown(m)) /\ i[t] = s + Size(m)
  <2>1. /\ RequestEnd(t) = s + Size(m) /\ RequestEnd(t) = s + 2 + Len(m.args) /\ Len(m.args) \in Nat
    BY <1>5, ArgumentsEnd
  <2>2. /\ Len(Shown(m)) \in Nat
        /\ Len(Shown(m)) <= Len(m.args) /\ Len(Shown(m)) <= Len(Specifiers[m.format])
    BY <1>6, ShownItems
  <2>3. CASE i[t] = s + 2 + p
    <3>1. \A n \in Nat : s + 2 + p >= s + 2 + n => p >= n
      BY <1>6
    <3>2. p >= Len(m.args)
      BY <1>3, <2>1, <2>3, <3>1, Zenon
    <3>3. p = Len(m.args) /\ p = Len(Shown(m))
      BY <1>6, <2>1, <2>2, <3>2
    <3> QED
      BY <2>1, <2>3, <3>3, Zenon
  <2>4. CASE left[t] = <<>> /\ i[t] = s + Size(m)
    <3>1. p = Len(Specifiers[m.format])
      BY <1>5, <2>4, ArgumentsEnd
    <3> QED
      BY <1>6, <2>2, <2>4, <3>1
  <2> QED
    BY <1>5, <2>3, <2>4, ArgumentsEnd
<1>9. PrintedUpTo(t, k)
  <2>1. [format |-> m.format, shown |-> [j \in 1 .. p |-> Shown(m)[j]]] = Render(log[k].msg)
    BY <1>6, <1>7, <1>8, ShownItems DEF Render
  <2>2. printed[t] = Output(k, m, p)
    BY <1>5 DEF InArguments, PrintedArgs
  <2>3. \A q \in 1 .. k : ~(q < k) => q = k
    BY <1>2, <1>7, EndType
  <2> DEFINE r(q) == Render(log[q].msg)
  <2>4. Output(k, m, p) = [q \in 1 .. k |-> IF q < k THEN r(q) ELSE r(k)]
    BY <2>1 DEF Output
  <2> HIDE DEF r
  <2>5. [q \in 1 .. k |-> IF q < k THEN r(q) ELSE r(k)] = [q \in 1 .. k |-> r(q)]
    BY <2>3
  <2> QED
    BY <2>2, <2>4, <2>5 DEF PrintedUpTo, r
<1> DEFINE j == k + 1
<1>10. i[t] = Boundary(j) /\ PrintedUpTo(t, j - 1) /\ j \in 1 .. Len(log) + 1
  <2>1. Boundary(j) = s + Size(m)
    BY <1>2, <1>7, BoundaryNext
  <2>2. j \in 1 .. Len(log) + 1 /\ j - 1 = k
    BY <1>2, <1>7, EndType
  <2> HIDE DEF j
  <2> QED
    BY <1>8, <1>9, <2>1, <2>2
<1> HIDE DEF j
<1>11. AtRest' /\ PrintedUpTo(t, j - 1)' /\ i'[t] = Boundary(j)' /\ j \in 1 .. Len(log') + 1
  BY <1>1, <1>4, <1>10 DEF AtRest, OverflowTold, End, PrintedUpTo, Boundary
<1>12. ReaderFramed(t)'
  BY <1>1, <1>4, <1>11 DEF ReaderFramed, InProcess
<1> QED
  BY <1>1, <1>12, ReaderStep DEF InProcess

LEMMA ResetFramed ==
  ASSUME Typing, Framed, NEW t \in Threads, Alone(t), lock = 1, ResetOverflow(t) \/ ResetCursor(t)
  PROVE  Framed'
<1> USE DEF Goto, shared, writer, reader, history
<1>1. LeavesOthers(t) /\ UNCHANGED <<lock, queue, fault, log, error, printed, i>>
  BY DEF ResetOverflow, ResetCursor, LeavesOthers, Typing, TypeOK
<1>2. ReaderFramed(t)
  BY DEF Framed
<1>3. \/ pc[t] = "resetOverflow" /\ pc'[t] = "resetCursor" /\ overflow' = 0
      \/ pc[t] = "resetCursor" /\ pc'[t] = "releaseProcessed" /\ cursor' = 0 /\ overflow' = overflow
  BY DEF ResetOverflow, ResetCursor, Typing, TypeOK
<1>4. t \in Hosts /\ error[t] = "none" /\ PrintedUpTo(t, Len(log))
  BY <1>2, <1>3 DEF ReaderFramed, InProcess
<1>5. PrintedUpTo(t, Len(log))'
  BY <1>1, <1>4 DEF PrintedUpTo
<1>6. ReaderFramed(t)'
  BY <1>1, <1>2, <1>3, <1>4, <1>5 DEF ReaderFramed, InProcess
<1> QED
  BY <1>1, <1>3, <1>6, ReaderStep DEF InProcess

LEMMA ReleaseProcessedFramed ==
  ASSUME Typing, Framed, NEW t \in Threads, Alone(t), unlocked[t] = 0, ReleaseProcessed(t)
  PROVE  Framed'
<1> USE DEF Goto, Unlock, shared, writer, reader, history
<1>1. LeavesOthers(t) /\ UNCHANGED <<cursor, overflow, fault>>
  BY DEF ReleaseProcessed, LeavesOthers, Typing, TypeOK
<1>2. pc[t] = "releaseProcessed" /\ pc'[t] = "idle" /\ i'[t] = 0 /\ log' = <<>> /\ rejected' = FALSE
  BY DEF ReleaseProcessed, Typing, TypeOK
<1>3. overflow = 0 /\ cursor = 0
  BY <1>2 DEF Framed, ReaderFramed
<1>4. LogFramed' /\ End' = 0
  BY <1>2, EmptySeq DEF LogFramed, End
<1>5. AtRest'
  BY <1>1, <1>2, <1>3, <1>4 DEF AtRest, OverflowTold
<1>6. WriterFramed(t)' /\ ReaderFramed(t)'
  BY <1>2 DEF WriterFramed, ReaderFramed, InPrintf, InProcess
<1> QED
  BY <1>1, <1>4, <1>5, <1>6, InsideStep

(* No read leaves the buffer, and the packet that ReadFormat finds is a    *)
(* format.                                                                 *)
LEMMA ReaderStaysInside ==
  ASSUME Typing, Framed, NEW t \in Threads
  PROVE  ~AssertFormatIsPointer(t) /\ ~WildFormat(t) /\ ~ReadOutOfBounds(t)
<1>1. ReaderFramed(t) /\ LogFramed
  BY DEF Framed
<1>2. num \in Nat
  BY QueueAssumption
<1>3. ASSUME pc[t] \in {"readCount", "readFormat"} PROVE i[t] < num
  <2>1. PICK k \in 1 .. Len(log) : i[t] = log[k].start \/ i[t] = log[k].start + 1
    BY <1>1, <1>3 DEF ReaderFramed
  <2>2. log[k].msg \in Messages /\ log[k].start \in Nat /\ End \in Nat
        /\ log[k].start + Size(log[k].msg) <= End /\ End < num
    BY <1>1, MessageInQueue
  <2>3. Size(log[k].msg) \in Nat /\ Size(log[k].msg) >= 2
    BY <2>2, BatchPackets
  <2> DEFINE s == log[k].start
             z == Size(log[k].msg)
  <2> HIDE DEF s, z
  <2>4. s \in Nat /\ z \in Nat /\ z >= 2 /\ s + z <= End /\ (i[t] = s \/ i[t] = s + 1)
    BY <2>1, <2>2, <2>3 DEF s, z
  <2>5. End \in Nat /\ End < num
    BY <2>2
  <2> QED
    BY <1>2, <2>4, <2>5
<1>4. ASSUME pc[t] = "readFormat"
      PROVE  \E m \in Messages : queue[i[t]] = FormatPacket(m)
  <2>1. PICK k \in 1 .. Len(log) : i[t] = log[k].start + 1
    BY <1>1, <1>4 DEF ReaderFramed
  <2> QED
    BY <1>1, <2>1, MessageInQueue
<1>5. ~AssertFormatIsPointer(t) /\ ~WildFormat(t)
  BY <1>4, FormatIsRead DEF AssertFormatIsPointer, WildFormat
<1>6. ASSUME pc[t] = "printArgs", i[t] < RequestEnd(t) PROVE i[t] < num
  <2>1. RequestEnd(t) \in Nat /\ RequestEnd(t) < num
    BY <1>6, AtArguments, ArgumentsEnd
  <2>2. i[t] \in Nat
    BY DEF Typing, TypeOK
  <2> QED
    BY <1>2, <1>6, <2>1, <2>2
<1>7. ~ReadOutOfBounds(t)
  <2> SUFFICES ASSUME ReadOutOfBounds(t) PROVE FALSE
    OBVIOUS
  <2>1. i[t] >= num /\ i[t] \in Nat
    BY DEF ReadOutOfBounds, Typing, TypeOK
  <2>2. ~(i[t] < num)
    BY <1>2, <2>1
  <2>3. pc[t] \in {"readCount", "readFormat", "printArgs"}
    BY DEF ReadOutOfBounds, Stop
  <2>4. pc[t] = "printArgs" => i[t] < RequestEnd(t)
    BY DEF ReadOutOfBounds, WillRead
  <2> QED
    BY <1>3, <1>6, <2>2, <2>3, <2>4
<1> QED
  BY <1>5, <1>7

LEMMA UnclassifiedFramed ==
  ASSUME Typing, Framed, NEW t \in Threads, AssertClassified(t)
  PROVE  Framed'
<1> USE DEF shared, writer, reader, history
<1>1. /\ UNCHANGED <<lock, queue, cursor, overflow, rejected, pc, error, msg, batch, slot, log,
                     i, numPackets, formatStringIndex, left, printed>>
      /\ fault' = "unclassified specifier"
  BY DEF AssertClassified, Stop
<1>2. LogFramed' /\ End' = End
  BY <1>1, LogFramedKept DEF Framed
<1>3. lock' = 0 => AtRest'
  BY <1>1, <1>2 DEF Framed, AtRest, OverflowTold
<1>4. \A u \in Threads : WriterFramed(u)'
  BY <1>1, <1>2, WriterKept DEF Framed
<1>5. \A u \in Threads : ReaderFramed(u)'
  BY <1>1, <1>2, ReaderKept DEF Framed
<1> QED
  BY <1>1, <1>2, <1>3, <1>4, <1>5 DEF Framed

LEMMA ProcessFramed ==
  ASSUME Typing, Framed, NEW t \in Threads, Alone(t), lock = 1, unlocked[t] = 0, ProcessStep(t)
  PROVE  Framed'
BY ScanFramed, ReadCountFramed, ReadFormatFramed, PrintArgFramed, SkipFramed, EndRequestFramed,
   ResetFramed, ReleaseProcessedFramed, ReaderStaysInside, UnclassifiedFramed DEF ProcessStep
------------------------------------------------------------------------------
(* The invariant and the properties that follow from it.                   *)

(* What the lock gives absent contention: whoever is inside is alone there *)
(* and finds it taken, and whoever gets in finds it free and nobody inside. *)
LEMMA LockGives ==
  ASSUME TypeOK, FreshExclusion, UncontendedLock, ~contended, NEW t \in Threads
  PROVE  /\ unlocked[t] = 0
         /\ pc[t] \in Inside => lock = 1 /\ Alone(t)
         /\ lock = 0 => Alone(t)
BY InsideIsInCriticalSection DEF FreshExclusion, Fresh, UncontendedLock, Alone

LEMMA ContentionStays ==
  ASSUME TypeOK, NEW t \in Threads, Call(t) \/ Step(t), contended
  PROVE  contended'
BY LockSteps DEF Enters, Leaves, Spins, Calls, Works

LEMMA StepFraming ==
  Typing /\ FreshExclusion /\ UncontendedLock /\ Framing /\ [Next]_vars => Framing'
<1> SUFFICES ASSUME Typing, FreshExclusion, UncontendedLock, Framing, [Next]_vars, ~contended'
             PROVE  Framed'
  BY DEF Framing
<1>0. TypeOK
  BY DEF Typing
<1>1. CASE UNCHANGED vars
  <2> USE <1>1 DEF vars, shared, writer, reader, history
  <2>1. Framed
    BY DEF Framing
  <2>2. LogFramed' /\ End' = End
    BY <2>1, LogFramedKept DEF Framed
  <2>3. lock' = 0 => AtRest'
    BY <2>1, <2>2 DEF Framed, AtRest, OverflowTold
  <2>4. \A u \in Threads : WriterFramed(u)' /\ ReaderFramed(u)'
    BY <2>1, <2>2, WriterKept, ReaderKept DEF Framed
  <2> QED
    BY <2>1, <2>2, <2>3, <2>4 DEF Framed
<1>2. ASSUME NEW t \in Threads, Call(t) \/ Step(t) PROVE Framed'
  <2>1. ~contended
    BY <1>0, <1>2, ContentionStays
  <2>2. Framed
    BY <2>1 DEF Framing
  <2>3. /\ unlocked[t] = 0
        /\ pc[t] \in Inside => lock = 1 /\ Alone(t)
        /\ lock = 0 => Alone(t)
    BY <1>0, <2>1, LockGives
  <2>4. CASE Call(t)
    BY <2>2, <2>4, CallFramed
  <2>5. CASE Lock(t)
    <3>1. Acquire(t) /\ lock = 0
      BY <2>3, <2>5 DEF Lock, Acquire, FailToAcquire, ExchangeSucceeds
    <3> QED
      BY <2>2, <2>3, <3>1, AcquireFramed
  <2>6. CASE PrintfStep(t)
    <3>1. pc[t] \in Inside
      BY <2>6 DEF PrintfStep, RefuseMessage, MarkOverflow, BeginBatch, LoadCursor, StoreCursor,
                  SetPacket, SetOutOfBounds, Release, Goto, Stop, Inside
    <3> QED
      BY <2>1, <2>2, <2>3, <2>6, <3>1, PrintfFramed
  <2>7. CASE ProcessStep(t)
    <3>1. pc[t] \in Inside
      BY <2>7 DEF ProcessStep, NextRequest, EndScan, ReadCount, ReadFormat, AssertFormatIsPointer,
                  WildFormat, PrintArg, AssertClassified, SkipArgs, EndRequest, ReadOutOfBounds,
                  ResetOverflow, ResetCursor, ReleaseProcessed, Goto, Stop, Inside
    <3> QED
      BY <2>2, <2>3, <2>7, <3>1, ProcessFramed
  <2> QED
    BY <1>2, <2>4, <2>5, <2>6, <2>7 DEF Step
<1> QED
  BY <1>1, <1>2 DEF Next

LEMMA FramingHolds == Spec => []Framing
<1>1. Init => Framing
  BY InitFramed DEF Framing
<1>2. Init => Typing /\ FreshExclusion /\ UncontendedLock
  BY InitTyping
  DEF Init, FreshExclusion, Fresh, InCriticalSection, Writing, Reading, UncontendedLock
<1>3. Typing => TypeOK
  BY DEF Typing
<1> QED
  BY <1>1, <1>2, <1>3, StepTyping, StepFreshExclusion, StepUncontendedLock, StepFraming, PTL
  DEF Spec

(* Until an exchange fails on a held lock the drain finds a format where   *)
(* it asserts one and nobody reads or writes beyond the buffer, for every  *)
(* number of threads, messages and packets.                                *)
THEOREM UncontendedSafeHolds == Spec => []UncontendedSafe
<1>1. Framing => UncontendedSafe
  BY DEF Framing, Framed, UncontendedSafe
<1> QED
  BY <1>1, FramingHolds, PTL

(* Until then the buffer is framed: the messages since the last drain lie  *)
(* back to back from slot 0, a batch in progress continues at their end    *)
(* and has room, and a free queue is at rest.                              *)
THEOREM UncontendedFramingHolds == Spec => []UncontendedFraming
<1>1. ASSUME Framing PROVE UncontendedFraming
  <2> SUFFICES ASSUME ~contended PROVE
        /\ \A k \in DOMAIN log :
             /\ log[k].start = IF k = 1 THEN 0 ELSE log[k-1].start + Size(log[k-1].msg)
             /\ StoredAt(log[k].msg, log[k].start)
        /\ log # <<>> => End < num
        /\ \A t \in Threads : pc[t] \in {"loadCursor", "storeCursor", "setPacket"} =>
             LET stored == Size(msg[t]) - Len(batch[t])
             IN  /\ End + Size(msg[t]) < num
                 /\ pc[t] = "loadCursor" => cursor = End + stored
                 /\ pc[t] # "loadCursor" => slot[t] = End + stored
                 /\ \A p \in 1 .. stored : queue[End + p - 1] = Batch(msg[t])[p]
        /\ lock = 0 => cursor = End /\ (overflow = 1 <=> rejected)
    BY DEF UncontendedFraming
  <2>1. Framed
    BY <1>1 DEF Framing
  <2>2. \A k \in DOMAIN log :
          /\ log[k].start = IF k = 1 THEN 0 ELSE log[k-1].start + Size(log[k-1].msg)
          /\ StoredAt(log[k].msg, log[k].start)
    BY <2>1 DEF Framed, LogFramed
  <2>3. log # <<>> => End < num
    BY <2>1 DEF Framed, LogFramed
  <2>4. ASSUME NEW t \in Threads, pc[t] \in {"loadCursor", "storeCursor", "setPacket"}
        PROVE  LET stored == Size(msg[t]) - Len(batch[t])
               IN  /\ End + Size(msg[t]) < num
                   /\ pc[t] = "loadCursor" => cursor = End + stored
                   /\ pc[t] # "loadCursor" => slot[t] = End + stored
                   /\ \A p \in 1 .. stored : queue[End + p - 1] = Batch(msg[t])[p]
    <3>1. BatchFramed(t)
      BY <2>1, <2>4 DEF Framed, WriterFramed
    <3> QED
      BY <3>1 DEF BatchFramed, Stored
  <2>5. lock = 0 => cursor = End /\ (overflow = 1 <=> rejected)
    BY <2>1 DEF Framed, AtRest, OverflowTold
  <2> QED
    BY <2>2, <2>3, <2>4, <2>5
<1> QED
  BY <1>1, FramingHolds, PTL
------------------------------------------------------------------------------
(* Every call takes effect as in the log of PrintfLog.                     *)

(* A step between the beginning and the return of a call.                  *)
InternalStep(t) ==
  /\ UNCHANGED <<log, rejected>>
  /\ pc[t] # "idle" /\ pc'[t] # "idle"
  /\ LeavesOthers(t)

LEMMA InternalSteps ==
  ASSUME Typing, NEW t \in Threads, Step(t), ~contended'
  PROVE  Release(t) \/ ReleaseProcessed(t) \/ InternalStep(t)
<1> USE DEF Goto, Stop, shared, writer, reader, history, InternalStep, LeavesOthers, Typing, TypeOK
<1>1. CASE Acquire(t)
  BY <1>1 DEF Acquire
<1>2. CASE FailToAcquire(t)
  BY <1>2 DEF FailToAcquire
<1>3. CASE RefuseMessage(t) \/ MarkOverflow(t) \/ BeginBatch(t) \/ LoadCursor(t)
           \/ StoreCursor(t) \/ SetPacket(t) \/ SetOutOfBounds(t)
  BY <1>3 DEF RefuseMessage, MarkOverflow, BeginBatch, LoadCursor, StoreCursor, SetPacket,
              SetOutOfBounds
<1>4. CASE NextRequest(t) \/ EndScan(t) \/ AssertFormatIsPointer(t) \/ WildFormat(t)
           \/ AssertClassified(t) \/ ReadOutOfBounds(t) \/ EndRequest(t) \/ SkipArgs(t)
           \/ ResetOverflow(t) \/ ResetCursor(t)
  BY <1>4 DEF NextRequest, EndScan, AssertFormatIsPointer, WildFormat, AssertClassified,
              ReadOutOfBounds, EndRequest, SkipArgs, ResetOverflow, ResetCursor
<1>5. CASE ReadCount(t)
  BY <1>5 DEF ReadCount
<1>6. CASE ReadFormat(t)
  BY <1>6 DEF ReadFormat
<1>7. CASE PrintArg(t)
  BY <1>7 DEF PrintArg
<1> QED
  BY <1>1, <1>2, <1>3, <1>4, <1>5, <1>6, <1>7 DEF Step, Lock, PrintfStep, ProcessStep

LEMMA InternalStutters ==
  ASSUME NEW t \in Threads, InternalStep(t)
  PROVE  UNCHANGED Log!vars
<1>1. End' = End /\ log' = log /\ rejected' = rejected
  BY DEF InternalStep, End
<1>2. \A u \in Threads :
        /\ (IF pc'[u] = "idle" THEN printed'[u] ELSE <<>>) = IF pc[u] = "idle" THEN printed[u] ELSE <<>>
        /\ (IF pc'[u] = "idle" THEN error'[u] ELSE "pending") = IF pc[u] = "idle" THEN error[u] ELSE "pending"
  BY DEF InternalStep, LeavesOthers
<1> QED
  BY <1>1, <1>2 DEF Log!vars

LEMMA CallBegins ==
  ASSUME Typing, NEW t \in Threads, Call(t)
  PROVE  Log!Begin(t)
<1> USE CallSteps
<1>1. End' = End
  BY DEF End
<1>2. error[t] # "pending"
  BY DEF Typing, TypeOK
<1>3. pc[t] = "idle" /\ pc'[t] # "idle"
  OBVIOUS
<1>4. \A u \in Threads \ {t} : UNCHANGED <<pc[u], error[u], printed[u]>>
  OBVIOUS
<1> QED
  BY <1>1, <1>2, <1>3, <1>4 DEF Log!Begin

LEMMA AppendMessage ==
  ASSUME NEW s \in Seq([msg : Messages, start : Nat]), NEW e \in [msg : Messages, start : Nat],
         NEW r, r = Append(s, e)
  PROVE  [k \in DOMAIN r |-> r[k].msg] = Append([k \in DOMAIN s |-> s[k].msg], e.msg)
<1>1. /\ r \in Seq([msg : Messages, start : Nat]) /\ Len(r) = Len(s) + 1
      /\ \A k \in 1 .. Len(s) : r[k] = s[k]
      /\ r[Len(s) + 1] = e
  BY AppendProperties
<1>2. Len(s) \in Nat /\ DOMAIN s = 1 .. Len(s) /\ DOMAIN r = 1 .. Len(s) + 1
  BY <1>1
<1> DEFINE ms == [k \in DOMAIN s |-> s[k].msg]
<1>3. ms \in Seq(Messages) /\ Len(ms) = Len(s)
  <2>1. \A k \in 1 .. Len(s) : s[k] \in [msg : Messages, start : Nat]
    BY ElementOfSeq
  <2>2. \A k \in 1 .. Len(s) : s[k].msg \in Messages
    BY <2>1
  <2> QED
    BY <1>2, <2>2
<1>4. e.msg \in Messages
  OBVIOUS
<1>5. /\ Append(ms, e.msg) \in Seq(Messages) /\ Len(Append(ms, e.msg)) = Len(s) + 1
      /\ \A k \in 1 .. Len(s) : Append(ms, e.msg)[k] = ms[k]
      /\ Append(ms, e.msg)[Len(s) + 1] = e.msg
  BY <1>3, <1>4, AppendProperties
<1>6. \A k \in 1 .. Len(s) : ms[k] = s[k].msg
  BY <1>2
<1> HIDE DEF ms
<1> DEFINE a == Append(ms, e.msg)
<1>7. a = [k \in 1 .. Len(s) + 1 |-> a[k]]
  BY <1>5
<1>8. ASSUME NEW k \in 1 .. Len(s) + 1 PROVE a[k] = r[k].msg
  <2>0. k \in 1 .. Len(s) \/ k = Len(s) + 1
    BY <1>2
  <2>1. CASE k \in 1 .. Len(s)
    BY <1>1, <1>5, <1>6, <2>1
  <2>2. CASE k = Len(s) + 1
    BY <1>1, <1>5, <2>2
  <2> QED
    BY <2>0, <2>1, <2>2
<1> HIDE DEF a
<1>9. a = [k \in DOMAIN r |-> r[k].msg]
  BY <1>2, <1>7, <1>8
<1> QED
  BY <1>9 DEF a, ms

(* Log sees messages as the detailed specification does. *)
LEMMA LogMessages ==
  \A m : Log!Size(m) = Size(m) /\ Log!Render(m) = Render(m)
BY DEF Log!Size, Log!Count, Size, Count, Log!Render, Log!Shown, Render, Shown

(* hsa_printf takes effect when it releases the lock.                      *)
LEMMA ReleaseTakesEffect ==
  ASSUME Typing, Framed, ~contended, NEW t \in Threads, Release(t)
  PROVE  t \in Writers /\ \E m \in Messages : Log!Accept(t, m) \/ Log!Reject(t, m)
<1> USE DEF Goto, Unlock, shared, writer, reader, history
<1>1. WriterFramed(t) /\ LogFramed /\ End \in Nat
  BY EndType DEF Framed
<1>2. pc[t] = "release" /\ pc'[t] = "idle" /\ UNCHANGED <<error, printed, cursor>>
  BY DEF Release, Typing, TypeOK
<1>3. t \in Writers /\ printed[t] = <<>>
  BY <1>1, <1>2 DEF WriterFramed, InPrintf
<1>4. msg[t] \in Messages /\ Size(msg[t]) \in Nat
  BY <1>2, SizeType DEF Typing, WriterLocals
<1>m. PICK m \in Messages : m = msg[t]
  BY <1>4
<1>5. \A u \in Threads \ {t} : pc'[u] = pc[u]
  BY DEF Release, Typing, TypeOK
<1> DEFINE output == [u \in Threads |-> IF pc[u] = "idle" THEN printed[u] ELSE <<>>]
           reply  == [u \in Threads |-> IF pc[u] = "idle" THEN error[u] ELSE "pending"]
<1>6. output' = output
  BY <1>2, <1>3, <1>5
<1>7. reply[t] = "pending" /\ reply' = [reply EXCEPT ![t] = error[t]]
  BY <1>2, <1>5
<1> HIDE DEF output, reply
<1>8. CASE MessageStored(t)
  <2> DEFINE entry == [msg |-> msg[t], start |-> End]
  <2>1. error[t] = "success" /\ cursor = End + Size(msg[t]) /\ End + Size(msg[t]) < num
    BY <1>8 DEF MessageStored
  <2>2. log' = Append(log, entry)
    <3>1. cursor - Size(msg[t]) = End
      BY <1>1, <1>4, <2>1
    <3> QED
      BY <2>1, <3>1 DEF Release
  <2>3. rejected' = rejected
    <3>1. rejected \in BOOLEAN /\ rejected' = (rejected \/ FALSE)
      BY <2>1 DEF Release, Typing, TypeOK
    <3> QED
      BY <3>1
  <2>4. entry \in [msg : Messages, start : Nat] /\ log \in Seq([msg : Messages, start : Nat])
    BY <1>1, <1>4 DEF LogFramed
  <2>5. End' = End + Size(m)
    <3>1. Len(log') = Len(log) + 1 /\ log'[Len(log) + 1] = entry /\ log' # <<>>
      BY <2>2, <2>4, AppendProperties
    <3> QED
      BY <1>m, <3>1 DEF End
  <2>6. [k \in DOMAIN log' |-> log'[k].msg] = Append([k \in DOMAIN log |-> log[k].msg], m)
    BY <1>m, <2>2, <2>4, AppendMessage
  <2>7. Log!Fits(m) /\ Log!Size(m) = Size(m)
    BY <1>m, <2>1, LogMessages DEF Log!Fits
  <2>8. Log!Accept(t, m)
    BY <1>6, <1>7, <2>1, <2>3, <2>5, <2>6, <2>7 DEF Log!Accept, output, reply
  <2> QED
    BY <1>3, <2>8
<1>9. CASE MessageRefused(t)
  <2>1. error[t] = "overflow" /\ End + Size(msg[t]) >= num
    BY <1>9 DEF MessageRefused
  <2>2. log' = log /\ rejected' = TRUE
    BY <2>1 DEF Release
  <2>3. End' = End
    BY <2>2 DEF End
  <2>4. ~Log!Fits(m)
    BY <1>1, <1>4, <1>m, <2>1, QueueAssumption, LogMessages DEF Log!Fits
  <2>5. Log!Reject(t, m)
    BY <1>6, <1>7, <2>1, <2>2, <2>3, <2>4 DEF Log!Reject, output, reply
  <2> QED
    BY <1>3, <2>5
<1> QED
  BY <1>1, <1>2, <1>8, <1>9 DEF WriterFramed

(* hsa_process_printf_queue takes effect when it releases the lock.        *)
LEMMA DrainTakesEffect ==
  ASSUME Typing, Framed, NEW t \in Threads, ReleaseProcessed(t)
  PROVE  t \in Hosts /\ Log!Drain(t)
<1> USE DEF Goto, Unlock, shared, writer, reader, history
<1>1. ReaderFramed(t) /\ LogFramed
  BY DEF Framed
<1>2. pc[t] = "releaseProcessed" /\ pc'[t] = "idle" /\ UNCHANGED <<error, printed>>
  BY DEF ReleaseProcessed, Typing, TypeOK
<1>3. t \in Hosts /\ error[t] = "none" /\ PrintedUpTo(t, Len(log))
  BY <1>1, <1>2 DEF ReaderFramed, InProcess
<1>4. \A u \in Threads \ {t} : pc'[u] = pc[u]
  BY DEF ReleaseProcessed, Typing, TypeOK
<1>5. log' = <<>> /\ rejected' = FALSE
  BY DEF ReleaseProcessed
<1>6. End' = 0 /\ [k \in DOMAIN log' |-> log'[k].msg] = <<>>
  BY <1>5 DEF End
<1> DEFINE accepted == [k \in DOMAIN log |-> log[k].msg]
           output == [u \in Threads |-> IF pc[u] = "idle" THEN printed[u] ELSE <<>>]
           reply  == [u \in Threads |-> IF pc[u] = "idle" THEN error[u] ELSE "pending"]
<1>7. printed[t] = [k \in 1 .. Len(accepted) |-> Render(accepted[k])]
  <2>1. Len(log) \in Nat /\ DOMAIN log = 1 .. Len(log)
    BY <1>1, EndType
  <2>2. Len(accepted) = Len(log) /\ \A k \in 1 .. Len(log) : accepted[k] = log[k].msg
    BY <2>1
  <2> HIDE DEF accepted
  <2>3. printed[t] = [k \in 1 .. Len(log) |-> Render(log[k].msg)]
    BY <1>3 DEF PrintedUpTo
  <2> QED
    BY <2>2, <2>3
<1> HIDE DEF accepted
<1>8. output' = [output EXCEPT ![t] = [k \in 1 .. Len(accepted) |-> Log!Render(accepted[k])]]
  <2>1. output' = [output EXCEPT ![t] = printed[t]]
    BY <1>2, <1>4
  <2>2. printed[t] = [k \in 1 .. Len(accepted) |-> Log!Render(accepted[k])]
    BY <1>7, LogMessages
  <2> QED
    BY <2>1, <2>2
<1>9. reply[t] = "pending" /\ reply' = [reply EXCEPT ![t] = "none"]
  BY <1>2, <1>3, <1>4
<1> HIDE DEF output, reply
<1>10. Log!Drain(t)
  BY <1>5, <1>6, <1>8, <1>9 DEF Log!Drain, accepted, output, reply
<1> QED
  BY <1>3, <1>10

LEMMA StepImplements ==
  /\ Typing /\ FreshExclusion /\ UncontendedLock /\ Framing /\ [Next]_vars /\ ~contended'
  => [Log!Next]_(Log!vars)
<1> SUFFICES ASSUME Typing, FreshExclusion, UncontendedLock, Framing, [Next]_vars, ~contended'
             PROVE  [Log!Next]_(Log!vars)
  OBVIOUS
<1>1. CASE UNCHANGED vars
  <2>1. End' = End /\ UNCHANGED <<log, rejected, pc, error, printed>>
    BY <1>1 DEF vars, shared, reader, history, End
  <2> QED
    BY <2>1 DEF Log!vars
<1>2. ASSUME NEW t \in Threads, Call(t) \/ Step(t) PROVE [Log!Next]_(Log!vars)
  <2>1. ~contended
    BY <1>2, ContentionStays DEF Typing
  <2>2. Framed
    BY <2>1 DEF Framing
  <2>3. CASE Call(t)
    BY <2>3, CallBegins DEF Log!Next, Log!Threads, Threads
  <2>4. CASE Step(t)
    <3>1. CASE Release(t)
      <4>1. t \in Writers /\ \E m \in Messages : Log!Accept(t, m) \/ Log!Reject(t, m)
        BY <2>1, <2>2, <3>1, ReleaseTakesEffect, Zenon
      <4> QED
        BY <4>1, Zenon DEF Log!Next
    <3>2. CASE ReleaseProcessed(t)
      BY <2>2, <3>2, DrainTakesEffect DEF Log!Next
    <3>3. CASE InternalStep(t)
      BY <3>3, InternalStutters
    <3> QED
      BY <2>4, <3>1, <3>2, <3>3, InternalSteps
  <2> QED
    BY <1>2, <2>3, <2>4
<1> QED
  BY <1>1, <1>2 DEF Next

LEMMA InitImplements == Init => Log!Init
BY DEF Init, Log!Init, Log!Threads, Threads, End

(* Until an exchange fails on a held lock every call of the two functions  *)
(* takes effect at one instant, when it releases the lock: a message is    *)
(* stored whole or refused, a drain prints all of the log and empties it.  *)
THEOREM UncontendedStepsHold == Spec => UncontendedSteps
<1>1. Typing /\ FreshExclusion /\ UncontendedLock /\ Framing /\ [Next]_vars
        => [~contended' => [Log!Next]_(Log!vars)]_vars
  BY StepImplements
<1>2. Init => Typing /\ FreshExclusion /\ UncontendedLock
  BY InitTyping
  DEF Init, FreshExclusion, Fresh, InCriticalSection, Writing, Reading, UncontendedLock
<1>3. Typing => TypeOK
  BY DEF Typing
<1> QED
  BY <1>1, <1>2, <1>3, StepTyping, StepFreshExclusion, StepUncontendedLock, FramingHolds, PTL
  DEF Spec, UncontendedSteps

(* One thread finds the lock as it left it. *)
Lone == \A t, u \in Threads : t = u

LEMMA StepUncontended ==
  Lone /\ TypeOK /\ UncontendedLock /\ ~contended /\ [Next]_vars => ~contended'
<1> SUFFICES ASSUME Lone, TypeOK, UncontendedLock, ~contended, [Next]_vars PROVE ~contended'
  OBVIOUS
<1>1. CASE UNCHANGED vars
  BY <1>1 DEF vars, history
<1>2. ASSUME NEW t \in Threads, Call(t) \/ Step(t) PROVE ~contended'
  <2>1. CASE FailToAcquire(t)
    <3>1. pc[t] \in {"acquire", "acquireToProcess"} /\ lock # 0
      BY <2>1 DEF FailToAcquire, ExchangeSucceeds, UncontendedLock
    <3>2. \A u \in Threads : pc[u] \notin Inside
      BY <3>1 DEF Lone, Inside
    <3> QED
      BY <3>1, <3>2 DEF TypeOK, UncontendedLock
  <2>2. CASE ~FailToAcquire(t)
    <3> USE DEF history
    <3>1. CASE Call(t) \/ Acquire(t)
      BY <3>1 DEF Call, CallPrintf, CallProcess, Acquire
    <3>2. CASE PrintfStep(t)
      BY <3>2 DEF PrintfStep, RefuseMessage, MarkOverflow, BeginBatch, LoadCursor, StoreCursor,
                  SetPacket, SetOutOfBounds, Release, Stop
    <3>3. CASE ProcessStep(t)
      BY <3>3 DEF ProcessStep, NextRequest, EndScan, ReadCount, ReadFormat, AssertFormatIsPointer,
                  WildFormat, PrintArg, AssertClassified, SkipArgs, EndRequest, ReadOutOfBounds,
                  ResetOverflow, ResetCursor, ReleaseProcessed, Stop
    <3> QED
      BY <1>2, <2>2, <3>1, <3>2, <3>3 DEF Step, Lock
  <2> QED
    BY <2>1, <2>2
<1> QED
  BY <1>1, <1>2 DEF Next

(* A program that uses the queue from a single thread, as the test of the  *)
(* repository does, has the log it expects: the detailed specification     *)
(* implements PrintfLog, for every set of messages and size of the buffer. *)
THEOREM SerialImplementsLog ==
  ASSUME Lone
  PROVE  Spec => ImplementsLog
<1>1. Init => Typing /\ FreshExclusion /\ UncontendedLock /\ Framing /\ ~contended
  BY InitTyping, InitFramed
  DEF Init, FreshExclusion, Fresh, InCriticalSection, Writing, Reading, UncontendedLock, Framing
<1>2. Typing => TypeOK
  BY DEF Typing
<1>3. TypeOK /\ UncontendedLock /\ ~contended /\ [Next]_vars => ~contended'
  BY StepUncontended
<1> QED
  BY <1>1, <1>2, <1>3, InitImplements, StepTyping, StepFreshExclusion, StepUncontendedLock,
     StepFraming, StepImplements, PTL
  DEF Spec, ImplementsLog, Log!Spec
=============================================================================
