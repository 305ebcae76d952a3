----------------------------- MODULE MemTestProofs -----------------------------
(***************************************************************************)
(* Proofs about MemTest: the types of its variables, that the errors a     *)
(* test counts are faults of its transfers, and that every test is         *)
(* reported with the time of its own runs, for every size of the vector,   *)
(* number of iterations, build and fault.                                  *)
(***************************************************************************)
EXTENDS MemTest, SequenceTheorems, SetSums, TLAPS

Numbers == Int \cup {Junk, NaN}
Testing == pc \in {"tests", "transfer", "stop"}
TimedRun == [name : Range(Tests), startTime : 1 .. MaxTime, endTime : 0 .. MaxTime]

(* What the run of a test works on.                                        *)
RunTyping ==
  /\ v \in [Elements -> Numbers] /\ NumElements >= 2
  /\ pc # "tests" => InBuild /\ MoreRuns /\ timer \in 1 .. Len(timers)
  /\ pc # "stop" => spoilt <= i
  /\ t <= 4 => v = Generated

Typing ==
  /\ TypeOK
  /\ argv \in Seq(DOMAIN Atoi)
  /\ clock \in 1 .. MaxTime
  /\ rand \in Nat
  /\ pc \in {"arguments", "generate"} =>
       t = 1 /\ i = 0 /\ error = 0 /\ spoilt = 0 /\ spoiltNaN = 0
  /\ Testing => RunTyping
------------------------------------------------------------------------------
(* The tests and the elements.                                             *)

LEMMA TestOrder ==
  /\ Len(Tests) = 8
  /\ \A k \in 1 .. 8 : Tests[k] \in Range(Tests) /\ (Tests[k] \in HostToDevice <=> k <= 4)
<1>1. Len(Tests) = 8 /\ DOMAIN Tests = 1 .. 8
  BY DEF Tests
<1>2. \A k \in 1 .. 8 : Tests[k] \in Range(Tests)
  BY <1>1 DEF Range
<1>3. \A k \in 1 .. 8 : Tests[k] \in HostToDevice <=> k <= 4
  BY DEF Tests, HostToDevice
<1> QED
  BY <1>1, <1>2, <1>3

(* A vector that is not empty has two elements or more: a size is a number *)
(* of megabytes, and so is what is left of it in a word.                   *)
LEMMA ElementCount ==
  ASSUME memSizeMB \in Nat
  PROVE  /\ NumElements \in Nat
         /\ NumElements > 0 => NumElements >= 2
<1> DEFINE size == memSizeMB * MB
           rest == size % WordSize
<1>1. MB \in Nat /\ MB >= 8 /\ WordSize \in Nat /\ WordSize > MB /\ WordSize % MB = 0
  BY MemTestAssumption DEF SizeofFloat
<1>2. PICK q \in Int : WordSize = q * MB
  <2>1. WordSize = MB * (WordSize \div MB) + (WordSize % MB) /\ WordSize \div MB \in Int
    BY <1>1
  <2> QED
    BY <1>1, <2>1
<1>3. size \in Nat
  BY <1>1
<1>4. PICK d \in Int : size = WordSize * d + rest /\ rest \in 0 .. WordSize - 1
  <2> HIDE DEF size
  <2>1. size = WordSize * (size \div WordSize) + (size % WordSize) /\ size \div WordSize \in Int
        /\ size % WordSize \in 0 .. WordSize - 1
    BY <1>1, <1>3
  <2> QED
    BY <2>1
<1>5. rest = MB * (memSizeMB - q * d)
  BY <1>1, <1>2, <1>4
<1>6. rest > 0 => rest >= MB
  BY <1>1, <1>4, <1>5
<1>7. NumElements = rest \div 4
  BY DEF NumElements, SizeofFloat
<1> HIDE DEF rest
<1>8. rest \in Nat /\ (rest > 0 => rest >= 8)
  BY <1>1, <1>4, <1>6
<1> QED
  BY <1>7, <1>8
------------------------------------------------------------------------------
(* The types.                                                              *)

LEMMA InitTyping == Init => Typing
<1> SUFFICES ASSUME Init PROVE Typing
  OBVIOUS
<1>1. /\ argv \in Seq(DOMAIN Atoi) /\ memSizeMB \in Nat /\ numIter \in Nat /\ 1 \in 1 .. MaxTime
  BY MemTestAssumption, TimeAssumption DEF Init
<1>2. n \in 1 .. Len(argv) + 1
  <2>1. Len(argv) \in Nat
    BY <1>1, LenProperties
  <2> QED
    BY <2>1 DEF Init
<1>3. timers = <<>> /\ clock = 1
  BY DEF Init, QueueInit
<1>4. t \in 1 .. Len(Tests) + 1
  BY TestOrder DEF Init
<1>5. v \in [DOMAIN v -> Int \cup {Junk, NaN}]
  BY DEF Init
<1>6. timers \in Seq([name : Range(Tests), startTime : 1 .. MaxTime, endTime : 0 .. MaxTime])
      /\ timer \in 0 .. Len(timers)
  BY <1>3, EmptySeq DEF Init
<1>7. oclSetup \in BOOLEAN
  BY DEF Init, OpenCLSetup
<1>8. TypeOK
  BY <1>1, <1>2, <1>4, <1>5, <1>6, <1>7 DEF Init, TypeOK
<1> QED
  BY <1>1, <1>3, <1>8 DEF Init, Typing, Testing

LEMMA ArgsTyping ==
  ASSUME Typing,
         ParseMemSize \/ ParseIterations \/ SkipArg \/ Usage \/ EndArgs \/ WriteOutOfBounds
  PROVE  Typing'
<1> USE DEF Goto, program, counts, run, output, history, queueVars
<1>1. /\ UNCHANGED <<argv, build, oclSetup, v, t, i, error, rand, timer, timers, clock, spoilt, spoiltNaN>>
      /\ pc \in {"arguments", "generate"} /\ pc' \in {"arguments", "generate", "exited", "out of bounds"}
  BY DEF ParseMemSize, ParseIterations, SkipArg, Usage, EndArgs, WriteOutOfBounds
<1>2. i = 0 /\ i' = 0
  BY <1>1 DEF Typing
<1>3. Len(argv) \in Nat /\ n \in 1 .. Len(argv) + 1 /\ memSizeMB \in Nat /\ numIter \in Nat
  BY LenProperties DEF Typing, TypeOK
<1>4. n' \in 1 .. Len(argv) + 1
  <2>1. \/ n < Len(argv) /\ n' = n + 2
        \/ n <= Len(argv) /\ n' = n + 1
        \/ n' = n
    BY DEF ParseMemSize, ParseIterations, SkipArg, Usage, EndArgs, WriteOutOfBounds
  <2>2. n \in Nat /\ n >= 1 /\ n <= Len(argv) + 1 /\ Len(argv) \in Nat
    BY <1>3
  <2>3. n' \in Nat /\ n' >= 1 /\ n' <= Len(argv) + 1
    BY <2>1, <2>2
  <2> QED
    BY <2>2, <2>3
<1>5. n < Len(argv) => Atoi[argv[n + 1]] \in Nat
  <2> SUFFICES ASSUME n < Len(argv) PROVE Atoi[argv[n + 1]] \in Nat
    OBVIOUS
  <2>1. n + 1 \in 1 .. Len(argv)
    BY <1>3
  <2>2. argv[n + 1] \in DOMAIN Atoi
    BY <2>1, ElementOfSeq DEF Typing
  <2> QED
    BY <2>2, MemTestAssumption
<1>6. memSizeMB' \in Nat /\ numIter' \in Nat
  BY <1>3, <1>5 DEF ParseMemSize, ParseIterations, SkipArg, Usage, EndArgs, WriteOutOfBounds
<1>7. i' \in 0 .. numIter'
  BY <1>2, <1>6
<1>8. TypeOK'
  BY <1>1, <1>4, <1>6, <1>7 DEF Typing, TypeOK
<1> QED
  BY <1>1, <1>8 DEF Typing, Testing

(* What stays as it is after the arguments are read. *)
LEMMA SameElements ==
  ASSUME UNCHANGED program
  PROVE  /\ NumElements' = NumElements /\ Elements' = Elements /\ Generated' = Generated
         /\ UNCHANGED <<argv, build, oclSetup, memSizeMB, numIter, n>>
<1>1. UNCHANGED <<argv, build, oclSetup, memSizeMB, numIter, n>>
  BY DEF program
<1>2. NumElements' = NumElements
  BY <1>1 DEF NumElements
<1>3. Elements' = Elements
  BY <1>2 DEF Elements
<1> QED
  BY <1>1, <1>2, <1>3 DEF Generated

LEMMA GeneratedType ==
  ASSUME NumElements \in Nat
  PROVE  /\ Generated \in [Elements -> Numbers]
         /\ \A k \in Elements : k \in Int /\ Generated[k] = IF k = NumElements - 1 THEN 0 ELSE k
<1>1. \A k \in Elements : k \in Int
  BY DEF Elements
<1> QED
  BY <1>1 DEF Generated, Numbers

LEMMA GenerateTyping ==
  ASSUME Typing, Generate
  PROVE  Typing' /\ v' = Generated
<1> USE DEF program, counts, history, queueVars
<1>1. /\ UNCHANGED <<argv, oclSetup, memSizeMB, numIter, n, t, i, error, rand, timer, timers, clock, spoilt, spoiltNaN>>
      /\ pc = "generate" /\ pc' = "tests" /\ v' = Generated /\ NumElements > 0
  BY DEF Generate, Goto
<1>2. NumElements \in Nat /\ NumElements >= 2
  BY <1>1, ElementCount DEF Typing, TypeOK
<1>3. NumElements' = NumElements /\ Elements' = Elements /\ Generated' = Generated
  BY SameElements DEF Generate
<1>4. v' \in [Elements -> Numbers]
  BY <1>1, <1>2, GeneratedType
<1>5. TypeOK'
  BY <1>1, <1>4 DEF Typing, TypeOK, Numbers
<1>6. RunTyping'
  BY <1>1, <1>2, <1>3, <1>4 DEF RunTyping, Typing
<1> QED
  BY <1>1, <1>5, <1>6 DEF Typing, Testing

(* The current test has a number. *)
LEMMA CurrentTest ==
  ASSUME TypeOK
  PROVE  /\ t \in 1 .. 9 /\ Len(Tests) = 8
         /\ t <= Len(Tests) => Test \in Range(Tests) /\ (Test \in HostToDevice <=> t <= 4)
<1>1. t \in 1 .. Len(Tests) + 1
  BY DEF TypeOK
<1>2. Len(Tests) = 8
  BY TestOrder
<1>3. t \in 1 .. 9
  BY <1>1, <1>2
<1>4. t <= Len(Tests) => t \in 1 .. 8
  BY <1>2, <1>3
<1> QED
  BY <1>2, <1>3, <1>4, TestOrder DEF Test

LEMMA SkipTestTyping ==
  ASSUME Typing, SkipTest \/ EndTest
  PROVE  Typing'
<1> USE DEF run, history, queueVars
<1>1. /\ UNCHANGED <<queueVars, clock, program, run>> /\ pc = "tests" /\ pc' = "tests" /\ t' = t + 1
      /\ t <= Len(Tests)
      /\ (UNCHANGED <<i, error, spoilt, spoiltNaN>>) \/ (i' = 0 /\ error' = 0 /\ spoilt' = 0 /\ spoiltNaN' = 0)
  BY DEF SkipTest, EndTest, Goto, InBuild
<1>2. t' \in 1 .. Len(Tests) + 1
  <2>1. t \in 1 .. 9 /\ Len(Tests) = 8
    BY CurrentTest DEF Typing
  <2> QED
    BY <1>1, <2>1
<1>3. i' \in 0 .. numIter' /\ spoilt' \in 0 .. i' + 1 /\ spoiltNaN' \in 0 .. spoilt' /\ error' \in Nat
  <2>1. /\ i \in 0 .. numIter /\ spoilt \in 0 .. i + 1 /\ spoiltNaN \in 0 .. spoilt /\ error \in Nat
        /\ numIter \in Nat
    BY DEF Typing, TypeOK
  <2>2. numIter' = numIter
    BY <1>1, SameElements
  <2>3. CASE UNCHANGED <<i, error, spoilt, spoiltNaN>>
    BY <2>1, <2>2, <2>3
  <2>4. CASE i' = 0 /\ error' = 0 /\ spoilt' = 0 /\ spoiltNaN' = 0
    <3>1. 0 \in 0 .. numIter /\ 0 \in 0 .. 0 + 1 /\ 0 \in 0 .. 0
      BY <2>1
    <3> QED
      BY <2>2, <2>4, <3>1
  <2> QED
    BY <1>1, <2>3, <2>4
<1>4. TypeOK'
  BY <1>1, <1>2, <1>3, SameElements DEF Typing, TypeOK
<1>5. RunTyping /\ spoilt' <= i'
  BY <1>1 DEF Typing, Testing, RunTyping
<1>6. RunTyping'
  <2>1. t \in 1 .. 9
    BY CurrentTest DEF Typing
  <2>2. t' <= 4 => t <= 4
    BY <1>1, <2>1
  <2>3. v' = v /\ pc' = "tests"
    BY <1>1 DEF run
  <2> QED
    BY <1>5, <2>2, <2>3, SameElements, <1>1 DEF RunTyping
<1> QED
  BY <1>1, <1>4, <1>6, SameElements DEF Typing, Testing

LEMMA BeginRunTyping ==
  ASSUME Typing, BeginRun
  PROVE  Typing'
<1>1. /\ UNCHANGED <<clock, program, counts, v, history>> /\ pc = "tests" /\ pc' = "transfer"
      /\ InBuild /\ MoreRuns /\ timer' = Len(timers) + 1
      /\ timers' = Append(timers, [name |-> Test, startTime |-> clock, endTime |-> 0])
      /\ rand' \in {rand} \cup Rands
  BY DEF BeginRun, Goto, StartSimpleTimer
<1>2. UNCHANGED <<t, i, error, spoilt, spoiltNaN>>
  BY <1>1 DEF counts, history
<1>3. clock \in 1 .. MaxTime /\ MaxTime \in Nat /\ timers \in Seq(TimedRun)
  BY TimeAssumption DEF Typing, TypeOK, TimedRun
<1>4. Test \in Range(Tests)
  BY <1>1, CurrentTest DEF InBuild, Typing
<1>5. [name |-> Test, startTime |-> clock, endTime |-> 0] \in TimedRun
  BY <1>3, <1>4 DEF TimedRun
<1>6. timers' \in Seq(TimedRun) /\ Len(timers') = Len(timers) + 1 /\ Len(timers) \in Nat
  BY <1>1, <1>3, <1>5, AppendProperties, LenProperties
<1>7. timer' \in 1 .. Len(timers')
  BY <1>1, <1>6
<1>8. rand' \in Nat
  BY <1>1, MemTestAssumption DEF Typing
<1>9. TypeOK'
  <2>1. timer' \in 0 .. Len(timers')
    BY <1>6, <1>7
  <2> QED
    BY <1>1, <1>2, <1>6, <2>1, SameElements DEF Typing, TypeOK, TimedRun
<1>10. RunTyping
  BY <1>1 DEF Typing, Testing
<1>11. InBuild' /\ MoreRuns'
  BY <1>1, <1>2, SameElements DEF InBuild, MoreRuns, Test
<1>12. RunTyping'
  BY <1>1, <1>2, <1>7, <1>10, <1>11, SameElements DEF RunTyping
<1> QED
  BY <1>1, <1>3, <1>8, <1>9, <1>12, SameElements DEF Typing, Testing

LEMMA GeneratedNumbers ==
  ASSUME NumElements \in Nat
  PROVE  Generated \in [Elements -> Int]
<1>1. \A k \in Elements : k \in Int
  BY DEF Elements
<1> QED
  BY <1>1 DEF Generated

(* What a transfer of numbers does: nothing, or one element is spoilt.      *)
LEMMA Spoiling ==
  ASSUME NEW sent \in [Elements -> Int], NEW before \in [Elements -> Numbers],
         NEW arrived \in Arrivals(sent, before), Spoil(sent, arrived)
  PROVE  /\ arrived \in [Elements -> Numbers]
         /\ \/ arrived = sent /\ spoilt' = spoilt /\ spoiltNaN' = spoiltNaN
            \/ \E k \in Elements, x \in Numbers :
                 /\ arrived = [sent EXCEPT ![k] = x] /\ x # sent[k]
                 /\ spoilt' = spoilt + 1
                 /\ spoiltNaN' = IF x = NaN THEN spoiltNaN + 1 ELSE spoiltNaN
<1>1. Int \subseteq Numbers /\ Junk \in Numbers /\ NaN \in Numbers /\ NaN \notin Int
  BY MemTestAssumption DEF Numbers
<1>2. arrived = sent \/ \E k \in Elements, x \in Numbers : arrived = [sent EXCEPT ![k] = x]
  BY <1>1 DEF Arrivals
<1>3. arrived \in [Elements -> Numbers]
  BY <1>1, <1>2
<1>4. CASE arrived = sent
  <2>1. \A k \in Elements : arrived[k] # NaN
    BY <1>1, <1>4
  <2> QED
    BY <1>3, <1>4, <2>1 DEF Spoil
<1>5. CASE arrived # sent
  <2>1. PICK k \in Elements, x \in Numbers : arrived = [sent EXCEPT ![k] = x]
    BY <1>2, <1>5
  <2>2. x # sent[k]
    BY <1>5, <2>1
  <2>3. (\E j \in Elements : arrived[j] = NaN) <=> x = NaN
    BY <1>1, <2>1
  <2>4. spoilt' = spoilt + 1 /\ spoiltNaN' = IF x = NaN THEN spoiltNaN + 1 ELSE spoiltNaN
    BY <1>5, <2>3 DEF Spoil
  <2> QED
    BY <1>3, <2>1, <2>2, <2>4
<1> QED
  BY <1>4, <1>5

LEMMA SpoiltTyping ==
  ASSUME NEW sent \in [Elements -> Int], NEW before \in [Elements -> Numbers],
         NEW arrived \in Arrivals(sent, before), Spoil(sent, arrived),
         i \in Nat, spoilt \in 0 .. i, spoiltNaN \in 0 .. spoilt
  PROVE  spoilt' \in 0 .. i + 1 /\ spoiltNaN' \in 0 .. spoilt'
<1>1. (spoilt' = spoilt \/ spoilt' = spoilt + 1)
      /\ (spoiltNaN' = spoiltNaN \/ (spoilt' = spoilt + 1 /\ spoiltNaN' = spoiltNaN + 1))
  BY Spoiling
<1> QED
  BY <1>1

LEMMA SentNumbers ==
  ASSUME Typing
  PROVE  [k \in Elements |-> rand + k] \in [Elements -> Int]
<1>1. \A k \in Elements : rand + k \in Int
  BY DEF Elements, Typing
<1> QED
  BY <1>1

LEMMA TransferTyping ==
  ASSUME Typing, TransferToDevice \/ TransferToHost
  PROVE  Typing'
<1>1. /\ UNCHANGED <<timers, clock, program, counts, rand, timer>>
      /\ pc = "transfer" /\ pc' = "stop"
  BY DEF TransferToDevice, TransferToHost, Goto, queueVars
<1>2. RunTyping /\ InBuild /\ MoreRuns
  BY <1>1 DEF Typing, Testing, RunTyping
<1>3. UNCHANGED <<t, i, error>>
  BY <1>1 DEF counts
<1>4. i \in Nat /\ spoilt \in 0 .. i /\ spoiltNaN \in 0 .. spoilt
  <2>1. i \in 0 .. numIter /\ spoilt \in 0 .. i + 1 /\ spoiltNaN \in 0 .. spoilt /\ spoilt <= i
    BY <1>1, <1>2 DEF Typing, TypeOK, RunTyping
  <2> QED
    BY <2>1
<1>5. NumElements \in Nat
  BY ElementCount DEF Typing, TypeOK
<1>6. /\ v' \in [Elements -> Numbers] /\ (t <= 4 => v' = Generated)
      /\ spoilt' \in 0 .. i + 1 /\ spoiltNaN' \in 0 .. spoilt'
  <2>1. CASE TransferToDevice
    <3>1. Test \in HostToDevice /\ v' = v
      BY <2>1 DEF TransferToDevice
    <3>2. t <= 4
      BY <1>2, <3>1, CurrentTest DEF Typing, InBuild
    <3>3. v = Generated /\ v \in [Elements -> Int]
      BY <1>2, <1>5, <3>2, GeneratedNumbers DEF RunTyping
    <3>4. [k \in Elements |-> Junk] \in [Elements -> Numbers]
      BY DEF Numbers
    <3>5. \E arrived \in Arrivals(v, [k \in Elements |-> Junk]) : Spoil(v, arrived)
      BY <2>1 DEF TransferToDevice
    <3>6. spoilt' \in 0 .. i + 1 /\ spoiltNaN' \in 0 .. spoilt'
      BY <1>4, <3>3, <3>4, <3>5, SpoiltTyping
    <3> QED
      BY <1>2, <3>1, <3>2, <3>3, <3>6 DEF RunTyping
  <2>2. CASE TransferToHost
    <3> DEFINE sent == [k \in Elements |-> rand + k]
    <3>1. Test \notin HostToDevice /\ v' \in Arrivals(sent, v) /\ Spoil(sent, v')
      BY <2>2 DEF TransferToHost
    <3>2. ~ (t <= 4)
      BY <1>2, <3>1, CurrentTest DEF Typing, InBuild
    <3>3. sent \in [Elements -> Int] /\ v \in [Elements -> Numbers]
      BY <1>2, SentNumbers DEF RunTyping
    <3> HIDE DEF sent
    <3>4. v' \in [Elements -> Numbers]
      BY <3>1, <3>3, Spoiling
    <3>5. spoilt' \in 0 .. i + 1 /\ spoiltNaN' \in 0 .. spoilt'
      BY <1>4, <3>1, <3>3, SpoiltTyping
    <3> QED
      BY <3>2, <3>4, <3>5
  <2> QED
    BY <2>1, <2>2
<1>7. v' \in [DOMAIN v' -> Int \cup {Junk, NaN}]
  BY <1>6 DEF Numbers
<1>8. TypeOK'
  BY <1>1, <1>3, <1>6, <1>7, SameElements DEF Typing, TypeOK
<1>9. InBuild' /\ MoreRuns'
  BY <1>1, <1>2, <1>3, SameElements DEF InBuild, MoreRuns, Test
<1>10. RunTyping'
  BY <1>1, <1>2, <1>3, <1>6, <1>9, SameElements DEF RunTyping
<1> QED
  BY <1>1, <1>8, <1>10, SameElements DEF Typing, Testing

LEMMA EndRunTyping ==
  ASSUME Typing, EndRun, Errors \in Nat
  PROVE  Typing'
<1>1. /\ UNCHANGED <<clock, program, t, v, rand, timer, spoilt, spoiltNaN>> /\ pc = "stop" /\ pc' = "tests"
      /\ timers' = [timers EXCEPT ![timer].endTime = clock]
      /\ error' = error + Errors /\ i' = i + 1
  BY DEF EndRun, Goto, StopSimpleTimer, run, history
<1>2. RunTyping /\ InBuild /\ MoreRuns /\ timer \in 1 .. Len(timers)
  BY <1>1 DEF Typing, Testing, RunTyping
<1>3. timers \in Seq(TimedRun) /\ clock \in 0 .. MaxTime
  <2>1. timers \in Seq(TimedRun)
    BY DEF Typing, TypeOK, TimedRun
  <2>2. clock \in 1 .. MaxTime /\ MaxTime \in Nat
    BY TimeAssumption DEF Typing
  <2>3. clock \in 0 .. MaxTime
    BY <2>2
  <2> QED
    BY <2>1, <2>3
<1>4. [timers[timer] EXCEPT !.endTime = clock] \in TimedRun
  <2>1. timers[timer] \in TimedRun
    BY <1>2, <1>3, ElementOfSeq
  <2> QED
    BY <1>3, <2>1 DEF TimedRun
<1>5. timers' = [timers EXCEPT ![timer] = [timers[timer] EXCEPT !.endTime = clock]]
  BY <1>1
<1>6. timers' \in Seq(TimedRun) /\ Len(timers') = Len(timers)
  BY <1>2, <1>3, <1>4, <1>5, ExceptSeq
<1>7. i' \in 0 .. numIter /\ error' \in Nat /\ spoilt' \in 0 .. i' + 1 /\ spoiltNaN' \in 0 .. spoilt'
      /\ spoilt' <= i'
  <2>1. i \in 0 .. numIter /\ spoilt \in 0 .. i + 1 /\ spoiltNaN \in 0 .. spoilt /\ error \in Nat
        /\ numIter \in Nat /\ i < numIter
    BY <1>2 DEF Typing, TypeOK, MoreRuns
  <2>2. i' = i + 1 /\ error' \in Nat
    BY <1>1, <2>1
  <2>3. spoilt' = spoilt /\ spoiltNaN' = spoiltNaN
    BY <1>1
  <2>4. i' \in 0 .. numIter
    BY <2>1, <2>2
  <2>5. spoilt \in 0 .. i' + 1 /\ spoilt <= i'
    BY <2>1, <2>2
  <2> QED
    BY <2>1, <2>2, <2>3, <2>4, <2>5
<1>8. TypeOK'
  BY <1>1, <1>6, <1>7, SameElements DEF Typing, TypeOK, TimedRun
<1>9. RunTyping'
  BY <1>1, <1>2, <1>7, SameElements DEF RunTyping
<1> QED
  BY <1>1, <1>8, <1>9, SameElements DEF Typing, Testing

LEMMA LastTyping ==
  ASSUME Typing, Tick \/ SetBack \/ Throw \/ WriteLog \/ Return \/ UNCHANGED vars
  PROVE  Typing'
<1>1. /\ UNCHANGED <<timers, program, counts, run, spoilt, spoiltNaN>>
      /\ \/ pc' = pc
         \/ pc' \in {"aborted", "return", "returned"}
      /\ \/ clock' = clock
         \/ clock < MaxTime /\ clock' = clock + 1
         \/ clock > 1 /\ clock' = clock - 1
  BY DEF Tick, SetBack, Throw, WriteLog, Return, vars, Goto, queueVars, history
<1>2. UNCHANGED <<t, i, error, v, rand, timer, result>>
  BY <1>1 DEF counts, run
<1>3. clock' \in 1 .. MaxTime
  <2>1. clock \in 1 .. MaxTime /\ MaxTime \in Nat
    BY TimeAssumption DEF Typing
  <2> QED
    BY <1>1, <2>1
<1>4. TypeOK'
  BY <1>1, <1>2, SameElements DEF Typing, TypeOK
<1>5. Testing' => RunTyping'
  <2> SUFFICES ASSUME Testing' PROVE RunTyping'
    OBVIOUS
  <2>1. pc' = pc /\ RunTyping
    BY <1>1 DEF Testing, Typing
  <2>2. InBuild' = InBuild /\ MoreRuns' = MoreRuns
    BY <1>1, <1>2, SameElements DEF InBuild, MoreRuns, Test
  <2> QED
    BY <1>1, <1>2, <2>1, <2>2, SameElements DEF RunTyping
<1>6. pc' \in {"arguments", "generate"} => pc' = pc
  BY <1>1
<1> QED
  BY <1>1, <1>2, <1>3, <1>4, <1>5, <1>6, SameElements DEF Typing

(* The elements that differ are finitely many. *)
LEMMA ErrorsType ==
  ASSUME Typing
  PROVE  Errors \in Nat
<1>1. NumElements \in Nat
  BY ElementCount DEF Typing, TypeOK
<1>2. IsFiniteSet(Elements)
  BY <1>1, FS_Interval DEF Elements
<1>3. Cardinality({k \in Elements : Differs(v[k], rand + k)}) \in Nat
  BY <1>2, FS_Subset, FS_CardinalityType
<1> QED
  BY <1>3 DEF Errors

LEMMA StepTyping == Typing /\ [Next]_vars => Typing'
<1> SUFFICES ASSUME Typing, [Next]_vars PROVE Typing'
  OBVIOUS
<1>1. CASE ParseMemSize \/ ParseIterations \/ SkipArg \/ Usage \/ EndArgs \/ WriteOutOfBounds
  BY <1>1, ArgsTyping
<1>2. CASE Generate
  BY <1>2, GenerateTyping
<1>3. CASE SkipTest \/ EndTest
  BY <1>3, SkipTestTyping
<1>4. CASE BeginRun
  BY <1>4, BeginRunTyping
<1>5. CASE TransferToDevice \/ TransferToHost
  BY <1>5, TransferTyping
<1>6. CASE EndRun
  BY <1>6, EndRunTyping, ErrorsType
<1>7. CASE Tick \/ SetBack \/ Throw \/ WriteLog \/ Return \/ UNCHANGED vars
  BY <1>7, LastTyping
<1> QED
  BY <1>1, <1>2, <1>3, <1>4, <1>5, <1>6, <1>7 DEF Next

(* The locals of main, the vector and the events of the queue keep their   *)
(* types, and no run of a test is stopped with an index past the events.   *)
THEOREM TypeCorrectness == Spec => []TypeOK
<1>1. Init => Typing
  BY InitTyping
<1>2. Typing /\ [Next]_vars => Typing'
  BY StepTyping
<1>3. Typing => TypeOK
  BY DEF Typing
<1> QED
  BY <1>1, <1>2, <1>3, PTL DEF Spec
------------------------------------------------------------------------------
(* The errors.  In the first four tests the vector is as it was generated, *)
(* and the device compares what arrives with it: if nothing was spoilt, the *)
(* only element that differs from its index is the last one, which is what *)
(* the host expects.  Afterwards what is compared is what the run sent.     *)

Counted(e) ==
  /\ e <= spoilt
  /\ Test \notin HostToDevice => e = spoilt - spoiltNaN

Faults ==
  /\ pc \in {"tests", "transfer"} /\ InBuild => Counted(error)
  /\ pc = "tests" /\ ~InBuild => error = 0 /\ spoilt = 0 /\ spoiltNaN = 0
  /\ pc = "stop" => Counted(error + Errors)

LEMMA InitFaults == Init => Faults
BY DEF Init, Faults

LEMMA CountTypes ==
  ASSUME Typing
  PROVE  error \in Nat /\ spoilt \in Nat /\ spoiltNaN \in Nat
<1>1. i \in 0 .. numIter /\ spoilt \in 0 .. i + 1 /\ spoiltNaN \in 0 .. spoilt /\ numIter \in Nat
      /\ error \in Nat
  BY DEF Typing, TypeOK
<1>2. i \in Nat
  BY <1>1
<1>3. spoilt \in Nat
  BY <1>1, <1>2
<1> QED
  BY <1>1, <1>3

LEMMA GenerateFaults ==
  ASSUME Typing, Generate
  PROVE  Faults'
<1>1. pc = "generate" /\ pc' = "tests" /\ UNCHANGED <<error, spoilt, spoiltNaN>>
  BY DEF Generate, Goto, counts, history
<1>2. error' = 0 /\ spoilt' = 0 /\ spoiltNaN' = 0
  BY <1>1 DEF Typing
<1>3. Counted(error)'
  BY <1>2 DEF Counted
<1> QED
  BY <1>1, <1>2, <1>3 DEF Faults

LEMMA NextTestFaults ==
  ASSUME Typing, Faults, SkipTest \/ EndTest
  PROVE  Faults'
<1>1. pc = "tests" /\ pc' = "tests"
  BY DEF SkipTest, EndTest, Goto
<1>2. error' = 0 /\ spoilt' = 0 /\ spoiltNaN' = 0
  <2>1. CASE EndTest
    BY <2>1 DEF EndTest
  <2>2. CASE SkipTest
    <3>1. ~InBuild /\ UNCHANGED <<error, spoilt, spoiltNaN>>
      BY <2>2 DEF SkipTest, InBuild, history
    <3> QED
      BY <1>1, <3>1 DEF Faults
  <2> QED
    BY <2>1, <2>2
<1>3. Counted(error)'
  BY <1>2 DEF Counted
<1> QED
  BY <1>1, <1>2, <1>3 DEF Faults

LEMMA BeginRunFaults ==
  ASSUME Typing, Faults, BeginRun
  PROVE  Faults'
<1>1. /\ pc = "tests" /\ pc' = "transfer" /\ InBuild
      /\ UNCHANGED <<program, t, error, spoilt, spoiltNaN>>
  BY DEF BeginRun, Goto, counts, history
<1>2. Counted(error)
  BY <1>1 DEF Faults
<1>3. Counted(error)'
  BY <1>1, <1>2 DEF Counted, Test
<1> QED
  BY <1>1, <1>3 DEF Faults

(* Towards the device a run adds an error only if an element was spoilt.   *)
LEMMA ToDeviceFaults ==
  ASSUME Typing, Faults, TransferToDevice
  PROVE  Faults'
<1>1. /\ pc = "transfer" /\ pc' = "stop" /\ Test \in HostToDevice
      /\ UNCHANGED <<program, t, error>>
  BY DEF TransferToDevice, Goto, counts
<1>2. RunTyping /\ InBuild /\ Counted(error)
  BY <1>1 DEF Typing, Testing, RunTyping, Faults
<1>3. NumElements \in Nat /\ NumElements >= 2 /\ error \in Nat /\ spoilt \in Nat
  BY <1>2, CountTypes, ElementCount DEF Typing, TypeOK, RunTyping
<1>4. v = Generated
  BY <1>1, <1>2, CurrentTest DEF Typing, InBuild, RunTyping
<1>5. PICK arrived \in Arrivals(v, [k \in Elements |-> Junk]) : result' \in Found(arrived) /\ Spoil(v, arrived)
  BY DEF TransferToDevice
<1>6. Test' = Test /\ NumElements' = NumElements
  BY <1>1, SameElements DEF Test
<1>7. Errors' = IF result' = NumElements - 1 THEN 0 ELSE 1
  BY <1>1, <1>6 DEF Errors
<1>8. v \in [Elements -> Int] /\ [k \in Elements |-> Junk] \in [Elements -> Numbers]
  BY <1>3, <1>4, GeneratedNumbers DEF Numbers
<1>9. CASE arrived = v
  <2>1. \A k \in Elements : Differs(arrived[k], k) <=> k = NumElements - 1
    <3> SUFFICES ASSUME NEW k \in Elements PROVE Differs(arrived[k], k) <=> k = NumElements - 1
      OBVIOUS
    <3>1. arrived[k] = IF k = NumElements - 1 THEN 0 ELSE k
      BY <1>4, <1>9 DEF Generated
    <3>2. k \in Int /\ NaN \notin Int
      BY <1>3, MemTestAssumption DEF Elements
    <3>3. k = NumElements - 1 => k # 0
      BY <1>3
    <3> QED
      BY <3>1, <3>2, <3>3 DEF Differs
  <2>2. NumElements - 1 \in Elements
    BY <1>3 DEF Elements
  <2>3. Found(arrived) = {NumElements - 1}
    BY <2>1, <2>2 DEF Found
  <2>4. Errors' = 0
    BY <1>5, <1>7, <2>3
  <2>5. spoilt' = spoilt
    BY <1>5, <1>9 DEF Spoil
  <2>6. (error + Errors)' <= spoilt'
    BY <1>1, <1>2, <1>3, <2>4, <2>5 DEF Counted
  <2> QED
    BY <1>1, <1>6, <2>6 DEF Faults, Counted
<1>10. CASE arrived # v
  <2>1. spoilt' = spoilt + 1
    BY <1>5, <1>10 DEF Spoil
  <2>2. Errors' \in {0, 1} /\ error' = error /\ error <= spoilt
    BY <1>1, <1>2, <1>7 DEF Counted
  <2>3. error' + Errors' <= spoilt'
    <3>1. PICK e \in {0, 1} : e = Errors'
      BY <2>2
    <3>2. error + e <= spoilt + 1
      BY <1>3, <2>2
    <3> QED
      BY <2>1, <2>2, <3>1, <3>2
  <2> QED
    BY <1>1, <1>6, <2>3 DEF Faults, Counted
<1> QED
  BY <1>9, <1>10

(* Towards the host it counts the element that was spoilt, unless that is  *)
(* a NaN.                                                                  *)
LEMMA ToHostFaults ==
  ASSUME Typing, Faults, TransferToHost
  PROVE  Faults'
<1> DEFINE sent == [k \in Elements |-> rand + k]
<1>1. /\ pc = "transfer" /\ pc' = "stop" /\ Test \notin HostToDevice
      /\ UNCHANGED <<program, t, error, rand>>
      /\ v' \in Arrivals(sent, v) /\ Spoil(sent, v')
  BY DEF TransferToHost, Goto, counts
<1>2. RunTyping /\ InBuild /\ Counted(error)
  BY <1>1 DEF Typing, Testing, RunTyping, Faults
<1>3. error \in Nat /\ spoilt \in Nat /\ spoiltNaN \in Nat
  BY CountTypes
<1>4. error = spoilt - spoiltNaN
  BY <1>1, <1>2 DEF Counted
<1>5. Test' = Test /\ Elements' = Elements
  BY <1>1, SameElements DEF Test
<1>6. Errors' = Cardinality({k \in Elements : Differs(v'[k], sent[k])})
  BY <1>1, <1>5 DEF Errors
<1>7. sent \in [Elements -> Int] /\ v \in [Elements -> Numbers]
  BY <1>2, SentNumbers DEF RunTyping
<1>8. NaN \notin Int
  BY MemTestAssumption
<1> HIDE DEF sent
<1>9. \/ Errors' = 0 /\ spoilt' = spoilt /\ spoiltNaN' = spoiltNaN
      \/ Errors' = 0 /\ spoilt' = spoilt + 1 /\ spoiltNaN' = spoiltNaN + 1
      \/ Errors' = 1 /\ spoilt' = spoilt + 1 /\ spoiltNaN' = spoiltNaN
  <2>1. CASE v' = sent /\ spoilt' = spoilt /\ spoiltNaN' = spoiltNaN
    <3>1. {k \in Elements : Differs(v'[k], sent[k])} = {}
      BY <2>1 DEF Differs
    <3> QED
      BY <1>6, <2>1, <3>1, FS_EmptySet
  <2>2. ASSUME NEW j \in Elements, NEW x \in Numbers,
               v' = [sent EXCEPT ![j] = x], x # sent[j],
               spoilt' = spoilt + 1,
               spoiltNaN' = IF x = NaN THEN spoiltNaN + 1 ELSE spoiltNaN
        PROVE  \/ Errors' = 0 /\ spoiltNaN' = spoiltNaN + 1
               \/ Errors' = 1 /\ spoiltNaN' = spoiltNaN
    <3>1. \A k \in Elements : Differs(v'[k], sent[k]) <=> (k = j /\ x # NaN)
      BY <1>7, <2>2 DEF Differs
    <3>2. CASE x = NaN
      <4>1. {k \in Elements : Differs(v'[k], sent[k])} = {}
        BY <3>1, <3>2
      <4> QED
        BY <1>6, <2>2, <3>2, <4>1, FS_EmptySet
    <3>3. CASE x # NaN
      <4>1. {k \in Elements : Differs(v'[k], sent[k])} = {j}
        BY <3>1, <3>3
      <4> QED
        BY <1>6, <2>2, <3>3, <4>1, FS_Singleton
    <3> QED
      BY <3>2, <3>3
  <2>3. \/ v' = sent /\ spoilt' = spoilt /\ spoiltNaN' = spoiltNaN
        \/ \E k \in Elements, x \in Numbers :
             /\ v' = [sent EXCEPT ![k] = x] /\ x # sent[k]
             /\ spoilt' = spoilt + 1
             /\ spoiltNaN' = IF x = NaN THEN spoiltNaN + 1 ELSE spoiltNaN
    BY <1>1, <1>7, Spoiling
  <2> QED
    BY <2>1, <2>2, <2>3
<1>10. /\ error' + Errors' <= spoilt'
       /\ error' + Errors' = spoilt' - spoiltNaN'
  <2>1. error' = error
    BY <1>1
  <2> QED
    BY <1>3, <1>4, <1>9, <2>1
<1> QED
  BY <1>1, <1>10 DEF Faults, Counted

LEMMA EndRunFaults ==
  ASSUME Typing, Faults, EndRun
  PROVE  Faults'
<1>1. /\ pc = "stop" /\ pc' = "tests" /\ error' = error + Errors
      /\ UNCHANGED <<program, t, spoilt, spoiltNaN>>
  BY DEF EndRun, Goto, history
<1>2. Counted(error + Errors) /\ InBuild
  BY <1>1 DEF Faults, Typing, Testing, RunTyping
<1>3. InBuild' /\ Test' = Test
  BY <1>1, <1>2, SameElements DEF InBuild, Test
<1>4. Counted(error)'
  BY <1>1, <1>2, <1>3 DEF Counted
<1> QED
  BY <1>1, <1>3, <1>4 DEF Faults

LEMMA OtherFaults ==
  ASSUME Typing, Faults,
         \/ ParseMemSize \/ ParseIterations \/ SkipArg \/ Usage \/ EndArgs \/ WriteOutOfBounds
         \/ Tick \/ SetBack \/ Throw \/ WriteLog \/ Return \/ UNCHANGED vars
  PROVE  Faults'
<1>1. CASE ~ (pc' \in {"tests", "transfer", "stop"})
  BY <1>1 DEF Faults
<1>2. CASE pc' \in {"tests", "transfer", "stop"}
  <2>1. Tick \/ SetBack \/ UNCHANGED vars
    BY <1>2 DEF Throw, ParseMemSize, ParseIterations, SkipArg, Usage, EndArgs, WriteOutOfBounds, WriteLog, Return, Goto
  <2>2. UNCHANGED <<pc, program, t, error, v, rand, result, spoilt, spoiltNaN>>
    BY <2>1 DEF Tick, SetBack, vars, counts, run, history
  <2>3. InBuild' = InBuild /\ Test' = Test /\ Errors' = Errors
    BY <2>2, SameElements DEF InBuild, Test, Errors
  <2>4. Counted(error)' = Counted(error) /\ Counted(error + Errors)' = Counted(error + Errors)
    BY <2>2, <2>3 DEF Counted
  <2> QED
    BY <2>2, <2>3, <2>4 DEF Faults
<1> QED
  BY <1>1, <1>2

LEMMA StepFaults == Typing /\ Faults /\ [Next]_vars => Faults'
<1> SUFFICES ASSUME Typing, Faults, [Next]_vars PROVE Faults'
  OBVIOUS
<1>1. CASE \/ ParseMemSize \/ ParseIterations \/ SkipArg \/ Usage \/ EndArgs \/ WriteOutOfBounds
           \/ Tick \/ SetBack \/ Throw \/ WriteLog \/ Return \/ UNCHANGED vars
  BY <1>1, OtherFaults
<1>2. CASE Generate
  BY <1>2, GenerateFaults
<1>3. CASE SkipTest \/ EndTest
  BY <1>3, NextTestFaults
<1>4. CASE BeginRun
  BY <1>4, BeginRunFaults
<1>5. CASE TransferToDevice
  BY <1>5, ToDeviceFaults
<1>6. CASE TransferToHost
  BY <1>6, ToHostFaults
<1>7. CASE EndRun
  BY <1>7, EndRunFaults
<1> QED
  BY <1>1, <1>2, <1>3, <1>4, <1>5, <1>6, <1>7 DEF Next

(* The errors that a test of main counts, in either direction and after    *)
(* any number of tests that shared the vector, are elements that a         *)
(* transfer spoilt; towards the host they are all of those that are        *)
(* numbers.                                                                *)
THEOREM ErrorsAreFaultsHolds == Spec => []ErrorsAreFaults
<1>1. Init => Typing /\ Faults
  BY InitTyping, InitFaults
<1>2. (Typing /\ Faults) /\ [Next]_vars => (Typing /\ Faults)'
  BY StepTyping, StepFaults
<1>3. Typing /\ Faults => ErrorsAreFaults
  BY DEF Faults, Counted, ErrorsAreFaults
<1> QED
  BY <1>1, <1>2, <1>3, PTL DEF Spec
------------------------------------------------------------------------------
(* The report.  The events are those of the tests that have a row, numIter *)
(* for each and in the order of the rows, and then those of the test at    *)
(* work.                                                                   *)

Row == [test : Range(Tests), size : Nat, average : [total : Int, num : Nat], errors : Nat]
Running == IF pc \in {"transfer", "stop"} THEN 1 ELSE 0

(* The runs of the tests that have a row, and those of the test at work.   *)
Reported == numIter * Len(log)
Own == {k \in 1 .. Len(timers) : k > Reported}
OwnEnded == {k \in 1 .. Len(timers) : k > Reported /\ k <= Len(timers) - Running}
RowOf(k) == (k - 1) \div numIter + 1

Rows ==
  /\ log \in Seq(Row)
  /\ \A k \in 1 .. Len(log) : log[k].size = memSizeMB
  /\ \A k \in 1 .. Len(log) : \E p \in 1 .. t - 1 : Tests[p] \in build /\ log[k].test = Tests[p]
  /\ \A p \in 1 .. t - 1 : numIter > 0 /\ Tests[p] \in build =>
       \E k \in 1 .. Len(log) : log[k].test = Tests[p]
  /\ \A j, k \in 1 .. Len(log) : j < k =>
       \E p, q \in 1 .. t - 1 : p < q /\ Tests[p] = log[j].test /\ Tests[q] = log[k].test
  /\ numIter = 0 => log = <<>>

Timed ==
  /\ Len(timers) = Reported + i + Running
  /\ \A k \in 1 .. Reported : timers[k].name = log[RowOf(k)].test
  /\ \A k \in Own : InBuild /\ timers[k].name = Test
  /\ \A k \in 1 .. Len(timers) : k <= Len(timers) - Running => timers[k].endTime > 0
  /\ Running = 1 => timer = Len(timers)
  /\ spent = SumElapsed(OwnEnded) + IF Running = 1 THEN clock - timers[timer].startTime ELSE 0

Started == pc \in {"tests", "transfer", "stop", "return", "returned"}

Reporting ==
  /\ pc = "out of bounds" => NumElements = 0
  /\ pc \in {"arguments", "generate"} => log = <<>> /\ timers = <<>> /\ spent = 0
  /\ Started => Rows /\ Timed
  /\ pc \in {"return", "returned"} => t = 9 /\ v \in [Elements -> Numbers]
  /\ pc = "return" => prefix = "memtest"
  /\ pc = "returned" => html.file = "memtest" /\ html.rows = timers
------------------------------------------------------------------------------
(* Division into blocks of b.                                              *)
LEMMA BlockNumber ==
  ASSUME NEW b \in Nat \ {0}, NEW k \in Nat \ {0}
  PROVE  /\ (k - 1) \div b + 1 \in Nat \ {0}
         /\ \A m \in Nat : k <= b * m <=> (k - 1) \div b + 1 <= m
<1> DEFINE q == (k - 1) \div b
           r == (k - 1) % b
<1>1. q \in Int /\ r \in 0 .. b - 1 /\ k - 1 = b * q + r
  <2> DEFINE j == k - 1
  <2>1. j \in Int
    OBVIOUS
  <2> HIDE DEF j
  <2>2. j \div b \in Int /\ j % b \in 0 .. b - 1 /\ j = b * (j \div b) + (j % b)
    BY <2>1
  <2> QED
    BY <2>2 DEF j
<1> HIDE DEF q, r
<1>2. q >= 0
  <2> SUFFICES ASSUME q <= 0 - 1 PROVE FALSE
    BY <1>1
  <2>1. b * q <= b * (0 - 1)
    BY <1>1
  <2> QED
    BY <1>1, <2>1
<1>3. ASSUME NEW m \in Nat PROVE k <= b * m <=> q + 1 <= m
  <2>1. ASSUME q + 1 <= m PROVE k <= b * m
    <3>1. b * (q + 1) <= b * m
      BY <1>1, <2>1
    <3>2. b * (q + 1) = b * q + b
      BY <1>1
    <3>3. b * q \in Int /\ b * m \in Int
      BY <1>1
    <3> QED
      BY <1>1, <3>1, <3>2, <3>3
  <2>2. ASSUME m <= q PROVE ~(k <= b * m)
    <3>1. b * m <= b * q
      BY <1>1, <2>2
    <3>2. b * q \in Int /\ b * m \in Int
      BY <1>1
    <3> QED
      BY <1>1, <3>1, <3>2
  <2> QED
    BY <1>1, <2>1, <2>2
<1> QED
  BY <1>1, <1>2, <1>3 DEF q

(* A size that fits its word is that of the vector.                        *)
LEMMA FittingSize ==
  ASSUME memSizeMB \in Nat, Fits
  PROVE  /\ NumElements \in Nat /\ NumElements * SizeofFloat = memSizeMB * MB
         /\ memSizeMB > 0 => NumElements > 0
<1> DEFINE size == memSizeMB * MB
           q == MB \div 4
<1>1. MB \in Nat /\ MB >= 8 /\ MB % 4 = 0 /\ WordSize \in Nat
  BY MemTestAssumption DEF SizeofFloat
<1>2. q \in Nat /\ MB = 4 * q /\ q > 0
  BY <1>1
<1> HIDE DEF q
<1>3. size \in Nat /\ size < WordSize /\ size = 4 * (memSizeMB * q) /\ memSizeMB * q \in Nat
  BY <1>1, <1>2 DEF Fits
<1>4. memSizeMB > 0 => memSizeMB * q > 0
  BY <1>2
<1>5. NumElements = (size % WordSize) \div 4
  BY DEF NumElements, SizeofFloat
<1> HIDE DEF size
<1>6. size % WordSize = size
  BY <1>1, <1>3
<1> DEFINE p == memSizeMB * q
<1>7. p \in Nat /\ size = 4 * p
  BY <1>3
<1> HIDE DEF p
<1>8. NumElements = p
  BY <1>5, <1>6, <1>7
<1> QED
  BY <1>4, <1>7, <1>8 DEF p, size, SizeofFloat

LEMMA TestsDiffer == \A p, q \in 1 .. 8 : Tests[p] = Tests[q] => p = q
BY DEF Tests

(* What the types say of the log and of the events.                        *)
LEMMA ReportTypes ==
  ASSUME Typing, log \in Seq(Row)
  PROVE  /\ numIter \in Nat /\ Len(log) \in Nat /\ Reported \in Nat
         /\ DOMAIN log = 1 .. Len(log) /\ \A k \in 1 .. Len(log) : log[k] \in Row
         /\ timers \in Seq(TimedRun) /\ Len(timers) \in Nat /\ DOMAIN timers = 1 .. Len(timers)
         /\ \A k \in 1 .. Len(timers) :
              /\ timers[k] \in TimedRun
              /\ timers[k].startTime \in Int /\ timers[k].endTime \in Int
              /\ timers[k].endTime - timers[k].startTime \in Int
         /\ clock \in Int /\ i \in Nat /\ t \in 1 .. 9 /\ Len(Tests) = 8
<1>1. numIter \in Nat /\ timers \in Seq(TimedRun) /\ i \in 0 .. numIter /\ clock \in 1 .. MaxTime
      /\ MaxTime \in Nat
  BY TimeAssumption DEF Typing, TypeOK, TimedRun
<1>2. Len(log) \in Nat /\ DOMAIN log = 1 .. Len(log) /\ \A k \in 1 .. Len(log) : log[k] \in Row
  BY LenProperties, ElementOfSeq
<1>3. Reported \in Nat
  BY <1>1, <1>2 DEF Reported
<1>4. /\ Len(timers) \in Nat /\ DOMAIN timers = 1 .. Len(timers)
      /\ \A k \in 1 .. Len(timers) : timers[k] \in TimedRun
  BY <1>1, LenProperties, ElementOfSeq
<1>5. ASSUME NEW k \in 1 .. Len(timers)
      PROVE  timers[k].startTime \in Int /\ timers[k].endTime \in Int
  <2>1. timers[k] \in TimedRun
    BY <1>4
  <2> QED
    BY <1>1, <2>1 DEF TimedRun
<1>6. clock \in Int /\ i \in Nat
  BY <1>1
<1>7. t \in 1 .. 9 /\ Len(Tests) = 8
  BY CurrentTest DEF Typing
<1> QED
  BY <1>1, <1>2, <1>3, <1>4, <1>5, <1>6, <1>7

(* The events of the test at work are those that no row reports yet.       *)
LEMMA OwnEventsOnly ==
  ASSUME Typing, Rows, Timed, InBuild
  PROVE  EventsOf(Test) = Own
<1>1. /\ numIter \in Nat /\ Len(log) \in Nat /\ Reported \in Nat /\ Len(timers) \in Nat
      /\ DOMAIN timers = 1 .. Len(timers) /\ t \in 1 .. 8 /\ Test = Tests[t]
  <2>1. log \in Seq(Row) /\ t <= Len(Tests) /\ Test = Tests[t]
    BY DEF Rows, InBuild, Test
  <2>2. t \in 1 .. 9 /\ Len(Tests) = 8
    BY <2>1, ReportTypes
  <2> QED
    BY <2>1, <2>2, ReportTypes
<1>2. ASSUME NEW k \in 1 .. Len(timers), ~(k > Reported)
      PROVE  timers[k].name # Test
  <2>1. k \in 1 .. Reported /\ k \in Nat \ {0}
    BY <1>1, <1>2
  <2>2. numIter # 0
    BY <1>1, <2>1 DEF Reported
  <2>3. RowOf(k) \in 1 .. Len(log)
    <3>1. k <= numIter * Len(log)
      BY <2>1 DEF Reported
    <3>2. (k - 1) \div numIter + 1 \in Nat \ {0} /\ (k - 1) \div numIter + 1 <= Len(log)
      BY <1>1, <2>1, <2>2, <3>1, BlockNumber
    <3> QED
      BY <1>1, <3>2 DEF RowOf
  <2>4. PICK p \in 1 .. t - 1 : log[RowOf(k)].test = Tests[p]
    BY <2>3 DEF Rows
  <2>5. timers[k].name = Tests[p]
    BY <2>1, <2>4 DEF Timed
  <2>6. p \in 1 .. 8 /\ p # t
    BY <1>1, <2>4
  <2> QED
    BY <1>1, <2>5, <2>6, TestsDiffer
<1>3. \A k \in Own : timers[k].name = Test
  BY DEF Timed
<1> QED
  BY <1>1, <1>2, <1>3 DEF Own, EventsOf

(* The times of the runs of a set.                                         *)
LEMMA ElapsedType ==
  ASSUME Typing, log \in Seq(Row), NEW ks, ks \subseteq 1 .. Len(timers)
  PROVE  IsFiniteSet(ks) /\ SumElapsed(ks) \in Int
<1> DEFINE f == [k \in DOMAIN timers |-> timers[k].endTime - timers[k].startTime]
<1>1. \A k \in ks : f[k] \in Int
  BY ReportTypes
<1>2. IsFiniteSet(ks)
  <2>1. Len(timers) \in Nat
    BY ReportTypes
  <2>2. IsFiniteSet(1 .. Len(timers))
    BY <2>1, FiniteInterval
  <2> QED
    BY <2>2, FS_Subset
<1> HIDE DEF f
<1>3. SumFunctionOnSet(f, ks) \in Int
  BY <1>1, <1>2, SumType
<1> QED
  BY <1>2, <1>3 DEF SumElapsed, f

LEMMA OwnSumType ==
  ASSUME Typing, log \in Seq(Row)
  PROVE  SumElapsed(OwnEnded) \in Int
BY ElapsedType DEF OwnEnded

(* A step that changes none of the ended runs.                             *)
LEMMA SameElapsed ==
  ASSUME Typing, log \in Seq(Row), OwnEnded' = OwnEnded,
         1 .. Len(timers) \subseteq DOMAIN timers',
         \A k \in OwnEnded : timers'[k] = timers[k]
  PROVE  SumElapsed(OwnEnded)' = SumElapsed(OwnEnded)
<1> DEFINE f == [k \in DOMAIN timers |-> timers[k].endTime - timers[k].startTime]
           g == [k \in DOMAIN timers' |-> timers'[k].endTime - timers'[k].startTime]
<1>1. OwnEnded \subseteq 1 .. Len(timers)
  BY DEF OwnEnded
<1>2. IsFiniteSet(OwnEnded)
  BY <1>1, ElapsedType
<1>3. DOMAIN timers = 1 .. Len(timers)
  BY ReportTypes
<1>4. \A k \in OwnEnded : f[k] = g[k]
  BY <1>1, <1>3
<1> HIDE DEF f, g
<1>5. SumFunctionOnSet(f, OwnEnded) = SumFunctionOnSet(g, OwnEnded)
  BY <1>2, <1>4, SumCongruence
<1> QED
  BY <1>5 DEF SumElapsed, f, g

LEMMA RowsKept ==
  ASSUME Rows, UNCHANGED <<log, numIter, build, memSizeMB, t>>
  PROVE  Rows'
BY DEF Rows

(* Steps that begin and end no run and no test.                            *)
LEMMA ReportingKept ==
  ASSUME Typing, Rows, Timed, UNCHANGED <<log, timers, numIter, build, memSizeMB, i, t, timer>>,
         Running' = Running,
         \/ clock' = clock /\ spent' = spent
         \/ Running = 1 /\ clock' = clock + 1 /\ spent' = spent + 1
         \/ Running = 1 /\ clock' = clock - 1 /\ spent' = spent - 1
  PROVE  Rows' /\ Timed'
<1>1. Rows'
  BY RowsKept
<1>2. /\ Reported' = Reported /\ Own' = Own /\ OwnEnded' = OwnEnded
      /\ \A k : RowOf(k)' = RowOf(k)
      /\ InBuild' = InBuild /\ Test' = Test
      /\ SumElapsed(OwnEnded)' = SumElapsed(OwnEnded)
  <2>1. Reported' = Reported /\ Own' = Own /\ OwnEnded' = OwnEnded
    BY DEF Reported, Own, OwnEnded
  <2>2. SumElapsed(OwnEnded)' = SumElapsed(OwnEnded)
    BY <2>1 DEF SumElapsed
  <2> QED
    BY <2>1, <2>2 DEF RowOf, InBuild, Test
<1>3. log \in Seq(Row)
  BY DEF Rows
<1>4. spent' = SumElapsed(OwnEnded) + IF Running = 1 THEN clock' - timers[timer].startTime ELSE 0
  <2>1. CASE clock' = clock /\ spent' = spent
    BY <2>1 DEF Timed
  <2>2. CASE \/ Running = 1 /\ clock' = clock + 1 /\ spent' = spent + 1
             \/ Running = 1 /\ clock' = clock - 1 /\ spent' = spent - 1
    <3>1. timer = Len(timers) /\ Len(timers) = Reported + i + 1
      BY <2>2 DEF Timed
    <3>2. timer \in 1 .. Len(timers)
      BY <1>3, <3>1, ReportTypes
    <3>3. timers[timer].startTime \in Int /\ clock \in Int
      BY <1>3, <3>2, ReportTypes
    <3>4. SumElapsed(OwnEnded) \in Int
      BY <1>3, OwnSumType
    <3>5. spent = SumElapsed(OwnEnded) + (clock - timers[timer].startTime)
      BY <2>2 DEF Timed
    <3> QED
      BY <2>2, <3>3, <3>4, <3>5
  <2> QED
    BY <2>1, <2>2
<1>5. Timed'
  BY <1>2, <1>4 DEF Timed
<1> QED
  BY <1>1, <1>5

LEMMA SkipTestReporting ==
  ASSUME Typing, Rows, Timed, SkipTest
  PROVE  Rows' /\ Timed'
<1>1. /\ UNCHANGED <<log, timers, timer, clock, spent, numIter, build, memSizeMB, i>>
      /\ t' = t + 1 /\ pc = "tests" /\ pc' = "tests" /\ Test \notin build /\ ~InBuild
  BY SameElements DEF SkipTest, Goto, InBuild, run, output, history, queueVars
<1>2. log \in Seq(Row) /\ t \in 1 .. 9 /\ Test = Tests[t]
  <2>1. log \in Seq(Row)
    BY DEF Rows
  <2> QED
    BY <2>1, ReportTypes DEF Test
<1>3. t' - 1 = t /\ \A p \in 1 .. t : p \in 1 .. t - 1 \/ p = t
  BY <1>1, <1>2
<1>4. \A p \in 1 .. t - 1 : p \in 1 .. t
  BY <1>2
<1>5. Rows'
  <2>1. \A p \in 1 .. t : numIter > 0 /\ Tests[p] \in build =>
          \E k \in 1 .. Len(log) : log[k].test = Tests[p]
    BY <1>1, <1>2, <1>3 DEF Rows
  <2>2. \A k \in 1 .. Len(log) : \E p \in 1 .. t : Tests[p] \in build /\ log[k].test = Tests[p]
    <3> TAKE k \in 1 .. Len(log)
    <3>1. PICK p \in 1 .. t - 1 : Tests[p] \in build /\ log[k].test = Tests[p]
      BY DEF Rows
    <3> QED
      BY <1>4, <3>1
  <2>3. \A j, k \in 1 .. Len(log) : j < k =>
          \E p, q \in 1 .. t : p < q /\ Tests[p] = log[j].test /\ Tests[q] = log[k].test
    <3> TAKE j, k \in 1 .. Len(log)
    <3> HAVE j < k
    <3>1. PICK p, q \in 1 .. t - 1 : p < q /\ Tests[p] = log[j].test /\ Tests[q] = log[k].test
      BY DEF Rows
    <3> QED
      BY <1>4, <3>1
  <2> QED
    BY <1>1, <1>3, <2>1, <2>2, <2>3 DEF Rows
<1>6. Own = {}
  BY <1>1 DEF Timed
<1>7. Reported' = Reported /\ Own' = Own /\ Running' = Running /\ OwnEnded' = OwnEnded
  <2>1. Reported' = Reported /\ Running' = Running
    BY <1>1 DEF Reported, Running
  <2> QED
    BY <1>1, <2>1 DEF Own, OwnEnded
<1>8. SumElapsed(OwnEnded)' = SumElapsed(OwnEnded) /\ \A k : RowOf(k)' = RowOf(k)
  BY <1>1, <1>7 DEF SumElapsed, RowOf
<1>9. Timed'
  BY <1>1, <1>6, <1>7, <1>8 DEF Timed
<1> QED
  BY <1>5, <1>9

LEMMA BeginRunReporting ==
  ASSUME Typing, Rows, Timed, BeginRun
  PROVE  Rows' /\ Timed'
<1> DEFINE e == [name |-> Test, startTime |-> clock, endTime |-> 0]
           m == Len(timers) + 1
<1>1. /\ UNCHANGED <<log, clock, spent, numIter, build, memSizeMB, i, t>>
      /\ pc = "tests" /\ pc' = "transfer" /\ InBuild /\ timer' = m
      /\ timers' = Append(timers, e)
  BY SameElements DEF BeginRun, Goto, StartSimpleTimer, counts, output, history
<1>2. log \in Seq(Row)
  BY DEF Rows
<1>3. /\ timers \in Seq(TimedRun) /\ Len(timers) \in Nat /\ clock \in Int /\ i \in Nat
      /\ Reported \in Nat
  BY <1>2, ReportTypes
<1>4. /\ Len(timers') = m /\ timers'[m] = e
      /\ \A k \in 1 .. Len(timers) : timers'[k] = timers[k]
  <2>1. e \in TimedRun
    <3>1. clock \in 1 .. MaxTime /\ MaxTime \in Nat
      BY TimeAssumption DEF Typing
    <3>2. Test \in Range(Tests)
      BY <1>1, CurrentTest DEF InBuild, Typing
    <3> QED
      BY <3>1, <3>2 DEF TimedRun
  <2> HIDE DEF e
  <2> QED
    BY <1>1, <1>3, <2>1, AppendProperties
<1>5. Running = 0 /\ Running' = 1
  BY <1>1 DEF Running
<1>6. m \in Nat /\ 1 .. m = (1 .. Len(timers)) \cup {m} /\ m > Reported /\ m \notin 1 .. Len(timers)
      /\ Len(timers) = Reported + i /\ m - 1 = Len(timers)
  BY <1>3, <1>5 DEF Timed
<1>7. Reported' = Reported /\ Own' = Own \cup {m} /\ OwnEnded' = Own /\ OwnEnded = Own
  <2>1. Reported' = Reported
    BY <1>1 DEF Reported
  <2>2. Own' = Own \cup {m}
    BY <1>4, <1>6, <2>1 DEF Own
  <2>3. OwnEnded = Own
    BY <1>3, <1>5 DEF Own, OwnEnded
  <2>4. OwnEnded' = {k \in 1 .. m : k > Reported /\ k <= m - 1}
    BY <1>4, <1>5, <2>1 DEF OwnEnded
  <2>5. {k \in 1 .. m : k > Reported /\ k <= m - 1} = Own
    <3>1. \A k \in 1 .. m : k <= m - 1 <=> k \in 1 .. Len(timers)
      BY <1>3
    <3> QED
      BY <1>6, <3>1 DEF Own
  <2> QED
    BY <2>1, <2>2, <2>3, <2>4, <2>5
<1>8. SumElapsed(OwnEnded)' = SumElapsed(OwnEnded)
  <2>1. \A k \in OwnEnded : timers'[k] = timers[k]
    BY <1>4 DEF OwnEnded
  <2>2. 1 .. Len(timers) \subseteq DOMAIN timers'
    <3>1. timers' \in Seq(TimedRun)
      BY BeginRunTyping DEF Typing, TypeOK, TimedRun
    <3>2. DOMAIN timers' = 1 .. m
      BY <1>4, <3>1, LenProperties
    <3> QED
      BY <1>3, <3>2
  <2> QED
    BY <1>2, <1>7, <2>1, <2>2, SameElapsed
<1>9. Rows'
  BY <1>1, RowsKept
<1>10. InBuild' = InBuild /\ Test' = Test /\ (\A k : RowOf(k)' = RowOf(k))
  BY <1>1 DEF InBuild, Test, RowOf
<1> HIDE DEF m
<1>11. /\ Len(timers') = Reported + i + 1
       /\ \A k \in 1 .. Reported : timers'[k].name = log[RowOf(k)].test
       /\ \A k \in Own \cup {m} : InBuild /\ timers'[k].name = Test
       /\ \A k \in 1 .. m : k <= m - 1 => timers'[k].endTime > 0
  <2>1. \A k \in 1 .. Reported : k \in 1 .. Len(timers)
    BY <1>3, <1>6
  <2>2. Own \subseteq 1 .. Len(timers)
    BY DEF Own
  <2>3. e.name = Test
    OBVIOUS
  <2>4. Len(timers') = Reported + i + 1
    BY <1>3, <1>4, <1>6
  <2>5. \A k \in 1 .. Reported : timers'[k].name = log[RowOf(k)].test
    BY <1>4, <2>1 DEF Timed
  <2>6. \A k \in Own \cup {m} : InBuild /\ timers'[k].name = Test
    BY <1>1, <1>4, <2>2, <2>3 DEF Timed
  <2> HIDE DEF e
  <2>7. \A k \in 1 .. m : k <= m - 1 => timers'[k].endTime > 0
    <3> TAKE k \in 1 .. m
    <3> HAVE k <= m - 1
    <3>1. k \in 1 .. Len(timers) /\ k <= Len(timers) - Running
      BY <1>3, <1>5, <1>6
    <3> QED
      BY <1>4, <3>1 DEF Timed
  <2> QED
    BY <2>4, <2>5, <2>6, <2>7
<1>12. spent' = SumElapsed(OwnEnded)' + (clock - timers'[m].startTime)
  <2>1. SumElapsed(OwnEnded) \in Int
    BY <1>2, OwnSumType
  <2>2. spent = SumElapsed(OwnEnded) + 0
    BY <1>5 DEF Timed
  <2>3. clock - timers'[m].startTime = 0
    BY <1>3, <1>4
  <2> QED
    BY <1>1, <1>8, <2>1, <2>2, <2>3
<1>13. Timed'
  BY <1>1, <1>4, <1>5, <1>7, <1>10, <1>11, <1>12 DEF Timed
<1> QED
  BY <1>9, <1>13

LEMMA BelowLast ==
  ASSUME NEW m \in Nat
  PROVE  \A k \in 1 .. m : k <= m - 0 /\ (k <= m - 1 <=> k # m)
OBVIOUS

LEMMA EndRunReporting ==
  ASSUME Typing, Rows, Timed, EndRun
  PROVE  Rows' /\ Timed'
<1> DEFINE m == Len(timers)
           f == [k \in DOMAIN timers |-> timers[k].endTime - timers[k].startTime]
           g == [k \in DOMAIN timers' |-> timers'[k].endTime - timers'[k].startTime]
<1>1. /\ UNCHANGED <<log, clock, spent, numIter, build, memSizeMB, t, timer>>
      /\ pc = "stop" /\ pc' = "tests" /\ i' = i + 1
      /\ timers' = [timers EXCEPT ![timer].endTime = clock]
  BY SameElements DEF EndRun, Goto, StopSimpleTimer, run, output, history
<1>2. log \in Seq(Row)
  BY DEF Rows
<1>3. /\ timers \in Seq(TimedRun) /\ m \in Nat /\ clock \in Int /\ i \in Nat /\ Reported \in Nat
      /\ DOMAIN timers = 1 .. m
      /\ \A k \in 1 .. m : timers[k] \in TimedRun /\ timers[k].startTime \in Int /\ timers[k].endTime \in Int
  BY <1>2, ReportTypes
<1>4. Running = 1 /\ Running' = 0
  BY <1>1 DEF Running
<1>5. timer = m /\ m = Reported + i + 1
  BY <1>4 DEF Timed
<1>6. m \in 1 .. m /\ m > Reported
  BY <1>3, <1>5
<1>7. timers[m] \in TimedRun /\ timers[m].startTime \in Int
  BY <1>3, <1>6
<1>8. /\ Len(timers') = m /\ DOMAIN timers' = 1 .. m
      /\ \A k \in 1 .. m : /\ timers'[k].name = timers[k].name
                           /\ timers'[k].startTime = timers[k].startTime
                           /\ k # m => timers'[k].endTime = timers[k].endTime
      /\ timers'[m].endTime = clock
  <2>1. timers' \in Seq(TimedRun) /\ Len(timers') = m
    <3>1. timers' \in Seq(TimedRun)
      BY EndRunTyping, ErrorsType DEF Typing, TypeOK, TimedRun
    <3>2. DOMAIN timers' = DOMAIN timers
      BY <1>1
    <3> QED
      BY <1>3, <3>1, <3>2, LenProperties
  <2>2. DOMAIN timers' = 1 .. m
    BY <2>1, LenProperties
  <2>3. timers' = [timers EXCEPT ![m] = [timers[m] EXCEPT !.endTime = clock]]
    BY <1>1, <1>5
  <2>4. LET e == [timers[m] EXCEPT !.endTime = clock]
        IN  e.name = timers[m].name /\ e.startTime = timers[m].startTime /\ e.endTime = clock
    BY <1>7 DEF TimedRun
  <2>5. timers'[m] = [timers[m] EXCEPT !.endTime = clock]
        /\ \A k \in 1 .. m : k # m => timers'[k] = timers[k]
    BY <1>3, <1>6, <2>3
  <2> QED
    BY <2>1, <2>2, <2>4, <2>5
<1>9. Reported' = Reported /\ Own' = Own /\ OwnEnded' = OwnEnded \cup {m} /\ m \notin OwnEnded
      /\ OwnEnded \subseteq 1 .. m
  <2>1. Reported' = Reported
    BY <1>1 DEF Reported
  <2>2. Own' = Own
    BY <1>8, <2>1 DEF Own
  <2>3. OwnEnded = {k \in 1 .. m : k > Reported /\ k <= m - 1}
    BY <1>4 DEF OwnEnded
  <2>4. OwnEnded' = {k \in 1 .. m : k > Reported /\ k <= m - 0}
    BY <1>4, <1>8, <2>1 DEF OwnEnded
  <2>5. \A k \in 1 .. m : k <= m - 0 /\ (k <= m - 1 <=> k # m)
    BY <1>3, BelowLast
  <2> QED
    BY <1>6, <2>1, <2>2, <2>3, <2>4, <2>5
<1>10. Rows'
  BY <1>1 DEF Rows
<1>11. InBuild' = InBuild /\ Test' = Test /\ (\A k : RowOf(k)' = RowOf(k))
  BY <1>1 DEF InBuild, Test, RowOf
<1>12. spent' = SumElapsed(OwnEnded)'
  <2>1. /\ IsFiniteSet(OwnEnded)
        /\ \A k \in OwnEnded : f[k] = g[k]
        /\ \A k \in OwnEnded \cup {m} : g[k] \in Int
        /\ g[m] = clock - timers[m].startTime
    <3>1. IsFiniteSet(OwnEnded)
      BY <1>2, <1>9, ElapsedType
    <3>2. \A k \in OwnEnded : k \in 1 .. m /\ k # m
      BY <1>9
    <3>3. ASSUME NEW k \in OwnEnded
          PROVE  f[k] = g[k] /\ f[k] \in Int
      <4>1. k \in 1 .. m /\ k # m
        BY <3>2
      <4>2. f[k] = timers[k].endTime - timers[k].startTime
        BY <1>3, <4>1
      <4>3. g[k] = timers'[k].endTime - timers'[k].startTime
        BY <1>8, <4>1
      <4>4. timers[k].endTime \in Int /\ timers[k].startTime \in Int
        BY <1>3, <4>1
      <4>5. timers'[k].endTime = timers[k].endTime /\ timers'[k].startTime = timers[k].startTime
        BY <1>8, <4>1
      <4> HIDE DEF f, g
      <4> QED
        BY <4>2, <4>3, <4>4, <4>5
    <3>4. g[m] = clock - timers[m].startTime /\ g[m] \in Int
      <4>1. g[m] = timers'[m].endTime - timers'[m].startTime
        BY <1>6, <1>8
      <4>2. timers'[m].endTime = clock /\ timers'[m].startTime = timers[m].startTime
        BY <1>6, <1>8
      <4> HIDE DEF g
      <4> QED
        BY <1>3, <1>7, <4>1, <4>2
    <3> HIDE DEF f, g
    <3> QED
      BY <3>1, <3>3, <3>4
  <2>2. SumElapsed(OwnEnded)' = SumFunctionOnSet(g, OwnEnded \cup {m})
    BY <1>9 DEF SumElapsed
  <2>3. SumElapsed(OwnEnded) = SumFunctionOnSet(f, OwnEnded)
    BY DEF SumElapsed
  <2>4. SumElapsed(OwnEnded) \in Int
    BY <1>2, OwnSumType
  <2>5. spent = SumElapsed(OwnEnded) + (clock - timers[m].startTime)
    BY <1>4, <1>5 DEF Timed
  <2> HIDE DEF f, g
  <2>6. SumFunctionOnSet(f, OwnEnded) = SumFunctionOnSet(g, OwnEnded)
    BY <2>1, SumCongruence
  <2>7. SumFunctionOnSet(g, OwnEnded \cup {m}) = g[m] + SumFunctionOnSet(g, OwnEnded)
    BY <1>9, <2>1, SumAdd
  <2>8. clock - timers[m].startTime \in Int
    BY <1>3, <1>7
  <2> QED
    BY <1>1, <2>1, <2>2, <2>3, <2>4, <2>5, <2>6, <2>7, <2>8
<1>13. /\ Len(timers') = Reported + (i + 1) + 0
       /\ \A k \in 1 .. Reported : timers'[k].name = log[RowOf(k)].test
       /\ \A k \in Own : InBuild /\ timers'[k].name = Test
       /\ \A k \in 1 .. m : k <= m - 0 => timers'[k].endTime > 0
  <2>1. \A k \in 1 .. Reported : k \in 1 .. m
    BY <1>3, <1>6
  <2>2. \A k \in Own : k \in 1 .. m
    BY DEF Own
  <2>3. Len(timers') = Reported + (i + 1) + 0
    BY <1>3, <1>5, <1>8
  <2>4. \A k \in 1 .. Reported : timers'[k].name = log[RowOf(k)].test
    BY <1>8, <2>1 DEF Timed
  <2>5. \A k \in Own : InBuild /\ timers'[k].name = Test
    BY <1>8, <2>2 DEF Timed
  <2>6. clock > 0
    <3>1. clock \in 1 .. MaxTime /\ MaxTime \in Nat
      BY TimeAssumption DEF Typing
    <3> QED
      BY <3>1
  <2>7. \A k \in 1 .. m : k <= m - 0 => timers'[k].endTime > 0
    <3> TAKE k \in 1 .. m
    <3>1. CASE k = m
      BY <1>6, <1>8, <2>6, <3>1
    <3>2. CASE k # m
      <4>1. k <= m - Running
        BY <1>3, <1>4, <3>2, BelowLast
      <4> QED
        BY <1>8, <3>2, <4>1 DEF Timed
    <3> QED
      BY <3>1, <3>2
  <2> QED
    BY <2>3, <2>4, <2>5, <2>6, <2>7
<1>14. SumElapsed(OwnEnded)' + 0 = spent'
  <2>1. spent \in Int
    <3>1. SumElapsed(OwnEnded) \in Int /\ clock - timers[m].startTime \in Int
      BY <1>2, <1>3, <1>7, OwnSumType
    <3>2. spent = SumElapsed(OwnEnded) + (clock - timers[m].startTime)
      BY <1>4, <1>5 DEF Timed
    <3> QED
      BY <3>1, <3>2
  <2> QED
    BY <1>1, <1>12, <2>1
<1>15. Timed'
  BY <1>1, <1>4, <1>8, <1>9, <1>11, <1>13, <1>14 DEF Timed
<1> QED
  BY <1>10, <1>15

(* The row of a test is that of its own runs.                              *)
LEMMA OwnAverage ==
  ASSUME Typing, Rows, Timed, EndTest
  PROVE  AverageTime(Test) = [total |-> spent, num |-> numIter]
<1>1. pc = "tests" /\ InBuild /\ ~MoreRuns
  BY DEF EndTest, Goto
<1>2. log \in Seq(Row)
  BY DEF Rows
<1>3. /\ numIter \in Nat /\ i \in 0 .. numIter /\ Reported \in Nat /\ Len(timers) \in Nat
  BY <1>2, ReportTypes DEF Typing, TypeOK
<1>4. i = numIter /\ Running = 0
  BY <1>1, <1>3 DEF MoreRuns, Running
<1>5. Len(timers) = Reported + numIter
  BY <1>3, <1>4 DEF Timed
<1>6. EventsOf(Test) = Own
  BY <1>1, OwnEventsOnly
<1>7. OwnEnded = Own
  BY <1>3, <1>4 DEF Own, OwnEnded
<1>8. Cardinality(Own) = numIter
  <2>1. Own = Reported + 1 .. Reported + numIter
    BY <1>3, <1>5 DEF Own
  <2>2. Cardinality(Reported + 1 .. Reported + numIter) =
          IF Reported + 1 > Reported + numIter THEN 0 ELSE (Reported + numIter) - (Reported + 1) + 1
    BY <1>3, FS_Interval
  <2> QED
    BY <1>3, <2>1, <2>2
<1>9. spent = SumElapsed(Own)
  <2>1. SumElapsed(Own) \in Int
    BY <1>2, <1>7, OwnSumType
  <2>2. spent = SumElapsed(Own) + 0
    BY <1>4, <1>7 DEF Timed
  <2> QED
    BY <2>1, <2>2
<1> QED
  BY <1>6, <1>8, <1>9 DEF AverageTime, NumEvents

LEMMA EndTestReporting ==
  ASSUME Typing, Rows, Timed, EndTest
  PROVE  Rows' /\ Timed'
<1> DEFINE row == [test |-> Test, size |-> memSizeMB, average |-> AverageTime(Test), errors |-> error]
           c == Len(log) + 1
<1>1. /\ UNCHANGED <<timers, timer, clock, numIter, build, memSizeMB>>
      /\ pc = "tests" /\ pc' = "tests" /\ InBuild /\ ~MoreRuns
      /\ t' = t + 1 /\ i' = 0 /\ spent' = 0
      /\ log' = IF HasEvents THEN Append(log, row) ELSE log
  BY SameElements DEF EndTest, Goto, run, queueVars
<1>2. log \in Seq(Row) /\ TypeOK
  BY DEF Rows, Typing
<1>3. /\ numIter \in Nat /\ i \in 0 .. numIter /\ Reported \in Nat /\ Len(log) \in Nat
      /\ Len(timers) \in Nat /\ DOMAIN timers = 1 .. Len(timers)
      /\ error \in Nat /\ memSizeMB \in Nat /\ t \in 1 .. 9
  BY <1>2, ReportTypes DEF TypeOK
<1>4. i = numIter /\ Running = 0 /\ Running' = 0
  BY <1>1, <1>3 DEF MoreRuns, Running
<1>5. Len(timers) = Reported + numIter
  BY <1>3, <1>4 DEF Timed
<1>6. Test = Tests[t] /\ Tests[t] \in build /\ Test \in Range(Tests)
  BY <1>1, <1>2, CurrentTest DEF InBuild, Test
<1>7. row \in Row
  <2>1. AverageTime(Test) \in [total : Int, num : Nat]
    <3>1. AverageTime(Test) = [total |-> spent, num |-> numIter]
      BY OwnAverage
    <3>2. spent \in Int
      <4>1. spent = SumElapsed(OwnEnded) + 0 /\ SumElapsed(OwnEnded) \in Int
        BY <1>2, <1>4, OwnSumType DEF Timed
      <4> QED
        BY <4>1
    <3> QED
      BY <1>3, <3>1, <3>2
  <2> QED
    BY <1>3, <1>6, <2>1 DEF Row
<1>8. row.test = Test /\ row.size = memSizeMB
  OBVIOUS
<1>9. HasEvents <=> numIter > 0
  <2>1. NumEvents(Test) = numIter
    BY OwnAverage DEF AverageTime
  <2>2. Len(timers) > 0 => numIter > 0
    <3>1. numIter = 0 => Len(log) = 0
      BY DEF Rows
    <3>2. numIter = 0 => Reported = 0
      BY <1>3, <3>1 DEF Reported
    <3> QED
      BY <1>3, <1>5, <3>2
  <2>3. numIter > 0 => Len(timers) > 0
    BY <1>3, <1>5
  <2> QED
    BY <2>1, <2>2, <2>3 DEF HasEvents
<1> HIDE DEF row
<1>10. /\ t' - 1 = t /\ \A p \in 1 .. t : p \in 1 .. t - 1 \/ p = t
       /\ \A p \in 1 .. t - 1 : p \in 1 .. t /\ p < t
       /\ t \in 1 .. t
  BY <1>1, <1>3
<1>11. CASE numIter = 0
  <2>1. log' = log /\ log = <<>> /\ Len(log) = 0
    BY <1>1, <1>3, <1>9, <1>11 DEF Rows
  <2>2. Reported = 0 /\ Reported' = 0 /\ Len(timers) = 0
    BY <1>1, <1>3, <1>5, <1>11, <2>1 DEF Reported
  <2>3. Rows'
    BY <1>1, <1>11, <2>1, <1>2 DEF Rows
  <2>4. Own' = {} /\ OwnEnded' = {}
    BY <1>1, <2>2 DEF Own, OwnEnded
  <2>5. SumElapsed(OwnEnded)' = 0
    BY <2>4, SumEmpty DEF SumElapsed
  <2>6. Len(timers') = Reported' + i' + Running'
    BY <1>1, <1>4, <2>2
  <2>7. spent' = SumElapsed(OwnEnded)' + 0
    BY <1>1, <2>5
  <2>8. Timed'
    BY <1>1, <1>4, <2>2, <2>4, <2>6, <2>7 DEF Timed
  <2> QED
    BY <2>3, <2>8
<1>12. CASE numIter > 0
  <2>1. log' = Append(log, row)
    BY <1>1, <1>9, <1>12
  <2>2. /\ log' \in Seq(Row) /\ Len(log') = c /\ log'[c] = row
        /\ \A k \in 1 .. Len(log) : log'[k] = log[k]
    BY <1>2, <1>7, <2>1, AppendProperties
  <2>3. /\ c \in Nat /\ \A k \in 1 .. c : k \in 1 .. Len(log) \/ k = c
        /\ \A k \in 1 .. Len(log) : k \in 1 .. c
        /\ c \in 1 .. c /\ \A j, k \in 1 .. c : j < k => j \in 1 .. Len(log)
    BY <1>3
  <2> HIDE DEF c
  <2>4. Rows'
    <3>1. \A k \in 1 .. c : log'[k].size = memSizeMB
      BY <1>8, <2>2, <2>3 DEF Rows
    <3>2. ASSUME NEW k \in 1 .. c
          PROVE  \E p \in 1 .. t : Tests[p] \in build /\ log'[k].test = Tests[p]
      <4>1. CASE k = c
        BY <1>6, <1>8, <1>10, <2>2, <4>1
      <4>2. CASE k \in 1 .. Len(log)
        <5>1. PICK p \in 1 .. t - 1 : Tests[p] \in build /\ log[k].test = Tests[p]
          BY <4>2 DEF Rows
        <5> QED
          BY <1>10, <2>2, <4>2, <5>1
      <4> QED
        BY <2>3, <4>1, <4>2
    <3>3. ASSUME NEW p \in 1 .. t, Tests[p] \in build
          PROVE  \E k \in 1 .. c : log'[k].test = Tests[p]
      <4>1. CASE p = t
        BY <1>6, <1>8, <2>2, <2>3, <4>1
      <4>2. CASE p \in 1 .. t - 1
        <5>1. PICK k \in 1 .. Len(log) : log[k].test = Tests[p]
          BY <1>12, <3>3, <4>2 DEF Rows
        <5> QED
          BY <2>2, <2>3, <5>1
      <4> QED
        BY <1>10, <4>1, <4>2
    <3>4. ASSUME NEW j \in 1 .. c, NEW k \in 1 .. c, j < k
          PROVE  \E p, q \in 1 .. t : p < q /\ Tests[p] = log'[j].test /\ Tests[q] = log'[k].test
      <4>1. j \in 1 .. Len(log) /\ log'[j] = log[j]
        BY <2>2, <2>3, <3>4
      <4>2. CASE k = c
        <5>1. PICK p \in 1 .. t - 1 : log[j].test = Tests[p]
          BY <4>1 DEF Rows
        <5>2. log'[k].test = Tests[t]
          BY <1>6, <1>8, <2>2, <4>2
        <5> QED
          BY <1>10, <4>1, <5>1, <5>2
      <4>3. CASE k \in 1 .. Len(log)
        <5>1. log'[k] = log[k]
          BY <2>2, <4>3
        <5>2. PICK p, q \in 1 .. t - 1 : p < q /\ Tests[p] = log[j].test /\ Tests[q] = log[k].test
          BY <3>4, <4>1, <4>3 DEF Rows
        <5> QED
          BY <1>10, <4>1, <5>1, <5>2
      <4> QED
        BY <2>3, <4>2, <4>3
    <3>5. numIter # 0
      BY <1>3, <1>12
    <3>6. log' \in Seq(Row) /\ \A k \in 1 .. Len(log') : log'[k].size = memSizeMB'
      BY <1>1, <2>2, <3>1
    <3>7. \A k \in 1 .. Len(log') : \E p \in 1 .. t' - 1 : Tests[p] \in build' /\ log'[k].test = Tests[p]
      <4>1. build' = build /\ t' - 1 = t /\ Len(log') = c
        BY <1>1, <1>10, <2>2
      <4> QED
        BY <3>2, <4>1, Zenon
    <3>8. \A p \in 1 .. t' - 1 : numIter' > 0 /\ Tests[p] \in build' =>
            \E k \in 1 .. Len(log') : log'[k].test = Tests[p]
      BY <1>1, <1>10, <2>2, <3>3, Zenon
    <3>9. \A j, k \in 1 .. Len(log') : j < k =>
            \E p, q \in 1 .. t' - 1 : p < q /\ Tests[p] = log'[j].test /\ Tests[q] = log'[k].test
      <4> TAKE j, k \in 1 .. Len(log')
      <4> HAVE j < k
      <4>1. PICK p, q \in 1 .. t : p < q /\ Tests[p] = log'[j].test /\ Tests[q] = log'[k].test
        BY <2>2, <3>4
      <4> QED
        BY <1>10, <4>1
    <3>10. numIter' = 0 => log' = <<>>
      BY <1>1, <3>5
    <3> QED
      BY <3>6, <3>7, <3>8, <3>9, <3>10 DEF Rows
  <2>5. Reported' = Reported + numIter
    <3>1. numIter * (Len(log) + 1) = numIter * Len(log) + numIter
      BY <1>3
    <3> QED
      BY <1>1, <2>2, <3>1 DEF Reported, c
  <2>6. Len(timers') = Reported' /\ Reported' = Len(timers)
    BY <1>1, <1>5, <2>5
  <2>7. Own' = {} /\ OwnEnded' = {}
    <3>1. \A k \in 1 .. Len(timers) : ~(k > Len(timers))
      BY <1>3
    <3> QED
      BY <1>1, <2>6, <3>1 DEF Own, OwnEnded
  <2>8. SumElapsed(OwnEnded)' = 0
    BY <2>7, SumEmpty DEF SumElapsed
  <2>9. ASSUME NEW k \in 1 .. Reported'
        PROVE  timers[k].name = log'[RowOf(k)].test
    <3>1. k \in 1 .. Len(timers) /\ k \in Nat \ {0} /\ numIter \in Nat \ {0}
      BY <1>3, <1>12, <2>6, <2>9
    <3>2. /\ RowOf(k) \in Nat \ {0}
          /\ k <= numIter * Len(log) <=> RowOf(k) <= Len(log)
          /\ k <= numIter * c <=> RowOf(k) <= c
      BY <1>3, <2>3, <3>1, BlockNumber DEF RowOf
    <3>3. CASE k <= Reported
      <4>1. RowOf(k) \in 1 .. Len(log)
        BY <1>3, <3>2, <3>3 DEF Reported
      <4>2. k \in 1 .. Reported
        BY <1>3, <3>1, <3>3
      <4> QED
        BY <2>2, <4>1, <4>2 DEF Timed
    <3>4. CASE ~(k <= Reported)
      <4>1. RowOf(k) = c
        <5>1. k <= numIter * c
          BY <1>1, <2>2, <2>9 DEF Reported
        <5>2. ~(RowOf(k) <= Len(log)) /\ RowOf(k) <= c
          BY <3>2, <3>4, <5>1 DEF Reported
        <5> QED
          BY <1>3, <3>2, <5>2 DEF c
      <4>2. k \in Own
        BY <1>3, <3>1, <3>4 DEF Own
      <4> QED
        BY <1>8, <2>2, <4>1, <4>2 DEF Timed
    <3> QED
      BY <3>3, <3>4
  <2>10. Len(timers') = Reported' + i' + Running' /\ spent' = SumElapsed(OwnEnded)' + 0
    BY <1>1, <1>3, <1>4, <2>6, <2>8
  <2>11. \A k \in 1 .. Len(timers) : k <= Len(timers) - 0 => timers[k].endTime > 0
    BY <1>4 DEF Timed
  <2>12. \A k : RowOf(k)' = RowOf(k)
    BY <1>1 DEF RowOf
  <2>13. Running' # 1
    BY <1>4
  <2>14. spent' = SumElapsed(OwnEnded)' + IF Running' = 1 THEN clock' - timers'[timer'].startTime ELSE 0
    BY <2>10, <2>13
  <2>15. Timed'
    BY <1>1, <1>4, <2>7, <2>9, <2>10, <2>11, <2>12, <2>13, <2>14, Zenon DEF Timed
  <2> QED
    BY <2>4, <2>15
<1> QED
  BY <1>3, <1>11, <1>12

LEMMA InitReporting == Init => Reporting
BY DEF Init, QueueInit, Reporting, Started

LEMMA ArgsReporting ==
  ASSUME Reporting,
         ParseMemSize \/ ParseIterations \/ SkipArg \/ Usage \/ EndArgs \/ WriteOutOfBounds
  PROVE  Reporting'
<1> USE DEF Goto, output, history, queueVars
<1>1. pc \in {"arguments", "generate"} /\ pc' \in {"arguments", "generate", "exited", "out of bounds"}
      /\ UNCHANGED <<log, timers, spent>>
  BY DEF ParseMemSize, ParseIterations, SkipArg, Usage, EndArgs, WriteOutOfBounds
<1>2. pc' = "out of bounds" => NumElements' = 0
  <2> SUFFICES ASSUME pc' = "out of bounds" PROVE NumElements' = 0
    OBVIOUS
  <2>1. WriteOutOfBounds
    BY DEF ParseMemSize, ParseIterations, SkipArg, Usage, EndArgs
  <2> QED
    BY <2>1, SameElements DEF WriteOutOfBounds
<1> QED
  BY <1>1, <1>2 DEF Reporting, Started

LEMMA GenerateReporting ==
  ASSUME Typing, Reporting, Generate
  PROVE  Reporting'
<1>1. /\ pc = "generate" /\ pc' = "tests" /\ log' = <<>> /\ timers' = <<>> /\ spent' = 0
      /\ UNCHANGED <<t, i, numIter>> /\ t = 1 /\ i = 0
  BY SameElements DEF Generate, Goto, Reporting, Typing, counts, output, history, queueVars
<1>2. numIter \in Nat /\ Len(log') = 0 /\ Len(timers') = 0 /\ log' \in Seq(Row)
  BY <1>1, EmptySeq DEF Typing, TypeOK
<1>3. Reported' = 0 /\ Own' = {} /\ OwnEnded' = {} /\ Running' = 0
  <2>1. Reported' = 0
    BY <1>1, <1>2 DEF Reported
  <2>2. Running' = 0
    BY <1>1 DEF Running
  <2> QED
    BY <1>2, <2>1, <2>2 DEF Own, OwnEnded
<1>4. SumElapsed(OwnEnded)' = 0
  BY <1>3, SumEmpty DEF SumElapsed
<1>5. Rows'
  BY <1>1, <1>2 DEF Rows
<1>6. Timed'
  <2>1. spent' = SumElapsed(OwnEnded)' + 0 /\ Len(timers') = Reported' + i' + Running'
    BY <1>1, <1>2, <1>3, <1>4
  <2> QED
    BY <1>2, <1>3, <2>1 DEF Timed
<1> QED
  BY <1>1, <1>5, <1>6 DEF Reporting, Started

LEMMA StepReporting == Typing /\ Reporting /\ [Next]_vars => Reporting'
<1> SUFFICES ASSUME Typing, Reporting, [Next]_vars PROVE Reporting'
  OBVIOUS
<1>1. CASE ParseMemSize \/ ParseIterations \/ SkipArg \/ Usage \/ EndArgs \/ WriteOutOfBounds
  BY <1>1, ArgsReporting
<1>2. CASE Generate
  BY <1>2, GenerateReporting
<1>3. CASE SkipTest \/ BeginRun \/ EndRun \/ EndTest
  <2>1. pc \in {"tests", "stop"} /\ pc' \in {"tests", "transfer"}
    BY <1>3 DEF SkipTest, BeginRun, EndRun, EndTest, Goto
  <2>2. Rows /\ Timed
    BY <2>1 DEF Reporting, Started
  <2>3. Rows' /\ Timed'
    BY <1>3, <2>2, SkipTestReporting, BeginRunReporting, EndRunReporting, EndTestReporting
  <2> QED
    BY <2>1, <2>3 DEF Reporting
<1>4. CASE Tick \/ SetBack \/ TransferToDevice \/ TransferToHost
  <2>1. /\ pc \in {"transfer", "stop"} /\ pc' \in {"transfer", "stop"}
        /\ UNCHANGED <<log, timers, timer, numIter, build, memSizeMB, i, t>>
        /\ \/ clock' = clock /\ spent' = spent
           \/ clock' = clock + 1 /\ spent' = spent + 1
           \/ clock' = clock - 1 /\ spent' = spent - 1
    BY <1>4, SameElements
       DEF Tick, SetBack, TransferToDevice, TransferToHost, Spoil, Goto, run, counts, output, queueVars
  <2>2. Rows /\ Timed /\ Running = 1 /\ Running' = 1
    BY <2>1 DEF Reporting, Started, Running
  <2>3. Rows' /\ Timed'
    BY <2>1, <2>2, ReportingKept
  <2> QED
    BY <2>1, <2>3 DEF Reporting
<1>5. CASE WriteLog \/ Return
  <2>1. /\ \/ pc = "tests" /\ pc' = "return" /\ prefix' = "memtest" /\ t > Len(Tests)
           \/ pc = "return" /\ pc' = "returned" /\ html' = Timeline
        /\ UNCHANGED <<log, timers, timer, numIter, build, memSizeMB, i, t, clock, spent, v>>
        /\ Elements' = Elements
    BY <1>5, SameElements DEF WriteLog, Return, Goto, run, counts, output, queueVars, history
  <2>2. Rows /\ Timed /\ Running = 0 /\ Running' = 0
    BY <2>1 DEF Reporting, Started, Running
  <2>3. Rows' /\ Timed'
    BY <2>1, <2>2, ReportingKept
  <2>4. t = 9 /\ v \in [Elements -> Numbers]
    <3>1. CASE pc = "tests"
      <4>1. t \in 1 .. 9 /\ t > Len(Tests) /\ Len(Tests) = 8
        BY <2>1, <3>1, CurrentTest DEF Typing
      <4> QED
        BY <3>1, <4>1 DEF Typing, Testing, RunTyping
    <3>2. CASE pc = "return"
      BY <3>2 DEF Reporting
    <3> QED
      BY <2>1, <3>1, <3>2
  <2>5. pc = "return" => html'.file = "memtest" /\ html'.rows = timers
    BY <2>1 DEF Reporting, Timeline
  <2> QED
    BY <2>1, <2>3, <2>4, <2>5 DEF Reporting
<1>6. CASE Throw
  BY <1>6 DEF Throw, Goto, Reporting, Started
<1>7. CASE UNCHANGED vars
  <2>1. /\ UNCHANGED <<pc, log, timers, timer, numIter, build, memSizeMB, i, t, clock, spent, v, html, prefix>>
        /\ Elements' = Elements /\ NumElements' = NumElements
    BY <1>7, SameElements DEF vars, run, counts, output, queueVars, history
  <2>2. Running' = Running /\ Started' = Started
    BY <2>1 DEF Running, Started
  <2>3. Started => Rows' /\ Timed'
    BY <2>1, <2>2, ReportingKept DEF Reporting
  <2> QED
    BY <2>1, <2>2, <2>3 DEF Reporting
<1> QED
  BY <1>1, <1>2, <1>3, <1>4, <1>5, <1>6, <1>7 DEF Next

LEMMA ReportingHolds == Spec => [](Typing /\ Reporting)
<1> QED
  BY InitTyping, StepTyping, InitReporting, StepReporting, PTL DEF Spec

(* A test that has run had what it needs.                                  *)
Ran(p) == numIter > 0 /\ Tests[p] \in build \cap OpenCLTests

Served ==
  /\ pc = "tests" /\ ~InBuild => i = 0
  /\ pc = "stop" => Works
  /\ pc \in {"tests", "transfer"} /\ InBuild /\ i > 0 => Works
  /\ Started => \A p \in 1 .. t - 1 : Ran(p) => oclSetup

LEMMA InitServed == Init => Served
BY DEF Init, Served, Started

LEMMA NextTestServed ==
  ASSUME Typing, Served, SkipTest \/ EndTest
  PROVE  Served'
<1>1. /\ pc = "tests" /\ pc' = "tests" /\ t' = t + 1 /\ t \in 1 .. 9 /\ t <= Len(Tests)
      /\ numIter' = numIter /\ build' = build /\ oclSetup' = oclSetup
  BY CurrentTest, SameElements DEF SkipTest, EndTest, Goto, InBuild, Typing
<1>2. i' = 0
  BY <1>1 DEF SkipTest, EndTest, InBuild, Served
<1>3. Ran(t) => oclSetup
  <2> SUFFICES ASSUME Ran(t) PROVE oclSetup
    OBVIOUS
  <2>1. InBuild /\ ~MoreRuns
    BY <1>1 DEF SkipTest, EndTest, InBuild, Test, Ran
  <2>2. i \in 0 .. numIter /\ numIter \in Nat /\ numIter > 0
    BY DEF Typing, TypeOK, Ran
  <2>3. i > 0
    BY <2>1, <2>2 DEF MoreRuns
  <2> QED
    BY <1>1, <2>1, <2>3 DEF Served, Works, Test, Ran
<1>4. \A p \in 1 .. t' - 1 : Ran(p) => oclSetup
  <2>1. \A p \in 1 .. t - 1 : Ran(p) => oclSetup
    BY <1>1 DEF Served, Started
  <2>2. \A p \in 1 .. t' - 1 : p \in 1 .. t - 1 \/ p = t
    BY <1>1
  <2> QED
    BY <1>3, <2>1, <2>2
<1> QED
  BY <1>1, <1>2, <1>4 DEF Served, Ran

LEMMA StepServed == Typing /\ Served /\ [Next]_vars => Served'
<1>1. ~Started' => Served'
  BY DEF Served, Started
<1> SUFFICES ASSUME Typing, Served, [Next]_vars, Started' PROVE Served'
  BY <1>1
<1>2. CASE Generate
  <2>1. i' = 0 /\ t' = 1 /\ pc' = "tests"
    BY <1>2 DEF Generate, Goto, Typing, counts
  <2> QED
    BY <2>1 DEF Served
<1>3. CASE SkipTest \/ EndTest
  BY <1>3, NextTestServed
<1>4. CASE \/ Tick \/ SetBack \/ BeginRun \/ TransferToDevice \/ TransferToHost \/ EndRun
           \/ WriteLog \/ Return \/ UNCHANGED vars
  <2>1. /\ UNCHANGED <<numIter, build, oclSetup, t>> /\ Started
        /\ Works' = Works /\ InBuild' = InBuild
    <3>1. UNCHANGED <<program, t>>
      BY <1>4 DEF Tick, SetBack, BeginRun, TransferToDevice, TransferToHost, EndRun, WriteLog, Return,
                  vars, counts
    <3>2. Started
      <4>1. CASE UNCHANGED vars
        BY <4>1 DEF vars, Started
      <4>2. CASE ~UNCHANGED vars
        <5>1. pc \in {"tests", "transfer", "stop", "return"}
          BY <1>4, <4>2 DEF Tick, SetBack, BeginRun, TransferToDevice, TransferToHost, EndRun, WriteLog,
                            Return, Goto
        <5> QED
          BY <5>1 DEF Started
      <4> QED
        BY <4>1, <4>2
    <3> QED
      BY <3>1, <3>2, SameElements DEF Works, InBuild, Test
  <2>2. \A p \in 1 .. t - 1 : Ran(p)' => oclSetup'
    BY <2>1 DEF Served, Ran
  <2>3. CASE EndRun
    <3>1. pc = "stop" /\ pc' = "tests" /\ Works /\ InBuild
      BY <2>3 DEF EndRun, Goto, Served, Typing, Testing, RunTyping
    <3> QED
      BY <2>1, <2>2, <3>1 DEF Served
  <2>4. CASE TransferToDevice \/ TransferToHost
    <3>1. pc' = "stop" /\ Works
      BY <2>4 DEF TransferToDevice, TransferToHost, Goto
    <3> QED
      BY <2>1, <2>2, <3>1 DEF Served
  <2>5. CASE WriteLog \/ Return
    <3>1. pc' \in {"return", "returned"}
      BY <2>5 DEF WriteLog, Return, Goto
    <3> QED
      BY <2>1, <2>2, <3>1 DEF Served
  <2>6. CASE Tick \/ SetBack \/ BeginRun \/ UNCHANGED vars
    <3>1. /\ i' = i
          /\ pc' = pc \/ (pc = "tests" /\ pc' = "transfer")
      BY <2>6 DEF Tick, SetBack, BeginRun, vars, counts, Goto
    <3> QED
      BY <2>1, <2>2, <3>1 DEF Served
  <2> QED
    BY <1>4, <2>3, <2>4, <2>5, <2>6
<1>5. CASE ParseMemSize \/ ParseIterations \/ SkipArg \/ Usage \/ EndArgs \/ WriteOutOfBounds \/ Throw
  <2>1. ~Started'
    BY <1>5 DEF ParseMemSize, ParseIterations, SkipArg, Usage, EndArgs, WriteOutOfBounds, Throw, Goto, Started
  <2> QED
    BY <2>1
<1> QED
  BY <1>2, <1>3, <1>4, <1>5 DEF Next

LEMMA ServedHolds == Spec => [](Typing /\ Served)
<1> QED
  BY InitTyping, StepTyping, InitServed, StepServed, PTL DEF Spec

(* The average in a row is over the time spent in the runs of that test,   *)
(* no other, and each of them has ended.                                   *)
THEOREM RowsOwnTimeHolds == Spec => RowsOwnTime
<1>1. Typing /\ Reporting /\ [Next]_vars =>
        [log' # log => Last(log').average = [total |-> spent, num |-> numIter]]_vars
  <2> SUFFICES ASSUME Typing, Reporting, [Next]_vars, log' # log
               PROVE  Last(log').average = [total |-> spent, num |-> numIter]
    OBVIOUS
  <2>1. EndTest
    BY DEF Next, vars, output, Tick, SetBack, Throw, ParseMemSize, ParseIterations, SkipArg, Usage, EndArgs, Generate,
           WriteOutOfBounds, SkipTest, BeginRun, TransferToDevice, TransferToHost, EndRun, WriteLog, Return
  <2>2. Rows /\ Timed
    BY <2>1 DEF EndTest, Goto, Reporting, Started
  <2>3. log \in Seq(Row) /\ Len(log) \in Nat
    BY <2>2, LenProperties DEF Rows
  <2>4. PICK row : log' = Append(log, row) /\ row.average = AverageTime(Test)
    BY <2>1 DEF EndTest
  <2>5. Last(log') = row
    BY <2>3, <2>4 DEF Last
  <2> QED
    BY <2>1, <2>2, <2>4, <2>5, OwnAverage
<1> QED
  BY <1>1, ReportingHolds, PTL DEF Spec, RowsOwnTime

(* At the end there is a row for each test of the build if it ran at all,  *)
(* in the order of the tests, and the timeline shows every run, ended,     *)
(* under the program's name; the size in a row is that of the vector, if   *)
(* it fits its word.  A program that got here with an OpenCL test to run   *)
(* had its OpenCL set up.                                                  *)
THEOREM EveryTestReportedHolds == Spec => []EveryTestReported
<1>1. ASSUME Typing, Reporting, Fits, memSizeMB > 0 PROVE pc # "out of bounds"
  <2>1. NumElements > 0
    BY <1>1, FittingSize DEF Typing, TypeOK
  <2>2. NumElements # 0
    BY <2>1
  <2> QED
    BY <1>1, <2>2, Zenon DEF Reporting
<1>2. ASSUME Typing, Reporting, Served, pc = "returned"
      PROVE  EveryTestReported
  <2>1. Rows /\ Timed /\ t = 9 /\ v \in [Elements -> Numbers] /\ html.file = "memtest" /\ html.rows = timers
        /\ Running = 0
    BY <1>2 DEF Reporting, Started, Running
  <2>2. log \in Seq(Row)
    BY <2>1 DEF Rows
  <2>3. /\ DOMAIN log = 1 .. Len(log) /\ Len(log) \in Nat /\ numIter \in Nat /\ memSizeMB \in Nat
        /\ Reported \in Nat /\ DOMAIN timers = 1 .. Len(timers) /\ Len(timers) \in Nat
        /\ DOMAIN Tests = 1 .. 8 /\ i \in Nat /\ t - 1 = 8
    <3>1. memSizeMB \in Nat /\ numIter \in Nat
      BY <1>2 DEF Typing, TypeOK
    <3>2. DOMAIN Tests = 1 .. 8
      BY DEF Tests
    <3>3. t - 1 = 8
      BY <2>1
    <3> QED
      BY <1>2, <2>2, <3>1, <3>2, <3>3, ReportTypes
  <2>4. \A k \in DOMAIN log : \E p \in 1 .. 8 : Tests[p] \in build /\ log[k].test = Tests[p]
    <3> TAKE k \in DOMAIN log
    <3>1. k \in 1 .. Len(log)
      BY <2>3
    <3>2. PICK p \in 1 .. t - 1 : Tests[p] \in build /\ log[k].test = Tests[p]
      BY <2>1, <3>1 DEF Rows
    <3>3. p \in 1 .. 8
      BY <2>3
    <3> QED
      BY <3>2, <3>3
  <2>5. numIter > 0 => \A p \in 1 .. 8 : Tests[p] \in build => \E k \in DOMAIN log : log[k].test = Tests[p]
    <3> SUFFICES ASSUME numIter > 0, NEW p \in 1 .. 8, Tests[p] \in build
                 PROVE  \E k \in DOMAIN log : log[k].test = Tests[p]
      OBVIOUS
    <3>1. p \in 1 .. t - 1
      BY <2>3
    <3>2. PICK k \in 1 .. Len(log) : log[k].test = Tests[p]
      BY <2>1, <3>1 DEF Rows
    <3> QED
      BY <2>3, <3>2
  <2>6. {log[k].test : k \in DOMAIN log} = IF numIter > 0 THEN Range(Tests) \cap build ELSE {}
    <3>1. CASE numIter > 0
      <4>1. ASSUME NEW k \in DOMAIN log PROVE log[k].test \in Range(Tests) \cap build
        BY <2>3, <2>4 DEF Range
      <4>2. ASSUME NEW x \in Range(Tests) \cap build PROVE \E k \in DOMAIN log : x = log[k].test
        <5>1. PICK p \in 1 .. 8 : x = Tests[p]
          BY <2>3, <4>2 DEF Range
        <5>2. PICK k \in DOMAIN log : log[k].test = Tests[p]
          BY <2>5, <3>1, <4>2, <5>1
        <5> QED
          BY <5>1, <5>2
      <4> QED
        BY <3>1, <4>1, <4>2
    <3>2. CASE numIter = 0
      <4>1. log = <<>> /\ ~(numIter > 0)
        BY <2>1, <3>2 DEF Rows
      <4>2. DOMAIN log = {}
        BY <4>1
      <4> QED
        BY <4>1, <4>2
    <3>3. numIter > 0 \/ numIter = 0
      BY <2>3
    <3> QED
      BY <3>1, <3>2, <3>3
  <2>7. \A j, k \in DOMAIN log : j < k =>
          \E p, q \in DOMAIN Tests : p < q /\ Tests[p] = log[j].test /\ Tests[q] = log[k].test
    <3> TAKE j, k \in DOMAIN log
    <3> HAVE j < k
    <3>1. j \in 1 .. Len(log) /\ k \in 1 .. Len(log) /\ Rows
      BY <2>1, <2>3
    <3>2. PICK p, q \in 1 .. t - 1 : p < q /\ Tests[p] = log[j].test /\ Tests[q] = log[k].test
      <4>1. \A l, m \in 1 .. Len(log) : l < m =>
              \E p, q \in 1 .. t - 1 : p < q /\ Tests[p] = log[l].test /\ Tests[q] = log[m].test
        BY <3>1 DEF Rows
      <4> QED
        BY <3>1, <4>1
    <3> QED
      BY <2>3, <3>2
  <2>8. ASSUME Fits, NEW k \in DOMAIN log
        PROVE  log[k].size * MB = Cardinality(DOMAIN v) * SizeofFloat
    <3>1. DOMAIN v = Elements /\ log[k].size = memSizeMB
      BY <2>1, <2>3 DEF Rows
    <3>2. NumElements \in Nat /\ NumElements * SizeofFloat = memSizeMB * MB
      BY <2>3, <2>8, FittingSize
    <3>3. Cardinality(Elements) = NumElements
      <4>1. Cardinality(0 .. NumElements - 1) =
              IF 0 > NumElements - 1 THEN 0 ELSE (NumElements - 1) - 0 + 1
        BY <3>2, FS_Interval
      <4> QED
        BY <3>2, <4>1 DEF Elements
    <3> QED
      BY <3>1, <3>2, <3>3
  <2>9. Own = {}
    BY <2>1, TestOrder DEF Timed, InBuild
  <2>10. Len(timers) = numIter * Len(log)
    <3>1. \A k \in 1 .. Len(timers) : k <= Reported
      BY <2>3, <2>9 DEF Own
    <3>2. Len(timers) = Reported + i
      BY <2>1, <2>3 DEF Timed
    <3>3. Len(timers) = Reported
      BY <2>3, <3>1, <3>2
    <3> QED
      BY <3>3 DEF Reported
  <2>11. [k \in DOMAIN timers |-> timers[k].name] =
           [k \in 1 .. numIter * Len(log) |-> log[(k - 1) \div numIter + 1].test]
    BY <2>1, <2>3, <2>10 DEF Timed, Reported, RowOf
  <2>12. ASSUME NEW k \in DOMAIN timers PROVE timers[k].endTime > 0
    <3>1. k \in 1 .. Len(timers) /\ k <= Len(timers) - Running
      BY <2>1, <2>3
    <3> QED
      BY <2>1, <3>1 DEF Timed
  <2>13. numIter > 0 /\ build \cap OpenCLTests # {} => oclSetup
    <3> SUFFICES ASSUME numIter > 0, build \cap OpenCLTests # {} PROVE oclSetup
      OBVIOUS
    <3>1. \A x \in OpenCLTests : \E p \in 1 .. 8 : Tests[p] = x
      BY DEF OpenCLTests, Tests
    <3>2. PICK p \in 1 .. 8 : Tests[p] \in build \cap OpenCLTests
      BY <3>1
    <3>3. p \in 1 .. t - 1 /\ Ran(p)
      BY <2>3, <3>2 DEF Ran
    <3> QED
      BY <1>2, <3>3 DEF Served, Started
  <2> QED
    BY <1>2, <2>1, <2>6, <2>7, <2>8, <2>11, <2>12, <2>13, Zenon DEF EveryTestReported
<1>3. Typing /\ Reporting /\ Served => EveryTestReported
  BY <1>1, <1>2 DEF EveryTestReported
<1> QED
  BY <1>3, ReportingHolds, ServedHolds, PTL
================================================================================
