------------------------------- MODULE MemTest -------------------------------
(***************************************************************************)
(* memory_test/memtest.cpp: main fills a vector, runs every test that the   *)
(* build contains numIter times, first those that transfer the vector to   *)
(* the device, then those that transfer it back, times each run with a     *)
(* SimpleTimer, counts errors, and writes a log with a row for each test.  *)
(*                                                                         *)
(* A transfer may spoil an element: it keeps what the target held before,  *)
(* or becomes junk, or a NaN.  The four tests of each direction differ in  *)
(* the runtime they use (arrays and array_views of C++ AMP, buffers in     *)
(* host or in device memory of OpenCL); each returns when its transfer and *)
(* its kernel are complete, or throws what nobody catches.                 *)
(***************************************************************************)
EXTENDS TimerEventQueue, SequencesExt

CONSTANTS
  CommandLines,  \* sequences of arguments
  Atoi,          \* the number an argument stands for, 0 if it is none
  Builds,        \* sets of tests: ENABLE_CPPAMP, ENABLE_OPENCL or both
  DefaultMemSize, DefaultIterations,
  MB,            \* bytes of a megabyte, in the model a few
  WordSize,      \* numbers of an unsigned int
  Junk, NaN,     \* contents of a spoilt element: some other number, and none
  Rands          \* numbers that rand() returns

SizeofFloat == 4

ASSUME MemTestAssumption ==
  /\ Atoi \in [DOMAIN Atoi -> Nat] /\ CommandLines \subseteq Seq(DOMAIN Atoi)
  /\ MB \in Nat /\ MB >= 2 * SizeofFloat /\ MB % SizeofFloat = 0
  /\ WordSize \in Nat /\ WordSize % MB = 0 /\ WordSize > MB
  /\ DefaultMemSize \in Nat \ {0} /\ DefaultIterations \in Nat \ {0}
  /\ Rands \subseteq Nat
  /\ Junk # NaN /\ {Junk, NaN} \cap Int = {}

(* Mutant of Tests: the vector is transferred back first. *)
MutantTests ==
  << "arrayViewDeviceToHost", "arrayDeviceToHost",
     "zeroCopyDeviceToHost", "deviceMemDeviceToHost",
     "arrayViewHostToDevice", "arrayHostToDevice",
     "zeroCopyHostToDevice", "deviceMemHostToDevice" >>

(* In the order of the enumeration, which is that of the two loops. *)
Tests ==
  << "arrayViewHostToDevice", "arrayHostToDevice",
     "zeroCopyHostToDevice", "deviceMemHostToDevice",
     "arrayViewDeviceToHost", "arrayDeviceToHost",
     "zeroCopyDeviceToHost", "deviceMemDeviceToHost" >>

HostToDevice == {"arrayViewHostToDevice", "arrayHostToDevice",
                 "zeroCopyHostToDevice", "deviceMemHostToDevice"}

(* They use oclSetup, and throw if its constructor did not get through: it *)
(* creates the kernel of the tests that come first last.                   *)
OpenCLTests == {"zeroCopyHostToDevice", "deviceMemHostToDevice",
                "zeroCopyDeviceToHost", "deviceMemDeviceToHost"}

VARIABLES
  argv, build,
  oclSetup,    \* has the constructor of the global oclSetup got through?
  pc,
  memSizeMB, numIter, n,  \* n: the argument that Arg::Arg is at
  v,           \* the vector, by index; what the device returns goes there too
  t,           \* the number of the current test
  i, error,    \* of the current test: runs so far, and errors counted
  rand,        \* the r of the current run
  timer,       \* the index the SimpleTimer of the current run keeps
  result,      \* what the run has returned: the index of a difference
  log,         \* rows of the log file, collected in output
  html,        \* the timeline file
  \* history, of the current test: runs whose transfer spoilt an element,
  \* those of them that made it a NaN, milliseconds the clock went on in runs
  spoilt, spoiltNaN, spent

program == <<argv, build, oclSetup, memSizeMB, numIter, n>>
run     == <<v, rand, timer, result>>
counts  == <<t, i, error>>
output  == <<log, html>>
history == <<spoilt, spoiltNaN, spent>>
vars    == <<queueVars, clock, program, pc, counts, run, output, history>>

(* OpenCLSetup::OpenCLSetup, before main: an error is printed, and that is *)
(* all.  A build without the OpenCL tests has no OpenCLSetup.              *)
OpenCLSetup == oclSetup \in IF build \cap OpenCLTests = {} THEN {TRUE} ELSE BOOLEAN

Goto(from, to) == pc = from /\ pc' = to

Init ==
  /\ QueueInit
  /\ argv \in CommandLines
  /\ build \in Builds
  /\ OpenCLSetup
  /\ pc = "arguments"
  /\ memSizeMB = DefaultMemSize
  /\ numIter = DefaultIterations
  /\ v = <<>>
  /\ n = 1
  /\ t = 1
  /\ i = 0 /\ error = 0
  /\ rand = 0 /\ timer = 0 /\ result = 0
  /\ log = <<>> /\ html = <<>>
  /\ spoilt = 0 /\ spoiltNaN = 0 /\ spent = 0

(* Time passes, for the statistics, while a run is timed. *)
Tick ==
  /\ pc \in {"transfer", "stop"}
  /\ clock < MaxTime
  /\ clock' = clock + 1
  /\ spent' = spent + 1
  /\ UNCHANGED <<queueVars, program, pc, counts, run, output, spoilt, spoiltNaN>>

(* gettimeofday is no monotonic clock. *)
SetBack ==
  /\ pc \in {"transfer", "stop"}
  /\ clock > 1
  /\ clock' = clock - 1
  /\ spent' = spent - 1
  /\ UNCHANGED <<queueVars, program, pc, counts, run, output, spoilt, spoiltNaN>>
------------------------------------------------------------------------------
(* Arg::Arg.  The argument after "-m" or "-i" is its value, whatever it is. *)
ParseMemSize ==
  /\ Goto("arguments", "arguments")
  /\ n < Len(argv) /\ argv[n] = "-m"
  /\ memSizeMB' = Atoi[argv[n + 1]]
  /\ n' = n + 2
  /\ UNCHANGED <<queueVars, clock, argv, build, oclSetup, numIter, counts, run, output, history>>

ParseIterations ==
  /\ Goto("arguments", "arguments")
  /\ n < Len(argv) /\ argv[n] = "-i"
  /\ numIter' = Atoi[argv[n + 1]]
  /\ n' = n + 2
  /\ UNCHANGED <<queueVars, clock, argv, build, oclSetup, memSizeMB, counts, run, output, history>>

SkipArg ==
  /\ Goto("arguments", "arguments")
  /\ n <= Len(argv) /\ argv[n] \notin {"-m", "-i"}
  /\ n' = n + 1
  /\ UNCHANGED <<queueVars, clock, argv, build, oclSetup, memSizeMB, numIter, counts, run, output, history>>

(* "-m" without a value prints the usage and exits. *)
Usage ==
  /\ Goto("arguments", "exited")
  /\ n = Len(argv) /\ argv[n] = "-m"
  /\ UNCHANGED <<queueVars, clock, program, counts, run, output, history>>

(* The arguments are used up, or "-i" without a value ended the loop. *)
EndArgs ==
  /\ Goto("arguments", "generate")
  /\ n > Len(argv) \/ (n = Len(argv) /\ argv[n] = "-i")
  /\ UNCHANGED <<queueVars, clock, program, counts, run, output, history>>

(* The product is computed in an unsigned int. *)
NumElements == ((memSizeMB * MB) % WordSize) \div SizeofFloat

Elements == 0 .. NumElements - 1

(* 0, 1, 2, ... and a 0 at the end. *)
Generated == [k \in Elements |-> IF k = NumElements - 1 THEN 0 ELSE k]

Generate ==
  /\ NumElements > 0
  /\ Goto("generate", "tests")
  /\ v' = Generated
  /\ UNCHANGED <<queueVars, clock, program, counts, rand, timer, result, output, history>>

(* v[v.size()-1] of an empty vector. *)
WriteOutOfBounds ==
  /\ NumElements = 0
  /\ Goto("generate", "out of bounds")
  /\ UNCHANGED <<queueVars, clock, program, counts, run, output, history>>
------------------------------------------------------------------------------
Test == Tests[t]

InBuild == t <= Len(Tests) /\ Test \in build

(* default: continue. *)
SkipTest ==
  /\ t <= Len(Tests) /\ Test \notin build
  /\ Goto("tests", "tests")
  /\ t' = t + 1
  /\ UNCHANGED <<queueVars, clock, program, i, error, run, output, history>>

(* Mutant of MoreRuns: one run too many. *)
MutantMoreRuns == i <= numIter

MoreRuns == i < numIter

BeginRun ==
  /\ InBuild
  /\ MoreRuns
  /\ Goto("tests", "transfer")
  /\ rand' \in IF Test \in HostToDevice THEN {rand} ELSE Rands
  /\ StartSimpleTimer(Test)
  /\ timer' = Len(timers) + 1
  /\ UNCHANGED <<prefix, clock, program, counts, v, result, output, history>>

(* What arrives where sent was sent and before was; at most one element is *)
(* spoilt.                                                                 *)
Arrivals(sent, before) ==
  {sent} \cup {[sent EXCEPT ![k] = x] : k \in Elements, x \in {Junk, NaN}}
         \cup {[sent EXCEPT ![k] = before[k]] : k \in Elements}

(* fabs(x - y) > 0.0001, or 0.001: false if either is a NaN. *)
Differs(x, y) == x # NaN /\ x # y

Spoil(sent, arrived) ==
  /\ spoilt' = IF arrived = sent THEN spoilt ELSE spoilt + 1
  /\ spoiltNaN' = IF \E k \in Elements : arrived[k] = NaN THEN spoiltNaN + 1 ELSE spoiltNaN

(* Each work-item whose element differs from its index stores the index in *)
(* b[0]; the last one stays.  If there is none, b and the host's variable  *)
(* keep what they happened to hold.                                        *)
Found(arrived) ==
  LET different == {k \in Elements : Differs(arrived[k], k)}
  IN  IF different = {} THEN Elements \cup {-1} ELSE different

(* The calls of the test go to a kernel and a queue that are there. *)
Works == Test \in OpenCLTests => oclSetup

TransferToDevice ==
  /\ Goto("transfer", "stop")
  /\ Works
  /\ Test \in HostToDevice
  /\ \E arrived \in Arrivals(v, [k \in Elements |-> Junk]) :
       /\ result' \in Found(arrived)
       /\ Spoil(v, arrived)
  /\ UNCHANGED <<queueVars, clock, program, counts, v, rand, timer, output, spent>>

TransferToHost ==
  /\ Goto("transfer", "stop")
  /\ Works
  /\ Test \notin HostToDevice
  /\ LET sent == [k \in Elements |-> rand + k] IN
       /\ v' \in Arrivals(sent, v)
       /\ Spoil(sent, v')
  /\ UNCHANGED <<queueVars, clock, program, counts, rand, timer, result, output, spent>>

(* The vector cannot be had, or a call of a test throws, as each of the    *)
(* OpenCL tests does without its kernel.  Nothing catches it, and no       *)
(* destructor runs: the timer of the run does not stop, and neither the    *)
(* log nor the timeline is written.                                        *)
Throw ==
  /\ \/ Goto("generate", "aborted") /\ NumElements > 0
     \/ Goto("transfer", "aborted")
  /\ UNCHANGED <<queueVars, clock, program, counts, run, output, history>>

(* result != v.size()-1; count_if(v.begin(), v.end(), output_ref(r)).      *)
Errors ==
  IF Test \in HostToDevice
  THEN IF result = NumElements - 1 THEN 0 ELSE 1
  ELSE Cardinality({k \in Elements : Differs(v[k], rand + k)})

EndRun ==
  /\ Goto("stop", "tests")
  /\ StopSimpleTimer(timer)
  /\ error' = error + Errors
  /\ i' = i + 1
  /\ UNCHANGED <<prefix, clock, program, t, run, output, history>>

(* Mutant of HasEvents: one event is not enough. *)
MutantHasEvents == Len(timers) > 1

(* Is there a row?  The first loop looks at the events of the test, the    *)
(* second one at all events.                                               *)
HasEvents == IF Test \in HostToDevice THEN NumEvents(Test) > 0 ELSE Len(timers) > 0

EndTest ==
  /\ InBuild
  /\ ~MoreRuns
  /\ Goto("tests", "tests")
  /\ log' = IF HasEvents
            THEN Append(log, [test |-> Test, size |-> memSizeMB,
                              average |-> AverageTime(Test), errors |-> error])
            ELSE log
  /\ t' = t + 1
  /\ i' = 0 /\ error' = 0
  /\ spoilt' = 0 /\ spoiltNaN' = 0 /\ spent' = 0
  /\ UNCHANGED <<queueVars, clock, program, run, html>>

(* setLogPrefix; the log is written. *)
WriteLog ==
  /\ t > Len(Tests)
  /\ Goto("tests", "return")
  /\ prefix' = "memtest"
  /\ UNCHANGED <<timers, clock, program, counts, run, output, history>>

(* TimerEventQueue::~TimerEventQueue. *)
Return ==
  /\ Goto("return", "returned")
  /\ html' = Timeline
  /\ UNCHANGED <<queueVars, clock, program, counts, run, log, history>>

Next ==
  \/ Tick \/ SetBack
  \/ ParseMemSize \/ ParseIterations \/ SkipArg \/ Usage \/ EndArgs
  \/ Generate \/ WriteOutOfBounds
  \/ SkipTest \/ BeginRun \/ TransferToDevice \/ TransferToHost \/ Throw
  \/ EndRun \/ EndTest
  \/ WriteLog \/ Return

Spec == Init /\ [][Next]_vars
------------------------------------------------------------------------------
(* The types of the locals of main and of the members of the queue. *)
TypeOK ==
  /\ pc \in {"arguments", "generate", "tests", "transfer", "stop", "return",
             "returned", "exited", "out of bounds", "aborted"}
  /\ oclSetup \in BOOLEAN
  /\ memSizeMB \in Nat /\ numIter \in Nat
  /\ v \in [DOMAIN v -> Int \cup {Junk, NaN}]
  /\ n \in 1 .. Len(argv) + 1
  /\ t \in 1 .. Len(Tests) + 1
  /\ i \in 0 .. numIter /\ error \in Nat
  /\ timer \in 0 .. Len(timers)
  /\ timers \in Seq([name : Range(Tests), startTime : 1 .. MaxTime, endTime : 0 .. MaxTime])
  /\ spoilt \in 0 .. i + 1 /\ spoiltNaN \in 0 .. spoilt

(* The errors are not the program's own: a test counts no more errors than *)
(* elements were spoilt, none after faithful transfers, although every     *)
(* test works on the vector that the tests before it left.  Towards the    *)
(* host it counts all of them that are numbers.                            *)
ErrorsAreFaults ==
  pc = "tests" /\ InBuild =>
    /\ error <= spoilt
    /\ Test \notin HostToDevice => error = spoilt - spoiltNaN

(* The average in a row is over the time spent in the runs of that test,   *)
(* no other, and each of them has ended.                                   *)
RowsOwnTime ==
  [][log' # log => Last(log').average = [total |-> spent, num |-> numIter]]_vars

Fits == memSizeMB * MB < WordSize

(* At the end there is a row for each test of the build if it ran at all,  *)
(* in the order of the tests, and the timeline shows every run, ended,     *)
(* under the program's name: an OpenCL that could not be set up is not     *)
(* passed over.  If the size fits its word, it is that of the vector that  *)
(* was transferred, and what keeps the program from its end is not the     *)
(* size, unless it is 0.                                                   *)
EveryTestReported ==
  /\ Fits /\ memSizeMB > 0 => pc # "out of bounds"
  /\ pc = "returned" =>
       /\ {log[k].test : k \in DOMAIN log} = IF numIter > 0 THEN Range(Tests) \cap build ELSE {}
       /\ \A j, k \in DOMAIN log : j < k =>
            \E p, q \in DOMAIN Tests : p < q /\ Tests[p] = log[j].test /\ Tests[q] = log[k].test
       /\ numIter > 0 /\ build \cap OpenCLTests # {} => oclSetup
       /\ Fits => \A k \in DOMAIN log : log[k].size * MB = Cardinality(DOMAIN v) * SizeofFloat
       /\ html.file = "memtest"
       /\ [k \in DOMAIN html.rows |-> html.rows[k].name] =
            [k \in 1 .. numIter * Len(log) |-> log[(k - 1) \div numIter + 1].test]
       /\ \A k \in DOMAIN html.rows : html.rows[k].endTime > 0
==============================================================================
