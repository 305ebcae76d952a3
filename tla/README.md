# Formal models of cppamp-perf

The repository is a collection of programs written while a C++ AMP / HSA
toolchain was being developed: a `printf` for kernels, two families of timers,
benchmarks, samples of asynchronous APIs, and test cases for compilers.  There is
no single application.  What its parts have in common is a host that gives work
to a device and looks at memory that the device writes, and small data
structures on both sides of that boundary.  This directory models those parts in
TLA+, checks them with TLC on small instances and proves the central facts with
TLAPS.

Contents: [inventory](#inventory) · [modules](#modules-and-code) ·
[runs](#runs) · [bounds](#bounds) · [fairness](#fairness-and-deadlock) ·
[proofs](#proofs) · [what the code does that a reader might not expect](#observations) ·
[not modelled](#not-modelled) · [plan](#plan)

## Inventory

**Device printf** (`printf/hsa_printf.h`).  State: `HSAPrintfPacketQueue`, that is
a buffer of `num` packets, a cursor, an overflow flag and a lock word.
Operations: `hsa_printf`, called by any work-item or host thread, stores a count,
a format and arguments at the cursor or refuses; `hsa_process_printf_queue`,
called by a host, walks the packets, prints them and resets cursor and flag.
They interact through the buffer, under a spin lock.  Hard: the lock spins with
`compare_exchange_weak(unlocked, locked)` without resetting `unlocked`; the
walk trusts counts it reads; overflow.  Correct if: the buffer is always a
sequence of whole messages, each is printed once and in order, a refusal is
reported exactly while it is due, and every call returns.

**Stack timers** (`utilities/StackTimer.cpp`: `TimerStack`, `TimerStackImpl`,
`Timer`, `timer_start`, `timer_stop`).  State: a stack of open events, a queue of
events in the order they started, a queue of those that ended, the root timer.
Operations: construct and destroy a timer, dump the log, destroy the stack (which
writes two files).  Single-threaded.  Hard: orders of destruction nobody tests,
dumps in between, the lifetime of events shared by three containers.  Correct
if: stack and open timers agree, intervals nest, times are attributed to the
scope that is named, every event is reported once, nothing is leaked.

**Simple timers** (`StackTimer.cpp`: `TimerEventQueue`, `SimpleTimer`).  State: a
vector of named events, and in each timer an index into it.  Operations: start,
stop, statistics by name, a timeline written by the destructor.  Used by
memory_test.

**memory_test** (`memory_test/memtest.cpp`).  State: the command line, one vector
that all tests share, the event queue, the log.  Operations: eight transfers
(`array_view`, `array`, zero copy, device memory; each in both directions), each
repeated, verified and reported.  Hard: all tests work on one vector, the
device's verdict is a racy store into an element the host reads, and an OpenCL that could
not be set up is printed and passed over until a test needs it.  Correct if:
errors that are reported are faults of transfers, averages are over the named
test, and every test that ran has a row.

**HSA dispatch** (`hsa_signal/vector_copy.c`, `vector_copy.cl`).  State: handles,
buffers, a queue of packets with its indices and doorbell, two signals.
Operations: the calls that obtain 18 resources, packet submission, the wait, the
comparison, the calls that release.  The device is another process: it takes
packets when the doorbell rings, runs work-items, decrements the signal.  Hard:
every call can fail, a wait can return early, submission races the packet
processor.  Correct if: the host touches what the kernel uses only before and
after it, nothing a running kernel uses is released, no packet is lost, the
comparison means what it says, and the program ends.

**Tile reduction** (`cppamp/reduce/reduce.cpp`).  State: tile memory, locals of
the work-items, the sums of the tiles.  Operations: load, barrier, halve and add,
output, the host's sum.  Hard: the barrier is all that orders the work-items.
Correct if: no race for tile memory, no barrier that some work-item misses,
the same sum as on the host.

**Host and device** (`kalmar_hc/async_pfe`, `compile_link`, `forall`,
`cppamp/vectoradd`, `cppamp/convolution`, `kalmar_hc_samples`, most of
`kalmar_tests`, `HLC_bug/barrier_control_flow`, the kernels of
`cl_amp_blackscholes`).  State: what the host has enqueued, how far each work-item of each
kernel and copy has come, arrays of the host, of the device and of tiles.  Operations:
enqueue on a view that is in order or not, barriers on futures, barriers of a
tile, waits, synchronisation of array views, host loops, comparisons and releases
in between.  Hard: ordering is chosen by the programmer, raw pointers have no
synchronisation of their own, and whether `parallel_for_each` blocks is up to the
runtime.  Correct if: conflicting commands never overlap, work-items of a tile meet
where they exchange data, the host reads what is complete and frees what nobody
uses, each program computes what it is for, and nobody waits for ever.

**Convolution** (`cppamp/convolution/convolution.cpp`).  Pure index arithmetic, done twice:
on a flat array by the host, through a two-dimensional view by the kernel.
Correct if: both address the same pixels.

**Black-Scholes** (`cl_amp_blackscholes/bs_opencl.cpp`).  State: the command line, the
stack of timers, the result arrays.  Operations: each function of `main`, inside a timer
of its own; the program returns, exits from two places or is ended by an
exception.  Hard: what the destructor of the timer stack finds in each case.  Correct if:
the log tells the truth about every scope, and a program that returns has run and verified
what its file names say.

**Everything else**: floating-point formulas, compiler bug
reports, generated code, scripts and recorded output.  See
[not modelled](#not-modelled).

How they interact: Black-Scholes uses the stack timers around each function
(`AUTOTIMER`) and gives kernels to a device; memory_test uses the simple timers;
vector_copy uses the wrappers of `signals.hsail`.  The printf queue is a header
for others to include and has a test of its own.

## Modules and code

| module | models | state and actions |
|---|---|---|
| `PrintfMessage` | packets, `count_arg`, `set_batch` of hsa_printf.h | the packets that a call stores, as a pure function of its arguments |
| `PrintfLog` | what the queue promises | abstract: a bounded sequence of messages; append, refuse, drain, each at one instant |
| `HsaPrintf` | `hsa_printf`, `hsa_process_printf_queue` | one action for each access to a shared variable; `unlocked` is a variable because a failed exchange overwrites it; `fault` records a failed assertion or undefined access |
| `TimerStack` | `TimerStackImpl`, `TimerStack`, `Timer`, C handles | `NewTimer`, `DeleteTimer` (ends the *top* of the stack), `DumpTimerStack`, and the destructor in the four steps the code has |
| `TimerEventQueue` | `TimerEventQueue`, `SimpleTimer` | start and stop by index, statistics by name, timeline; used by `MemTest` through `EXTENDS` |
| `MemTest` | `main` of memtest.cpp | argument parsing one argument at a time, the size computed in 32 bits, both loops of tests, each run as begin, transfer, end; transfers may spoil an element; the OpenCL constructor may fail, any call of a runtime may throw; the wall clock goes forward or is set back while a timer runs |
| `HsaDispatch` | vector_copy.c with the kernel of vector_copy.cl | `SetupCall` and `CleanupCall` walk the sequences of runtime calls, each can fail; packet, write index and doorbell are three steps; the device takes the packet, runs work-items in any order, completes |
| `TileReduction` | the kernel and the sums of reduce.cpp | each work-item's reads and writes of tile memory are steps, the barrier is one step of a whole tile |
| `Convolution` | index arithmetic of convolution.cpp | the element each version writes and those it reads, as functions |
| `HostPrograms` | 37 programs: async.cpp, compile_link, the five Black-Scholes modes, forall, the vector additions, the language tests, group_mem, barrier_bug, convolution, list, bench | data, no state: each program is a sequence of host commands, each kernel a sequence of statements that say what a work-item reads, what it writes and whether a barrier comes before |
| `AcceleratorViews` | one machine that runs any of them | the host enqueues, waits, writes, verifies, frees; each work-item of each command that may start executes one statement at a time; `synchronous` is whether `parallel_for_each` blocks |
| `BlackScholes` | `main`, `Arg` and the calls of bs_opencl.cpp, on the timers of `TimerStack` | one action for each call, body and return; parsing one argument at a time; exit, return and exception; the clock of `TimerStack`, forward and back, for as long as a timer has to be stopped |
| `MC…` | – | values of the constants for TLC |
| `HsaPrintfProofs`, `HsaDispatchProofs`, `TimerStackProofs`, `BlackScholesProofs`, `MemTestProofs`, `TileReductionProofs`, `AcceleratorViewsProofs` | – | theorems |
| `SetSums` | – | lemmas on sums over finite sets, used by the proofs about `TimerStack`, `MemTest` and `TileReduction` |

`HsaPrintf` is shown to implement `PrintfLog` by a refinement mapping: the
messages accepted since the last drain are a history variable, the packets in
use are where the last of them ends, and output and reply are those of threads
that are not inside a call.

Correspondences that are not obvious:

* **The exchange of the printf lock.**  `compare_exchange_weak(unlocked, locked)`
  takes its expected value by reference.  When it fails on a held lock,
  `unlocked` becomes 1, the next attempt exchanges 1 for 1 and succeeds, and the
  release stores whatever `unlocked` holds.  The model has exactly this.
  A spurious failure of the weak form changes nothing and is a stuttering step.
* **History is kept while uncontended.**  `log` and `rejected` are cleared when an
  exchange fails (`contended`), because the properties that use them speak of
  uncontended executions only.  Locals are reset when a function returns: they
  are out of scope.
* **Garbage.**  A packet that is read as a count but is none yields any value of
  `GarbageCounts`: the union of a packet is read through the wrong member.
* **`AUTOTIMER` and C handles** are the same `Timer` objects; scopes destroy them in
  reverse order, handles in any.  The model allows any order and records in
  `lifo` whether it was the reverse.
* **Names in vector_copy** are split into their first eight characters and the
  rest, since `strncmp` compares `sizeof(symbol_name)` of them.
* **async.cpp** was written against an API that did not exist yet: it names a view
  `av` that some functions do not declare and futures `cfs` that one does not, and
  it evaluates `parallel_for_each` as an argument of `barrier`.  It is read as
  its comments say: `barrier(view, futures, command)` orders the command on
  `view` after the futures.  A lambda's captures by value are read when the
  command is enqueued.
* **`array_view::synchronize_async`** is a copy to the host that follows the kernels
  that write the view, and no others; that is what the comment at
  `compile_link/main.cpp:48-54` says of it.  A view destroyed at the end of a
  scope (`zeroArray`) is synchronised then.
* **Several commands for one call.**  A kernel over views has their data copied to the device
  first (statements before its own); an `array` constructor and a blocking `copy` are a
  command and a wait for it.
* **Comparisons.**  `Verify` has the same statement as the kernel where host and kernel compute the
  same expression.  A host that
  has an algorithm of its own (`convolve_cpu`, `list`, `bench`, the static member) has it as
  a host command of its own.
* **Black-Scholes** computes two values from one; which ones is abstracted to
  `input + 1` and `input + 2` in `HostPrograms`, and to whether results are close to those of the
  host, far from them, NaN, zero or uninitialised in `BlackScholes`.  `HostPrograms` has one iteration: in four of its five modes an
  iteration waits for all it started, so the next begins from the same state.

## Runs

| run | checks | shows |
|---|---|---|
| `printf_serial` | `ImplementsLog`, `CallsReturn` | one thread that prints and drains is the bounded log, with as many arguments as specifiers, fewer, and more; each call returns |
| `printf_writer_and_host` | `UncontendedSafe`, `UncontendedFraming`, `UncontendedSteps` | a printing thread beside a draining host: until an exchange fails on a held lock, the buffer is framed, no assertion fails (but for a specifier that no pattern accepts), each step is a step of the log |
| `printf_two_writers` | `FreshExclusion`, `UncontendedExclusion`, `HolderLeaves`, `LockTaken` | what exclusion remains under contention; nobody loops for ever under the lock, not even over mixed-up packets; waiting threads get in although the lock may stay taken with nobody inside |
| `printf_assert` | violates `FormatIsPointer` | writer and host are inside together and the assertion of hsa_printf.h:146 fails |
| `timer_stack` | `StackMatchesTimers`, `WellNested`, `OwnEvents`, `DumpedOnce`, `AveragesMatchRows`, `FinalReport` | every order of construction, destruction, dumps and the end of the stack, with a clock that may be set back |
| `dispatch` | `ReadsAfterKernel`, `RunsOnHeld`, `NoPacketLost`, `ComparisonSpeaksForAll`, `Terminates` | the whole program with every call failing, early returns of the wait, every order of work-items |
| `dispatch_output` | violates `OutputIsInput` | the kernel arguments are swapped: the input is overwritten and validation passes |
| `dispatch_symbol` | violates `FindsSpecifiedSymbol` | another kernel whose name has the same first 8 characters is dispatched |
| `memtest` | `TypeOK`, `ErrorsAreFaults`, `EveryTestReported`, `RowsOwnTime` | nine command lines, one of them for no memory at all, two builds, transfers that spoil an element, an OpenCL that is not set up, calls that throw, a clock that may be set back |
| `tile_reduction` | `NoRace`, `NoDivergence`, `RoundsKeepSum`, `ReductionsAgree`, `Reduces` | two tiles, every interleaving of accesses to tile memory |
| `accelerator_views` | `Synchronized`, `NoConflictingOverlap`, `NoItemRace`, `SequentialMemory`, `HostDoesNotRace`, `Verified`, `Results`, `Terminates` | 37 host programs, on a runtime that blocks and on one that does not: each orders by what its text says whatever conflicts, and under every order of commands and work-items that leaves open nothing races and the results are right |
| `black_scholes` | `ReportedTimes`, `ReturnMeansComputed` | the benchmark with eight command lines in both builds, and every way it can end, with a clock that may be set back |

The types of `HsaPrintf`, `HsaDispatch`, `TileReduction` and `TimerStack` are theorems, and `TypeOK` is not
checked again by their runs.  Every property of a passing run is violated when one definition of the model is
replaced by its mutant (operators named `Mutant…`, each a plausible bug: a
release that stores the wrong value, a barrier that does not wait, a timer that
ends its own event, and so on).

### Bounds

* **printf.**  The buffer has 8 packets for one thread: three of the smallest
  messages, or one that leaves no room for another.  It has 5 for writer and host and
  4 for two writers: a message fits, the second overflows, and a message
  whose end is the end of the buffer occurs.  Two threads are enough for each hazard of the
  lock, since it is a matter of one thread failing while another holds it.
  `GarbageCounts` holds values that lead the walk to the next packet (0), into the
  middle (2) and beyond the buffer (4).
* **timers.**  `MaxEvents = 4` with three `Timer` objects beside the root: orders
  other than the reverse need two; a third gives nesting of depth three and
  an object that is reused.  Two names so that averages have something to
  distinguish; `MaxTime = 2` for events that take time and events that do not, and for a clock that is
  set back from 2 to an earlier time.  Timers
  and names are interchangeable, hence the symmetry; the run checks no liveness.
* **dispatch.**  `N = 8` work-items, of which two are compared; a queue of two slots,
  so that an index off by one is another slot.  Five BRIG modules: with the
  kernel, a function of the same name, and another kernel in both orders.
* **memtest.**  A megabyte has 8 bytes (two floats) and a word 32 values, so that the
  product wraps at 4 MB, as it does at 4096 MB in the program.  A transfer
  spoils at most one element, which keeps its old value, becomes another number, or a
  NaN.  `Rands = {0, 7}`: equal to the generated vector, and not.  Up to two runs for each test.  `MaxTime = 2`:
  runs that take time, none, or less than none.  The builds have four tests of C++ AMP or two
  of OpenCL, in both directions.
* **tile reduction.**  Two tiles of four: two rounds, work-items that drop out in each, and
  tiles that finish in either order.  Tiles of eight (three rounds) passed as well, in four
  minutes.
* **accelerator views.**  `num = 3`: the last index, whose work-item writes flags, and two
  others.  Three work-items are the fewest for group_mem, in which each reads what
  two others stored.  The image is 3 × 3: eight border elements and one that reads all its neighbours,
  with weights that tell all of them apart.  The list has three nodes and the one beyond, so that
  a node that is lost is not the first or the last.  bench has `Side = 2` in the place of 64, with
  the two ratios of sizes that matter: as defined, and as its comment requires.  Data types have 2 bits
  (sums wrap) or more than is used.
* **black_scholes.**  Twelve events and a clock of 2: `main`, ten calls and their functions.
  Command lines: none, each way to stop in the middle of parsing, no input, no and two
  iterations, modes of the build and of the other one, the last of several.  The run sets the
  clock back once (`SetBackOnce`, an action constraint in `MCBlackScholes`); the theorems
  are for any number of times.

### Fairness and deadlock

* printf: `WF` of each thread's steps once it is inside a call.  This is a host's
  scheduler; on a GPU it holds of work-items in different wavefronts only: two
  work-items of one wavefront may run in lockstep and spin for ever.  Nobody has to call.
* dispatch: `WF` of the host, without the early return of the wait, and `WF` of the device:
  a packet processor that stops would leave any host waiting.
* tile reduction: `WF` of the whole next-state relation: some work-item that can run does.
  Nothing stronger is needed because nobody spins.
* accelerator views: `WF` of the host, which goes on when its call returns, and `WF` of the device:
  some work-item that may execute does.  No kernel here waits for another work-item except at a barrier.
* timer stack, memtest and Black-Scholes: safety only.

`CHECK_DEADLOCK FALSE` is set where the program returns, exits, or stops at a fault.
`printf_serial` runs with deadlock checking.

## Proofs

All theorems hold for every value of the constants that the named assumptions admit.

**`HsaPrintfProofs`** (any set of threads, any buffer, any messages).
`TypeCorrectness`: `TypeOK` is not inductive, because the step that stores a packet needs to
know that a batch is left and where it came from; it is strengthened by
`WriterLocals`.  `FreshExclusionHolds`: inductive together with the types; the
essential case is the release, where the thread that came in expecting 0 leaves
and no other such thread can be there.  `UncontendedExclusionHolds`: as long as no
exchange has failed, every `unlocked` is 0 and so every thread inside is a fresh
one; the strengthening says this.

Its second half is about what the buffer contains as long as no exchange has failed on a held lock, for any
interleaving of any number of writers and drains.  The invariant is
`Framing == ~contended => Framed`.  `LogFramed`: the messages accepted since the last drain lie
back to back and none reaches the end.  `WriterFramed` and
`ReaderFramed` say, for each program counter, what of a batch is stored and what is left, or which message
the drain is at and what it has printed.  A drain walks the buffer by the counts it
reads there, so it stays on the boundaries of messages only because they are framed, and it prints what was
stored only because it does.  It needs `FreshExclusion` and `UncontendedLock`: a
thread that is inside is the only one, and nobody changes the buffer under it
(`OthersFramed`).  From it: `UncontendedSafeHolds` (no assertion fails and nothing outside the buffer is
touched), `UncontendedFramingHolds`, and `UncontendedStepsHold`, the step simulation of
`PrintfLog`: stores and reads are stuttering steps, the release is the
append or the refusal, and the release of the drain prints all of the log.  A single thread
(`Lone`) never fails to exchange, so `SerialImplementsLog` is the whole safety part of the
refinement.

**`HsaDispatchProofs`** (any number of work-items, any size of the queue, any BRIG
modules).  The invariant is `TypeOK` with `PacketStage` (which of packet, write index and
doorbell are in place at each stage), `FirstAdds` (the test signal has been
incremented if and only if work-item 0 has run), `Progress` (signal, packet
processor and remaining work-items fit together) and `NoPacketLost`.  From it:
`TypeCorrectness`, `ReadsAfterKernelHolds`, `NoPacketLostHolds`.  `Held` (what the host holds
at each stage) gives `RunsOnHeldHolds`; `Copied` and `NotCompared` (an element whose
work-item has run is copied, and there is no verdict before) give
`ComparisonSpeaksForAllHolds`.

**`TimerStackProofs`** (any timers, any order of destruction, any clock).  `Matched`: the stack holds the
open events, in the order of their numbers, one for each live `Timer`, each at the nesting level of its
place.  With the types it is inductive for every order of destruction, since a destructor
pops whatever is on top and only the number of the timers matters.  It gives `TypeCorrectness` and
`StackMatchesTimersHolds`; in particular a destructor never finds the stack empty.
`DumpedOnceHolds`: an event is dumped or still queued, and never both.  `Nested` (what ended did so
after what it contains, and nothing is recorded ahead of time unless the clock was set back) gives
`WellNestedHolds`.  `Owned` (while the order has been the reverse one, the stack lists the live timers)
gives `OwnEventsHolds`, and `Reported` (what each step of the destructor has written and
freed) `FinalReportHolds`.
`AveragesMatchRowsHolds` compares one pass of `addEvent` with the grouping it stands for.  `AveragesAveraged` says
by induction on n that after n events there is one entry for each name among them, no name has two, and
each has the number and the sum of its rows (`Averaged`); `AveragedStep` is `addEvent`, whose search finds
the first entry of a name, which is the only one.  Events that are dumped while open
end later, but keep their names (`MatchesKept`), and a row keeps the time it had.

**`BlackScholesProofs`** (any command line, number of iterations, way to end and clock).  `Control` says which of the
scopes are open at each place of the program.  Scopes are entered and left in order, so every step
is one of `TimerStack` or leaves the timers alone: `UsesTimers`, and with it every theorem of `TimerStackProofs`
holds of the program.  `Ran`: a mode function has been entered once for each
call of `runBlackScholes`.  `Computed`: the arrays are zero until a mode function has returned,
and the comparison has been passed after its call.  Together they give `ReturnMeansComputedHolds`.
`Recorded`: each scope has its event, with its name, level and start, and they agree on its end, until
the root timer ends the innermost scope in its stead.  `Logged`: the log is written once, of all events, which
uses `DumpedOnceHolds`.  They give `ReportedTimesHolds`: who has an end, in which row and at which depth, whatever
the clock does.  That a negative time means an event without an end needs a clock that was not set back, and
`NestedHolds`, by which an event has then not ended before it started.

**`MemTestProofs`** (any command line, build, word size, number of runs, faults and clock, whether or not OpenCL
was set up and whichever call throws).  The types are
inductive with what a run works on: an index is in the vector because a vector that is not empty
has two elements at least, and the tests that send to the device leave the host's vector as it was
generated.  `Faults`: the errors counted so far are at most the elements spoilt, and exactly those spoilt
by other than a NaN where the host compares; while a run is being compared this includes its
errors.  It gives `ErrorsAreFaultsHolds`.
`Reporting` is about the timers and the rows of the log.  `Rows`: the tests passed so far that are in the build
have a row each, in their order.  `Timed`: the events recorded so far are those of the rows, `numIter` for each and in the order of
the rows, and then those of the test at work, which all bear its name; all have an end but the last of them while
it runs, and `spent`, what the clock has gone on while the loop's runs were timed, forward or back, is the sum of
those that have ended and of what has passed of the last.
When a test ends its own events are the last `numIter`, no earlier one has its name since the names of the tests differ
(`OwnEventsOnly`), so the average that is asked for by name is that of its own runs (`OwnAverage`): `RowsOwnTimeHolds`.
They then become those of its row, by division into blocks (`BlockNumber`).
`Served`: a test that was run had what it needs, so a program that gets past an OpenCL test had OpenCL set up.
At the end `EveryTestReportedHolds` follows.

**`TileReductionProofs`** (any number of tiles, of any size that is a power of two).  `SameRound`:
the work-items of a tile agree on `i`.  `InRound`: where a work-item stands
fits its `i`; one that adds has `local < i` and `2 * i <= TileSize`.  With the types
they are inductive; a step of a work-item leaves `i` alone and a barrier halves it for
the whole tile.  From them: `TypeCorrectness`, `NoRaceHolds` (those that
write do so below `i`, what they read of others is at or above it) and
`NoDivergenceHolds` (one at a barrier has `i > 0`, one that has left the loop `i = 0`).  Their proofs do not need the size to be a power
of two.
`Sums` is what the rounds keep: `Share` gives each element the value it will have when the
additions of the round are done, and the shares of the first `i` elements add up to the sum of the
tile.  A work-item that stores leaves every share as it was; a barrier begins a round in which the share of an element is that of
two, and no element is left over because `i` is
even until it is 1: that is where the size has to be a power of two.  It gives `RoundsKeepSumHolds`, and with the blocks
of the array `ReductionsAgreeHolds`.

**`SetSums`** is about the sum of a function over a finite set as the community modules define it, by
recursion over subsets.  `SubsetInduction` is induction over the subsets of a finite set, as
the existence of a least counterexample, so that it speaks of a set and not of an operator.  `RecurrenceExists` and
`RecurrencesAgree` say that the recursive definition has a solution and only one, from which `SumUnfold`
follows: a sum over a set is that over the set without one of its elements, and that element.  What
is used of sums are its consequences: disjoint unions, sums of functions, renaming of the elements, intervals cut in
halves and blocks.

**`AcceleratorViewsProofs`** (arrays of any size, both runtimes, every order of commands and work-items).
The invariant is `Control` (types, and nothing runs that the host has not come to), `StartedInOrder` (a command
of which a work-item has executed a statement has all it starts after finished) and `Passed` (what
the host has waited for is finished).  `StartsInOrder` follows at once.  What a program's text says of the order of
its commands is `FinishedWith`: the least set that contains what is known to be finished, and with a command
what that one starts after.  The commands that are in fact finished are such a set, by the
invariant (`FinishedTogether`), so they contain the least one.  Hence
`NoConflictingOverlapHolds` and `HostDoesNotRaceHolds` for programs that are `Synchronized`, which
is a predicate of the initial state: it is about the program alone and TLC checks it of all 37.
Besides the order of commands it says that a kernel reads through pointers, or beyond the elements of its arrays,
only if one work-item executes it (`Inside`), and that the loops of the host are ordered even where not all it
does is (`LoopsOrdered`), which is all that is needed of the programs that read too early.

`NoItemRaceHolds` needs no assumption about the program: it goes through the kernels of all 37, for any number of
elements and any image.  A kernel is apart (`ItemsApart`) if two statements that no barrier separates touch
different elements when different work-items execute them, or the same only to read them or atomically.  Most
kernels are, because each statement touches the element of its work-item's number
(`ByNumberKernel`, `ByNumberKernels`); the others are a convolution, whose reads and writes are of different arrays
(`ConvolutionKernel`), tile memory between barriers (`GroupKernel`, `BarrierGood`), a kernel of one work-item that follows
pointers (`OneExecutes`, `ListKernels`), atomic additions (`AtomicKernel`) and the columns of bench.cpp, which are those of
different remainders (`BenchKernel`).  `ProgramsGood` puts them together.  That statements that no
barrier separates are all that can be executed at a time is the invariant `BarriersMet`: who has passed a
barrier has found all others at it (`UpcomingTogether`).

`SequentialMemoryHolds` compares memory with a history that nobody executes: the commands one after the other, each of
them statement after statement, each statement by all work-items at once, with what the commands have captured
so far (`Stage(k, p)` is memory after the statement `p` of the command `k`).  The device does not follow this history: at any
time some statements of some commands have been executed by some work-items.  What does follow it is each element by itself.  An element is
`Settled` at a place of the history if of the statements that set it exactly those up to that place have been
executed, and the invariant `Followed` is that it then holds what it holds at that place.  A work-item that is to execute
a statement touches only elements that are settled at the place before it (`SettledBefore`): earlier commands that
set them are finished and later ones have not started, by `Synchronized`, and the other work-items
of the kernel are on the same side of every statement that sets them, by the races that `NoItemRace` excludes
(`AloneInKernel`).  So it reads what the history reads (`ReadsFollow`) and leaves the element that it sets settled at the
place after (`RunItemFollows`).  A loop of the host is a whole command at once (`LoopsFollow`, `HostFollows`), and what a command
captures later changes no place that has been reached (`StagesStay`).  When everything has run, all elements are
settled at the end.  `VerifiedHolds` follows in the same way: what the host compares is settled when it comes to it, so it
finds the mismatches that it would find in the history (`ComparisonsFollow`), and if the commands in turn
compute what is compared (`VerifiedInTurn`, which TLC checks as a part of `Results`) it finds none.

`NoAtomics` excludes the program of which the history is not this one: work-items that add atomically to
one element come in an order of their own, so that the sum, but none of the values before it, is
determined (static_member.cpp, where TLC checks the sum).

The same module has the addressing of `Convolution` (images of any size): row-major addressing stays in the image
and is injective; from this `CpuReadsInImage`, `GpuReadsInImage` and `WorkItemsWriteApart`.
`SameTapsIffSquare`: the tap below the middle alone tells that rows have the same length.

Assumptions, all on constants; TLC evaluates them in the runs:

* `QueueAssumption`, `MessageAssumption`, `DispatchAssumption`, `GridAssumption`, `ImageAssumption`, `TimeAssumption`:
  types of constants, and sizes that are not zero.
* `HalvingAssumption`: the size of a tile is a power of two (64 in reduce.cpp): 1 is its only odd divisor.
* `StackAssumption`: the root is not one of the other timers.
* `ScopesAssumption`: three timers (the program is at most three scopes deep), and names for all of
  its scopes.
* `CommandLinesAssumption` and `MemTestAssumption`: the values of arguments are natural numbers, because
  the fields that `atoi` is assigned to are `unsigned int`; a megabyte holds a whole number of floats, at least two, and a word a whole
  number of megabytes.

Only model-checked:

* Of `AcceleratorViews`: `Results`, which is about what the kernels of 37 given programs compute when
  nothing runs beside them (`VerifiedInTurn` among it, which is not true of every image: convolution compares two versions
  that agree if it is square), and that these programs are `Synchronized`; of static_member.cpp, whose work-items add
  atomically, `SequentialMemory` and `Verified`.
* Every liveness property: fairness and `ENABLED` are beyond the proof system.

## Observations

Shown by a run (`findings` in PROJECT.json):

* `hsa_printf.h:105,134`: a contended lock does not exclude, see above.
* `vector_copy.c:335-338`: the kernel copies `out` to `in`.
* `vector_copy.c:165`: `sizeof` of a pointer where the length of a name is meant.

Met while modelling, and not the subject of a run:

* The printf lock may stay 1 after a release; threads still get in, through the
  expected value that their first failure overwrites.
* `hsa_printf.h:109` refuses a message that would fit exactly.
* `bs_opencl.cpp:317`: `runBlackScholesSVM` synchronises `flag_v`, which its kernel
  does not write, unlike the kernels of compile_link, which do so for the reason given
  there (`main.cpp:48-54`).  As `AcceleratorViews` understands the synchronisation of a
  view, the host compares results that the kernel may not have stored.
  `static_array.cpp:24` and nine more have nothing to wait on at all.  They are right on a runtime whose
  `parallel_for_each` blocks and on no other: `HostDoesNotRace` and `Verified` hold of them when
  `synchronous`, and of all other programs always, except the two pitfalls of async.cpp, whose comments say
  that they race.
* compile_link's third test does not clear `a` between tests: what the second left would
  verify even if the third kernel had not run.
* `convolution.cpp` gives `array_view<float, 2>` the extents (X, Y), so that to the kernel the image has Y columns
  and to the host X.  They agree because X = Y, and its symmetric mask would hide a transposition.
* `list.cpp:70` writes `llist[NUM_LIST_NODES]`, one beyond the end, and both walks end there.  The sums it
  compares would be equal without the undoing of line 88 too: what tells is the shape of the list (`Results`).
* `bench.cpp` says that it works when SIZE is the number of work-items times BLOCKSIZE; its SIZE is more than 25
  times that (twice in the model).  The kernel computes the first sums again, and the comparison finds the first element
  it did not write.  `Verified` exempts it, and `Results` says which sums are right.
* `group_mem.cpp`: `convolve`, which nobody calls and which does not compile, fills its cache with rows of
  GROUP_WIDTH (lines 102-103) and reads them with rows of `pixelCacheWidth` (line 124).
* A NaN passes `verifyBlackScholes`, since no comparison with it is true.  The constructor of `OpenCLBlackScholes`
  prints what goes wrong and returns; `runKernel` then throws what nobody catches, and no file is written.
* The kernels of the two Kokkos template bugs write through pointers that are never set;
  `vectoradd_hc.cpp` does not compile; `hsa_test.cpp` uses an uninitialised agent where there is no GPU, and
  its `HSA_ASSERT` drops the calls it wraps under `NDEBUG`.
* The pitfalls also return while a kernel holds a reference to their local `i`.
* `StopTimer` ignores the name it is given; out of order, times are attributed to the
  wrong events (which is why `OwnEvents` has `lifo` as its premise).
* `exit(1)` in `bs_opencl.cpp:55,61,378` destroys the global timer stack while
  `AUTOTIMER` objects of `main` live: the root's stop ends the innermost event,
  open events are written with a negative elapsed time and are never deleted
  (`ReportedTimes` says so; `FinalReport` assumes that the other timers are gone).
* `dumpTimerStack` truncates its file, so events of an earlier dump are in no file at the end.
* vector_copy releases signal, program, queue, runtime and the two buffers; the test
  signal (lines 341-343), the kernel argument buffer (line 318), the BRIG module and the registrations of memory
  are not, although line 405 announces all resources: `hsa_shut_down` (line 417) finds them still there.  Nothing
  uses them after the wait, so no property of the run depends on it; `Cleanup` releases what the code releases.  It stores write index and doorbell
  relaxed and relies on the host's memory ordering.  `malloc` is not checked.
* `memtest -m 4096` computes a size of 0 and writes out of bounds (line 339);
  `-m 4097` reports 4097 MB and transfers one.  A NaN compares equal to everything
  and is not counted.  A spoilt element may go unnoticed towards the device, since
  work-items race for the element with the result and the host's variable may
  be uninitialised.  `usage()` exits without writing a timeline.
* The constructor of `OpenCLSetup` prints what goes wrong and returns (`memtest.cpp:134-138`).  The first OpenCL
  test then throws, since its kernel is what the constructor makes last; nobody catches it, and neither the rows so far
  nor the timeline are written.  With no iterations no test needs it and the program returns as if all were well
  (`EveryTestReported` says both).
* `reduce.cpp:29` declares a view of 4096 elements over an array of 32.

## Not modelled

* Floating-point arithmetic (`bs_kernel.h`, the sums of samples): TLA+ has no floats.
* `vectoradd_hc.cpp` and `convolve` of `group_mem.cpp`, which do not compile, and the two template bugs, which have no
  defined behaviour.  The logarithm test is a floating-point function.
* `hsa_test.cpp` asks for agents and prints their names: a straight line of calls without state.
* Four of the five iterations of bench.cpp, which repeat the first; allocation failures of the HSA samples.
* Text: formatting, HTML templates, file names beyond what a property speaks of, and
  regular expressions of printf specifiers, which are a constant of the model.
* The runtimes (HSA, C++ AMP, OpenCL) are modelled as far as these programs use them
  and are marked external.
* `TimerEventQueue::clear`, statistics over all events and `dumpTimeline`, which nobody calls.
* `hsa_printf.h` on a weakly ordered memory: every access in the model is sequentially
  consistent; the exchange and the release of the lock are the code's ordering points.
* Compiler bug reports, generated code, scripts, recorded data.

## Plan

Done, in this order: `PrintfMessage`, `PrintfLog`, `HsaPrintf` and its theorems (the one
component whose state is shared by threads); `TimerStack`; `HsaDispatch` and its theorems;
`TimerEventQueue` with `MemTest`; `TileReduction` and its theorems; `HostPrograms` with
`Convolution` and `AcceleratorViews`, which now hold barriers of tiles, the list and the convolution;
`BlackScholes` on top of `TimerStack`.

Models that could follow: the specifier patterns of hsa_printf.h as a recogniser over a small
alphabet, against the specifiers C defines (`%10s`, `%%d`), which would make the constant of
`PrintfMessage` a definition.

Proofs done: all invariants and action properties of the printf queue, its refinement of `PrintfLog`,
`HsaDispatch`, `TimerStack`, `BlackScholes`, `TileReduction` and `MemTest`,
order and races of commands and of work-items in `AcceleratorViews` and what they leave in memory, the addressing of
`Convolution`.

Proofs that could follow, most valuable first:

1. `Synchronized` for arrays of any size, program by program: what commands read and write does not
   depend on the size.
2. `VerifiedInTurn`, which needs nothing but the statements of a program in their order: for all but
   the list and the convolution it is a matter of copies and sums.
