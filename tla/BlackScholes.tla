----------------------------- MODULE BlackScholes -----------------------------
(***************************************************************************)
(* The program cl_amp_blackscholes/bs_opencl.cpp around the kernels that    *)
(* HostPrograms describes: its command line, its calls with the AUTOTIMER   *)
(* of each, the comparison, and the ways it ends.  The timers are those of  *)
(* TimerStack: the scope at depth t, counted from main, owns the Timer t.   *)
(* exit runs the destructor of the TimerStack and no other; an exception    *)
(* that nobody catches runs none.                                          *)
(***************************************************************************)
EXTENDS TimerStack

CONSTANT CommandLines  \* sequences of arguments, each with its value for atoi

(* The function of a mode, and the names of all scopes. *)
ModeFunction ==
  [oclzerocopy |-> "runBlackScholesZeroCopy", oclbuffer |-> "runBlackScholesBufferCopy",
   amparrayview |-> "runBlackScholesArrayView", amparray |-> "runBlackScholesArray",
   ampsvm |-> "runBlackScholesSVM"]

ScopeNames ==
  {ModeFunction[m] : m \in DOMAIN ModeFunction} \cup
  {"main", "genRandomInput", "cpuBlackScholes", "OpenCLBlackScholes", "zeroArray",
   "runBlackScholes", "verifyBlackScholes", "~OpenCLBlackScholes()", "~ampBlackScholes()"}

ASSUME ScopesAssumption == Timers = 1 .. 3 /\ ScopeNames \subseteq Names

ASSUME CommandLinesAssumption == CommandLines \subseteq Seq([text : STRING, value : Nat])

VARIABLES
  build,    \* ENABLE_OPENCL or ENABLE_CPPAMP
  argv, n,  \* the arguments, and the next to look at
  arg,      \* what they have set
  prefix,   \* of the names of the files
  pc, call, \* where the program is, and the call of main it comes to
  kernel,   \* OpenCL: was it built?
  results,  \* gpuCall and gpuPut
  status,   \* running, or how it ended
  scopes    \* history: the scopes entered, and when they were left

timerVars == <<enable, events, impl, live, phase, files, time, history>>
program   == <<build, argv>>
progress  == <<n, arg, prefix, pc, call, kernel, results, status, scopes>>

Arrays == {"gpuCall", "gpuPut"}

(* The options of a build that choose a mode. *)
Modes == IF build = "OpenCL" THEN {"oclzerocopy", "oclbuffer"}
                             ELSE {"amparrayview", "amparray", "ampsvm"}

Default == IF build = "OpenCL" THEN "oclzerocopy" ELSE "amparrayview"

AllInit ==
  /\ Init
  /\ build \in {"OpenCL", "CPPAMP"}
  /\ argv \in CommandLines
  /\ n = 1
  /\ arg = [numInput |-> 1048576, iterations |-> 1, mode |-> Default, modeString |-> Default]
  /\ prefix = "pid"
  /\ pc = "start"
  /\ call = 1
  /\ kernel = TRUE
  /\ results = [a \in Arrays |-> "uninitialized"]
  /\ status = "running"
  /\ scopes = <<>>

Goto(from, to) == status = "running" /\ pc = from /\ pc' = to
------------------------------------------------------------------------------
Depth == Cardinality(live \ {Root})

(* AUTOTIMER(timer, name), and the end of its scope. *)
Enter(name) ==
  /\ NewTimer(Depth + 1, name)
  /\ scopes' = Append(scopes, [name |-> name, depth |-> Depth + 1, start |-> clock, end |-> 0])

Leave ==
  /\ DeleteTimer(Depth)
  /\ scopes' = [k \in DOMAIN scopes |->
                  IF scopes[k].depth = Depth /\ scopes[k].end = 0
                  THEN [scopes[k] EXCEPT !.end = clock] ELSE scopes[k]]

EnterMain ==
  /\ Goto("start", "arg")
  /\ Enter("main")
  /\ UNCHANGED <<program, n, arg, prefix, call, kernel, results, status>>

(* An argument with its text, and its value for atoi. *)
ParseValue(field) ==
  /\ n < Len(argv)
  /\ arg' = [arg EXCEPT ![field] = argv[n + 1].value]
  /\ n' = n + 2
  /\ UNCHANGED status

ParseMode ==
  /\ argv[n].text \in Modes
  /\ arg' = [arg EXCEPT !.mode = argv[n].text, !.modeString = argv[n].text]
  /\ n' = n + 1
  /\ UNCHANGED status

Usage   == argv[n].text = "-n" /\ n = Len(argv) /\ status' = "exit" /\ UNCHANGED <<n, arg>>
Break   == argv[n].text = "-i" /\ n = Len(argv) /\ n' = n + 1 /\ UNCHANGED <<arg, status>>
Unknown == argv[n].text \notin Modes \cup {"-n", "-i"} /\ n' = n + 1 /\ UNCHANGED <<arg, status>>

ParseArg ==
  /\ Goto("arg", "arg")
  /\ n <= Len(argv)
  /\ \/ argv[n].text = "-n" /\ ParseValue("numInput")
     \/ argv[n].text = "-i" /\ ParseValue("iterations")
     \/ ParseMode \/ Usage \/ Break \/ Unknown
  /\ UNCHANGED <<timerVars, program, prefix, call, kernel, results, scopes>>

SetLogPrefix ==
  /\ Goto("arg", "call")
  /\ n > Len(argv)
  /\ prefix' = [mode |-> arg.modeString, numInput |-> arg.numInput, iterations |-> arg.iterations]
  /\ UNCHANGED <<timerVars, program, n, arg, call, kernel, results, status, scopes>>
------------------------------------------------------------------------------
Prepare == IF build = "OpenCL" THEN <<"OpenCLBlackScholes">> ELSE <<"zeroArray", "zeroArray">>
Dispose == IF build = "OpenCL" THEN "~OpenCLBlackScholes()" ELSE "~ampBlackScholes()"

(* What main calls, in order. *)
Calls ==
  <<"genRandomInput", "cpuBlackScholes">> \o Prepare
    \o [k \in 1 .. arg.iterations |-> "runBlackScholes"] \o <<"verifyBlackScholes", Dispose>>

Call ==
  /\ Goto("call", "body")
  /\ call <= Len(Calls)
  /\ Enter(Calls[call])
  /\ UNCHANGED <<program, n, arg, prefix, call, kernel, results, status>>

In(names) == call <= Len(Calls) /\ Calls[call] \in names

HostOnly ==
  /\ Goto("body", "leave")
  /\ In({"genRandomInput", "cpuBlackScholes", Dispose})
  /\ UNCHANGED <<timerVars, program, n, arg, prefix, call, kernel, results, status, scopes>>

(* memset of both arrays; the constructor catches what goes wrong. *)
Construct ==
  /\ Goto("body", "leave")
  /\ In({"OpenCLBlackScholes"})
  /\ results' = [a \in Arrays |-> "zero"]
  /\ kernel' \in BOOLEAN
  /\ UNCHANGED <<timerVars, program, n, arg, prefix, call, status, scopes>>

ZeroArray ==
  /\ Goto("body", "leave")
  /\ In({"zeroArray"})
  /\ LET a == IF Calls[call - 1] = "zeroArray" THEN "gpuPut" ELSE "gpuCall"
     IN  results' = [results EXCEPT ![a] = "zero"]
  /\ UNCHANGED <<timerVars, program, n, arg, prefix, call, kernel, status, scopes>>

CallMode ==
  /\ Goto("body", "mode")
  /\ In({"runBlackScholes"})
  /\ Enter(ModeFunction[arg.mode])
  /\ UNCHANGED <<program, n, arg, prefix, call, kernel, results, status>>

(* A device may compute other floating-point numbers than the host.  What  *)
(* runBlackScholesSVM leaves may not be there yet, see HostDoesNotRace.    *)
RunMode ==
  /\ Goto("mode", "leave")
  /\ kernel
  /\ \/ results' \in [Arrays -> {"close", "far", "NaN"}]
     \/ arg.mode = "ampsvm" /\ UNCHANGED results
  /\ Leave
  /\ UNCHANGED <<program, n, arg, prefix, call, kernel, status>>

(* Mutant of Mismatch: the calls are not compared. *)
MutantMismatch == arg.numInput > 0 /\ results["gpuPut"] = "far"

(* fabs(c - g) >= 0.0001 for an element; no call price is below that.      *)
Mismatch ==
  arg.numInput > 0 /\ (results["gpuPut"] = "far" \/ results["gpuCall"] \in {"far", "zero"})

Verify ==
  /\ Goto("body", "leave")
  /\ In({"verifyBlackScholes"})
  /\ status' = IF Mismatch THEN "exit" ELSE status
  /\ UNCHANGED <<timerVars, program, n, arg, prefix, call, kernel, results, scopes>>

ReturnToMain ==
  /\ Goto("leave", "call")
  /\ Leave
  /\ call' = call + 1
  /\ UNCHANGED <<program, n, arg, prefix, kernel, results, status>>

Return ==
  /\ Goto("call", "end")
  /\ call > Len(Calls)
  /\ Leave
  /\ status' = "returned"
  /\ UNCHANGED <<program, n, arg, prefix, call, kernel, results>>

(* What a runtime throws, or new, ends the program: in zeroArray, in a     *)
(* mode function, which an OpenCL program without kernel does not survive, *)
(* and where main allocates.                                               *)
Throw ==
  /\ \/ pc = "mode"
     \/ pc = "body" /\ In({"zeroArray"})
     \/ pc = "call" /\ call \in 1 .. 3
  /\ status = "running"
  /\ status' = "aborted"
  /\ UNCHANGED <<timerVars, program, n, arg, prefix, pc, call, kernel, results, scopes>>
------------------------------------------------------------------------------
(* Static destruction, after return and exit alike. *)
Destroy ==
  /\ status \in {"returned", "exit"}
  /\ DeleteRoot \/ DumpTimeline \/ DumpLog \/ DeleteEvents
  /\ UNCHANGED <<program, progress>>

Main ==
  \/ EnterMain \/ ParseArg \/ SetLogPrefix
  \/ Call \/ HostOnly \/ Construct \/ ZeroArray \/ CallMode \/ RunMode \/ Verify
  \/ ReturnToMain \/ Return \/ Throw

(* The clock of the timers, until the last of them has stopped. *)
Time ==
  /\ phase = "open" /\ status # "aborted"
  /\ Tick \/ SetBack
  /\ UNCHANGED <<program, progress>>

AllNext == Main \/ Destroy \/ Time

AllSpec == AllInit /\ [][AllNext]_<<timerVars, program, progress>>
------------------------------------------------------------------------------
(* What the log says of a program that ended, however it did.  Each scope   *)
(* has one row, in the order the scopes were entered and at its depth.  One *)
(* that was left has its time.  If exit was called in the middle, the root  *)
(* timer ends the innermost open scope, and those around it, the root's own *)
(* row included, have no end: their times are negative, and no others are   *)
(* unless the clock was set back.  An exception leaves no file.            *)
ReportedTimes ==
  /\ status = "aborted" => timeline = <<>> /\ log = NoLog
  /\ enable /\ phase = "destroyed" =>
       /\ Len(log.rows) = Len(scopes) + 1
       /\ Open(log.rows[1].event) <=> status # "returned"
       /\ \A k \in DOMAIN log.rows :
            ~setBack => (log.rows[k].elapsed < 0 <=> Open(log.rows[k].event))
       /\ \A k \in DOMAIN scopes :
            LET scope == scopes[k]
                row   == log.rows[k + 1]
            IN  /\ events[row.event].name = scope.name
                /\ row.level = scope.depth
                /\ scope.end > 0 => row.elapsed = scope.end - scope.start
                /\ scope.end = 0 =>
                     IF scope.depth = Depth THEN ~Open(row.event) ELSE row.elapsed = -scope.start

(* A program that returns has verified something: unless there was no input *)
(* a mode function has run to its end, it is the one that the names of the  *)
(* files give, it ran as often as they say, and no result is far from the   *)
(* host's.  A NaN is not: every comparison with it is false.               *)
ReturnMeansComputed ==
  status = "returned" =>
    LET runs == {k \in DOMAIN scopes : scopes[k].name = ModeFunction[prefix.mode]}
    IN  /\ Cardinality(runs) = prefix.iterations
        /\ \A k \in DOMAIN scopes : scopes[k].depth = 3 => k \in runs
        /\ prefix.numInput > 0 =>
             runs # {} /\ \A a \in Arrays : results[a] \in {"close", "NaN"}
==============================================================================
