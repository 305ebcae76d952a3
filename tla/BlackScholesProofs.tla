-------------------------- MODULE BlackScholesProofs --------------------------
(***************************************************************************)
(* Proofs about BlackScholes, for every command line, number of iterations *)
(* and way to end: the program uses its timers as TimerStack specifies,    *)
(* what the log says of its scopes is true, and a program that returns has *)
(* computed what it says.                                                  *)
(***************************************************************************)
EXTENDS BlackScholes, TimerStackProofs

allVars == <<timerVars, program, progress>>

(* How many scopes are open where the program is.                          *)
Depths == [start |-> 0, arg |-> 1, call |-> 1, body |-> 2, mode |-> 3, leave |-> 2, end |-> 0]

AllModes == DOMAIN ModeFunction
Arg == [numInput : Nat, iterations : Nat, mode : AllModes, modeString : AllModes]
Scope == [name : ScopeNames, depth : 1 .. 3, start : 1 .. MaxTime, end : 0 .. MaxTime]

Control ==
  /\ build \in {"OpenCL", "CPPAMP"}
  /\ argv \in Seq([text : STRING, value : Nat])
  /\ n \in Nat \ {0}
  /\ arg \in Arg /\ arg.modeString = arg.mode
  /\ pc \in DOMAIN Depths
  /\ status \in {"running", "exit", "returned", "aborted"}
  /\ status = "returned" <=> pc = "end"
  /\ phase # "open" => status \in {"returned", "exit"}
  /\ live \ {Root} = 1 .. Depths[pc]
  /\ call \in Nat \ {0}
  /\ pc \in {"start", "arg"} => call = 1
  /\ pc \in {"body", "mode", "leave"} => call <= Len(Calls)
  /\ pc = "end" => call = Len(Calls) + 1
  /\ pc = "call" => call <= Len(Calls) + 1
  /\ pc = "mode" => Calls[call] = "runBlackScholes"
  /\ pc \notin {"start", "arg"} =>
       prefix = [mode |-> arg.modeString, numInput |-> arg.numInput, iterations |-> arg.iterations]
  /\ scopes \in Seq(Scope)
------------------------------------------------------------------------------
(* What main calls, by place.                                              *)

Prepared == Len(Prepare) + 2  \* calls before the first runBlackScholes

LEMMA CallPlaces ==
  ASSUME build \in {"OpenCL", "CPPAMP"}, arg.iterations \in Nat
  PROVE  /\ Prepared = IF build = "OpenCL" THEN 3 ELSE 4
         /\ Len(Calls) = Prepared + arg.iterations + 2
         /\ \A k \in 1 .. Len(Calls) :
              /\ k = 1 => Calls[k] = "genRandomInput"
              /\ k = 2 => Calls[k] = "cpuBlackScholes"
              /\ k > 2 /\ k <= Prepared =>
                   Calls[k] = IF build = "OpenCL" THEN "OpenCLBlackScholes" ELSE "zeroArray"
              /\ k > Prepared /\ k <= Prepared + arg.iterations => Calls[k] = "runBlackScholes"
              /\ k = Prepared + arg.iterations + 1 => Calls[k] = "verifyBlackScholes"
              /\ k = Prepared + arg.iterations + 2 => Calls[k] = Dispose
<1> DEFINE N  == arg.iterations
           S  == ScopeNames
           s1 == <<"genRandomInput", "cpuBlackScholes">>
           s2 == Prepare
           s3 == [k \in 1 .. N |-> "runBlackScholes"]
           s4 == <<"verifyBlackScholes", Dispose>>
           p  == IF build = "OpenCL" THEN 3 ELSE 4
<1>0. \A s \in {"genRandomInput", "cpuBlackScholes", "OpenCLBlackScholes", "zeroArray", "runBlackScholes",
               "verifyBlackScholes", "~OpenCLBlackScholes()", "~ampBlackScholes()"} : s \in S
  BY DEF ScopeNames
<1> HIDE DEF S
<1>1. N \in Nat
  OBVIOUS
<1>2. /\ s1 \in Seq(S) /\ Len(s1) = 2
      /\ s1[1] = "genRandomInput" /\ s1[2] = "cpuBlackScholes"
  BY <1>0
<1>3. /\ s2 \in Seq(S) /\ Len(s2) = p - 2
      /\ \A k \in 1 .. p - 2 : s2[k] = IF build = "OpenCL" THEN "OpenCLBlackScholes" ELSE "zeroArray"
  BY <1>0 DEF Prepare
<1>4. /\ s3 \in Seq(S) /\ Len(s3) = N
      /\ \A k \in 1 .. N : s3[k] = "runBlackScholes"
  BY <1>0, <1>1
<1>5. /\ s4 \in Seq(S) /\ Len(s4) = 2
      /\ s4[1] = "verifyBlackScholes" /\ s4[2] = Dispose
  BY <1>0 DEF Dispose
<1>6. Calls = ((s1 \o s2) \o s3) \o s4
  BY DEF Calls
<1>7. p \in {3, 4} /\ Prepared = p
  BY <1>3 DEF Prepared
<1> HIDE DEF s1, s2, s3, s4, p, N, S
<1>8. /\ s1 \o s2 \in Seq(S) /\ Len(s1 \o s2) = p
      /\ \A k \in 1 .. p : (s1 \o s2)[k] = IF k <= 2 THEN s1[k] ELSE s2[k - 2]
  <2> DEFINE two == 2
             l   == p - 2
  <2>1. two \in Nat /\ l \in Nat /\ two + l = p
    BY <1>7
  <2>2. s1 \in Seq(S) /\ s2 \in Seq(S) /\ Len(s1) = two /\ Len(s2) = l
    BY <1>2, <1>3
  <2> HIDE DEF two, l
  <2>3. /\ s1 \o s2 \in Seq(S) /\ Len(s1 \o s2) = two + l
        /\ \A k \in 1 .. two + l : (s1 \o s2)[k] = IF k <= two THEN s1[k] ELSE s2[k - two]
    BY <2>1, <2>2, ConcatProperties
  <2> QED
    BY <2>1, <2>3 DEF two
<1> DEFINE a == s1 \o s2
<1> HIDE DEF a
<1>9. a \in Seq(S) /\ Len(a) = p
  BY <1>8 DEF a
<1>10. /\ a \o s3 \in Seq(S) /\ Len(a \o s3) = p + N
       /\ \A k \in 1 .. p + N : (a \o s3)[k] = IF k <= p THEN a[k] ELSE s3[k - p]
  <2>1. /\ a \o s3 \in Seq(S) /\ Len(a \o s3) = Len(a) + Len(s3)
        /\ \A k \in 1 .. Len(a) + Len(s3) :
             (a \o s3)[k] = IF k <= Len(a) THEN a[k] ELSE s3[k - Len(a)]
    BY <1>4, <1>9, ConcatProperties, Zenon
  <2> QED
    BY <1>4, <1>9, <2>1
<1> DEFINE b == a \o s3
<1> HIDE DEF b
<1>11. b \in Seq(S) /\ Len(b) = p + N
  BY <1>10 DEF b
<1>12. /\ Len(b \o s4) = p + N + 2
       /\ \A k \in 1 .. p + N + 2 : (b \o s4)[k] = IF k <= p + N THEN b[k] ELSE s4[k - (p + N)]
  <2> DEFINE m   == p + N
             two == 2
  <2>1. Len(b) = m /\ m \in Nat /\ two \in Nat /\ Len(s4) = two
    BY <1>1, <1>5, <1>7, <1>11
  <2> HIDE DEF m, two
  <2>2. /\ Len(b \o s4) = m + two
        /\ \A k \in 1 .. m + two : (b \o s4)[k] = IF k <= m THEN b[k] ELSE s4[k - m]
    BY <1>5, <1>11, <2>1, ConcatProperties
  <2> QED
    BY <2>2 DEF m, two
<1>13. Calls = b \o s4
  BY <1>6 DEF a, b
<1>14. Len(Calls) = p + N + 2
  BY <1>12, <1>13
<1>15. ASSUME NEW k \in 1 .. p + N + 2
       PROVE  Calls[k] =
                IF k <= p + N
                THEN IF k <= p THEN (IF k <= 2 THEN s1[k] ELSE s2[k - 2]) ELSE s3[k - p]
                ELSE s4[k - (p + N)]
  <2>1. Calls[k] = IF k <= p + N THEN b[k] ELSE s4[k - (p + N)]
    BY <1>12, <1>13
  <2>2. k <= p + N => k \in 1 .. p + N /\ b[k] = IF k <= p THEN a[k] ELSE s3[k - p]
    BY <1>1, <1>7, <1>10 DEF b
  <2>3. k <= p => k \in 1 .. p /\ a[k] = IF k <= 2 THEN s1[k] ELSE s2[k - 2]
    BY <1>1, <1>7, <1>8 DEF a
  <2>4. k <= p => k <= p + N
    BY <1>1, <1>7
  <2> QED
    BY <2>1, <2>2, <2>3, <2>4
<1>16. ASSUME NEW k \in 1 .. p + N + 2
       PROVE  /\ k = 1 => Calls[k] = "genRandomInput"
              /\ k = 2 => Calls[k] = "cpuBlackScholes"
              /\ k > 2 /\ k <= p => Calls[k] = IF build = "OpenCL" THEN "OpenCLBlackScholes" ELSE "zeroArray"
              /\ k > p /\ k <= p + N => Calls[k] = "runBlackScholes"
              /\ k = p + N + 1 => Calls[k] = "verifyBlackScholes"
              /\ k = p + N + 2 => Calls[k] = Dispose
  <2>1. k = 1 => Calls[k] = "genRandomInput"
    BY <1>1, <1>2, <1>7, <1>15
  <2>2. k = 2 => Calls[k] = "cpuBlackScholes"
    BY <1>1, <1>2, <1>7, <1>15
  <2>3. k > 2 /\ k <= p => Calls[k] = IF build = "OpenCL" THEN "OpenCLBlackScholes" ELSE "zeroArray"
    <3> SUFFICES ASSUME k > 2, k <= p PROVE Calls[k] = s2[k - 2] /\ k - 2 \in 1 .. p - 2
      BY <1>3
    <3> QED
      BY <1>1, <1>7, <1>15
  <2>4. k > p /\ k <= p + N => Calls[k] = "runBlackScholes"
    <3> SUFFICES ASSUME k > p, k <= p + N PROVE Calls[k] = s3[k - p] /\ k - p \in 1 .. N
      BY <1>4
    <3> QED
      BY <1>1, <1>7, <1>15
  <2>5. k = p + N + 1 => Calls[k] = s4[1]
    BY <1>1, <1>7, <1>15
  <2>6. k = p + N + 2 => Calls[k] = s4[2]
    BY <1>1, <1>7, <1>15
  <2> QED
    BY <1>5, <2>1, <2>2, <2>3, <2>4, <2>5, <2>6
<1> QED
  BY <1>7, <1>14, <1>16 DEF N, p

(* The other way round: the place of a call by its name.                   *)
LEMMA CallNames ==
  ASSUME build \in {"OpenCL", "CPPAMP"}, arg.iterations \in Nat, NEW k \in 1 .. Len(Calls)
  PROVE  /\ Calls[k] \in ScopeNames /\ \A m \in AllModes : Calls[k] # ModeFunction[m]
         /\ Calls[k] = "runBlackScholes" <=> k > Prepared /\ k <= Prepared + arg.iterations
         /\ Calls[k] = "verifyBlackScholes" <=> k = Prepared + arg.iterations + 1
         /\ Calls[k] \in {"OpenCLBlackScholes", "zeroArray"} <=> k > 2 /\ k <= Prepared
         /\ Calls[k] = "OpenCLBlackScholes" => build = "OpenCL"
         /\ Calls[k] = "zeroArray" => build # "OpenCL"
<1>1. /\ Prepared \in {3, 4} /\ Len(Calls) = Prepared + arg.iterations + 2
      /\ Dispose \in {"~OpenCLBlackScholes()", "~ampBlackScholes()"}
  BY CallPlaces DEF Dispose
<1>2. \/ k = 1 \/ k = 2 \/ (k > 2 /\ k <= Prepared)
      \/ (k > Prepared /\ k <= Prepared + arg.iterations)
      \/ k = Prepared + arg.iterations + 1 \/ k = Prepared + arg.iterations + 2
  BY <1>1
<1>3. \A s \in {"genRandomInput", "cpuBlackScholes", "OpenCLBlackScholes", "zeroArray", "runBlackScholes",
               "verifyBlackScholes", "~OpenCLBlackScholes()", "~ampBlackScholes()"} :
        s \in ScopeNames /\ \A m \in AllModes : s # ModeFunction[m]
  BY DEF ScopeNames, AllModes, ModeFunction
<1>4. CASE k = 1
  <2>1. Calls[k] = "genRandomInput"
    BY <1>4, CallPlaces
  <2> QED
    BY <1>1, <1>3, <1>4, <2>1
<1>5. CASE k = 2
  <2>1. Calls[k] = "cpuBlackScholes"
    BY <1>5, CallPlaces
  <2> QED
    BY <1>1, <1>3, <1>5, <2>1, SMTT(40)
<1>6. CASE k > 2 /\ k <= Prepared
  <2>1. Calls[k] = IF build = "OpenCL" THEN "OpenCLBlackScholes" ELSE "zeroArray"
    BY <1>6, CallPlaces
  <2> QED
    BY <1>1, <1>3, <1>6, <2>1
<1>7. CASE k > Prepared /\ k <= Prepared + arg.iterations
  <2>1. Calls[k] = "runBlackScholes"
    BY <1>7, CallPlaces
  <2> QED
    BY <1>1, <1>3, <1>7, <2>1
<1>8. CASE k = Prepared + arg.iterations + 1
  <2>1. Calls[k] = "verifyBlackScholes"
    BY <1>8, CallPlaces
  <2> QED
    BY <1>1, <1>3, <1>8, <2>1
<1>9. CASE k = Prepared + arg.iterations + 2
  <2>1. Calls[k] = Dispose
    BY <1>9, CallPlaces
  <2> QED
    BY <1>1, <1>3, <1>9, <2>1
<1> QED
  BY <1>2, <1>4, <1>5, <1>6, <1>7, <1>8, <1>9
------------------------------------------------------------------------------
(* The timers.                                                             *)

LEMMA Names1 == ScopeNames \subseteq Names /\ Timers = 1 .. 3 /\ Root \notin 1 .. 3
BY ScopesAssumption, StackAssumption

LEMMA OpenScopes ==
  ASSUME Control
  PROVE  Depth = Depths[pc] /\ Depths[pc] \in 0 .. 3
<1>1. Depths[pc] \in 0 .. 3
  BY DEF Control, Depths
<1>2. Cardinality(1 .. Depths[pc]) = Depths[pc]
  BY <1>1, FS_Interval
<1> QED
  BY <1>1, <1>2 DEF Control, Depth

(* Each step of the program is one of its timers, or leaves them alone.    *)
LEMMA TimerStep == Control /\ [AllNext]_allVars => [Next]_vars
<1> SUFFICES ASSUME Control, AllNext PROVE Next \/ UNCHANGED vars
  BY DEF allVars, timerVars, vars
<1> USE DEF timerVars, vars
<1>1. Depth \in 0 .. 3
  BY OpenScopes
<1>2. ASSUME NEW name \in ScopeNames, Enter(name)
      PROVE  \E t \in Timers : \E m \in Names : NewTimer(t, m)
  <2>1. NewTimer(Depth + 1, name)
    BY <1>2 DEF Enter
  <2>2. Depth + 1 \in Timers
    BY <2>1 DEF NewTimer
  <2> QED
    BY <2>1, <2>2, Names1
<1>3. ASSUME Leave PROVE \E t \in Timers : DeleteTimer(t)
  <2>1. DeleteTimer(Depth)
    BY <1>3 DEF Leave
  <2>2. Depth \in Timers
    BY <2>1 DEF DeleteTimer
  <2> QED
    BY <2>1, <2>2
<1>4. CASE Time
  BY <1>4 DEF Time, Next
<1>5. CASE Destroy
  BY <1>5 DEF Destroy, Next
<1>6. CASE EnterMain
  <2>1. Enter("main") /\ "main" \in ScopeNames
    BY <1>6 DEF EnterMain, ScopeNames
  <2> QED
    BY <1>2, <2>1 DEF Next
<1>7. CASE Call
  <2>1. Enter(Calls[call]) /\ Calls[call] \in ScopeNames
    BY <1>7, CallNames DEF Call, Control, Arg, Goto
  <2> QED
    BY <1>2, <2>1 DEF Next
<1>8. CASE CallMode
  <2>1. Enter(ModeFunction[arg.mode]) /\ ModeFunction[arg.mode] \in ScopeNames
    BY <1>8 DEF CallMode, Control, Arg, AllModes, ScopeNames
  <2> QED
    BY <1>2, <2>1 DEF Next
<1>9. CASE RunMode \/ ReturnToMain \/ Return
  BY <1>3, <1>9 DEF RunMode, ReturnToMain, Return, Next
<1>10. CASE ParseArg \/ SetLogPrefix \/ HostOnly \/ Construct \/ ZeroArray \/ Verify \/ Throw
  BY <1>10 DEF ParseArg, SetLogPrefix, HostOnly, Construct, ZeroArray, Verify, Throw
<1> QED
  BY <1>4, <1>5, <1>6, <1>7, <1>8, <1>9, <1>10 DEF AllNext, Main
------------------------------------------------------------------------------
(* Where the program is.                                                   *)

LEMMA EnterEffects ==
  ASSUME Control, clock \in 1 .. MaxTime, NEW name \in ScopeNames, Enter(name)
  PROVE  LET d == Depths[pc]
             s == [name |-> name, depth |-> d + 1, start |-> clock, end |-> 0]
         IN  /\ phase = "open" /\ UNCHANGED <<phase, clock>>
             /\ d + 1 \in 1 .. 3 /\ live' \ {Root} = 1 .. d + 1
             /\ s \in Scope /\ scopes' = Append(scopes, s)
             /\ scopes' \in Seq(Scope) /\ Len(scopes') = Len(scopes) + 1
             /\ \A k \in 1 .. Len(scopes) : scopes'[k] = scopes[k]
             /\ scopes'[Len(scopes) + 1] = s
<1> DEFINE d == Depths[pc]
           s == [name |-> name, depth |-> d + 1, start |-> clock, end |-> 0]
<1>1. Depth = d /\ d \in 0 .. 3
  BY OpenScopes
<1>2. /\ phase = "open" /\ UNCHANGED <<phase, clock>>
      /\ d + 1 \in Timers /\ live' = live \cup {d + 1}
      /\ scopes' = Append(scopes, s)
  BY <1>1 DEF Enter, NewTimer, time
<1> HIDE DEF d
<1>3. d + 1 \in 1 .. 3 /\ d + 1 # Root
  BY <1>2, Names1
<1>4. live' \ {Root} = 1 .. d + 1
  <2>1. live \ {Root} = 1 .. d
    BY DEF Control, d
  <2>2. live' \ {Root} = (1 .. d) \cup {d + 1}
    BY <1>2, <1>3, <2>1
  <2>3. (1 .. d) \cup {d + 1} = 1 .. d + 1
    BY <1>1
  <2> QED
    BY <2>2, <2>3
<1>5. s \in Scope
  <2>1. 0 \in 0 .. MaxTime
    BY StackAssumption
  <2> QED
    BY <1>3, <2>1 DEF Scope
<1> HIDE DEF s
<1>6. scopes \in Seq(Scope)
  BY DEF Control
<1>7. /\ scopes' \in Seq(Scope) /\ Len(scopes') = Len(scopes) + 1
      /\ \A k \in 1 .. Len(scopes) : scopes'[k] = scopes[k]
      /\ scopes'[Len(scopes) + 1] = s
  BY <1>2, <1>5, <1>6, AppendProperties
<1> QED
  BY <1>2, <1>3, <1>4, <1>5, <1>7 DEF d, s

LEMMA LeaveEffects ==
  ASSUME Control, clock \in 1 .. MaxTime, Leave
  PROVE  LET d == Depths[pc]
         IN  /\ phase = "open" /\ UNCHANGED <<phase, clock>>
             /\ d \in 1 .. 3 /\ live' \ {Root} = 1 .. d - 1
             /\ scopes' \in Seq(Scope) /\ Len(scopes') = Len(scopes)
             /\ \A k \in 1 .. Len(scopes) :
                  scopes'[k] = IF scopes[k].depth = d /\ scopes[k].end = 0
                               THEN [scopes[k] EXCEPT !.end = clock] ELSE scopes[k]
<1> DEFINE d == Depths[pc]
           Left(k) == IF scopes[k].depth = d /\ scopes[k].end = 0
                      THEN [scopes[k] EXCEPT !.end = clock] ELSE scopes[k]
<1>1. Depth = d /\ d \in 0 .. 3
  BY OpenScopes
<1>2. /\ phase = "open" /\ UNCHANGED <<phase, clock>>
      /\ d \in Timers /\ live' = live \ {d}
      /\ scopes' = [k \in DOMAIN scopes |-> Left(k)]
  BY <1>1 DEF Leave, DeleteTimer, time
<1>3. d \in 1 .. 3
  BY <1>2, Names1
<1>4. live' \ {Root} = 1 .. d - 1
  <2>1. live' \ {Root} = (1 .. d) \ {d}
    BY <1>2 DEF Control
  <2>2. (1 .. d) \ {d} = 1 .. d - 1
    <3> HIDE DEF d
    <3> QED
      BY <1>3
  <2> QED
    BY <2>1, <2>2
<1>5. /\ scopes \in Seq(Scope) /\ Len(scopes) \in Nat /\ DOMAIN scopes = 1 .. Len(scopes)
      /\ \A k \in 1 .. Len(scopes) : scopes[k] \in Scope
  BY ElementOfSeq, LenProperties DEF Control
<1>6. \A k \in 1 .. Len(scopes) : Left(k) \in Scope
  <2>1. clock \in 0 .. MaxTime
    BY StackAssumption
  <2> QED
    BY <1>5, <2>1 DEF Scope
<1> HIDE DEF Left
<1>7. /\ scopes' = [k \in 1 .. Len(scopes) |-> Left(k)]
  BY <1>2, <1>5
<1>8. scopes' \in Seq(Scope) /\ Len(scopes') = Len(scopes)
      /\ \A k \in 1 .. Len(scopes) : scopes'[k] = Left(k)
  BY <1>5, <1>6, <1>7
<1> QED
  BY <1>2, <1>3, <1>4, <1>8 DEF Left

LEMMA CallsKept ==
  ASSUME UNCHANGED <<build, arg>>
  PROVE  Calls' = Calls /\ Prepared' = Prepared
BY DEF Calls, Prepare, Dispose, Prepared

LEMMA InitControl == AllInit => Inv /\ Control
<1> SUFFICES ASSUME AllInit PROVE Control
  BY InitInv DEF AllInit
<1>1. argv \in Seq([text : STRING, value : Nat])
  BY CommandLinesAssumption DEF AllInit
<1>2. Default \in AllModes
  BY DEF Default, AllModes, ModeFunction
<1>3. arg \in Arg /\ arg.modeString = arg.mode
  BY <1>2 DEF AllInit, Arg
<1>4. live \ {Root} = {} /\ phase = "open"
  BY DEF AllInit, Init
<1>5. Depths[pc] = 0 /\ pc \in DOMAIN Depths /\ pc = "start"
  BY DEF AllInit, Depths
<1>6. 1 .. 0 = {}
  OBVIOUS
<1>7. scopes \in Seq(Scope)
  BY EmptySeq DEF AllInit
<1> QED
  BY <1>1, <1>3, <1>4, <1>5, <1>6, <1>7 DEF AllInit, Control

(* The numbers behind the places of the program. *)
LEMMA DepthValues ==
  /\ Depths["start"] = 0 /\ Depths["arg"] = 1 /\ Depths["call"] = 1 /\ Depths["body"] = 2
  /\ Depths["mode"] = 3 /\ Depths["leave"] = 2 /\ Depths["end"] = 0
  /\ DOMAIN Depths = {"start", "arg", "call", "body", "mode", "leave", "end"}
BY DEF Depths

LEMMA CallCount ==
  ASSUME Control
  PROVE  build \in {"OpenCL", "CPPAMP"} /\ arg.iterations \in Nat /\ Len(Calls) \in Nat /\ call \in Nat \ {0}
<1>1. build \in {"OpenCL", "CPPAMP"} /\ arg.iterations \in Nat /\ call \in Nat \ {0}
  BY DEF Control, Arg
<1>2. Prepared \in {3, 4} /\ Len(Calls) = Prepared + arg.iterations + 2
  BY <1>1, CallPlaces
<1> QED
  BY <1>1, <1>2

LEMMA ParseControl ==
  ASSUME Control, ParseArg
  PROVE  Control'
<1> USE DEF program, timerVars, time
<1>1. /\ pc = "arg" /\ pc' = "arg" /\ status = "running" /\ status' \in {"running", "exit"} /\ n <= Len(argv)
      /\ UNCHANGED <<build, argv, prefix, call, scopes, live, phase>>
  BY DEF ParseArg, Goto, ParseValue, ParseMode, Usage, Break, Unknown
<1>2. n \in Nat \ {0} /\ Len(argv) \in Nat /\ argv \in Seq([text : STRING, value : Nat]) /\ arg \in Arg
      /\ arg.modeString = arg.mode
  BY LenProperties DEF Control
<1>3. n' \in Nat \ {0}
  <2>1. n' = n + 2 \/ n' = n + 1 \/ n' = n
    BY DEF ParseArg, ParseValue, ParseMode, Usage, Break, Unknown
  <2> QED
    BY <1>2, <2>1
<1>4. arg' \in Arg /\ arg'.modeString = arg'.mode
  <2>1. CASE \E field \in {"numInput", "iterations"} : ParseValue(field)
    <3>1. PICK field \in {"numInput", "iterations"} : ParseValue(field)
      BY <2>1
    <3>2. n + 1 \in 1 .. Len(argv)
      BY <1>2, <3>1 DEF ParseValue
    <3>3. argv[n + 1].value \in Nat
      <4> DEFINE j == n + 1
      <4> HIDE DEF j
      <4>1. argv[j] \in [text : STRING, value : Nat]
        BY <1>2, <3>2, ElementOfSeq DEF j
      <4> QED
        BY <4>1 DEF j
    <3>4. arg' = [arg EXCEPT ![field] = argv[n + 1].value]
      BY <3>1 DEF ParseValue
    <3> QED
      BY <1>2, <3>1, <3>3, <3>4 DEF Arg
  <2>2. CASE ParseMode
    <3>1. argv[n].text \in AllModes
      BY <1>1, <2>2 DEF ParseMode, Modes, AllModes, ModeFunction
    <3>2. arg' = [arg EXCEPT !.mode = argv[n].text, !.modeString = argv[n].text]
      BY <2>2 DEF ParseMode
    <3> QED
      BY <1>2, <3>1, <3>2 DEF Arg
  <2>3. CASE UNCHANGED arg
    BY <1>2, <2>3
  <2> QED
    BY <2>1, <2>2, <2>3 DEF ParseArg, Usage, Break, Unknown
<1> QED
  BY <1>1, <1>3, <1>4 DEF Control

LEMMA EnterControl ==
  ASSUME Control, clock \in 1 .. MaxTime, EnterMain \/ Call \/ CallMode
  PROVE  Control'
<1>1. /\ UNCHANGED <<build, argv, n, arg, prefix, call, status>> /\ status = "running"
      /\ \/ pc = "start" /\ pc' = "arg"
         \/ pc = "call" /\ pc' = "body" /\ call <= Len(Calls)
         \/ pc = "body" /\ pc' = "mode" /\ Calls[call] = "runBlackScholes"
  BY DEF EnterMain, Call, CallMode, Goto, program, In
<1>2. \E name \in ScopeNames : Enter(name)
  <2>1. CASE EnterMain
    <3>1. Enter("main") /\ "main" \in ScopeNames
      BY <2>1 DEF EnterMain, ScopeNames
    <3> QED
      BY <3>1
  <2>2. CASE Call
    <3>1. Calls[call] \in ScopeNames
      BY <2>2, CallNames, CallCount DEF Call
    <3> QED
      BY <2>2, <3>1 DEF Call
  <2>3. CASE CallMode
    <3>1. ModeFunction[arg.mode] \in ScopeNames
      BY DEF Control, Arg, AllModes, ScopeNames
    <3> QED
      BY <2>3, <3>1 DEF CallMode
  <2> QED
    BY <2>1, <2>2, <2>3
<1>3. /\ phase = "open" /\ UNCHANGED phase /\ scopes' \in Seq(Scope)
      /\ live' \ {Root} = 1 .. Depths[pc] + 1
  BY <1>2, EnterEffects
<1>4. Depths[pc'] = Depths[pc] + 1 /\ pc' \in DOMAIN Depths
  BY <1>1, DepthValues
<1>5. Calls' = Calls
  BY <1>1, CallsKept
<1>6. live' \ {Root} = 1 .. Depths[pc']
  BY <1>3, <1>4
<1>7. pc \in {"body", "mode", "leave"} => call <= Len(Calls)
  BY DEF Control
<1> QED
  BY <1>1, <1>3, <1>4, <1>5, <1>6, <1>7 DEF Control

LEMMA LeaveControl ==
  ASSUME Control, clock \in 1 .. MaxTime, RunMode \/ ReturnToMain \/ Return
  PROVE  Control'
<1>1. /\ UNCHANGED <<build, argv, n, arg, prefix>> /\ status = "running" /\ Leave
      /\ \/ pc = "mode" /\ pc' = "leave" /\ UNCHANGED <<call, status>>
         \/ pc = "leave" /\ pc' = "call" /\ call' = call + 1 /\ UNCHANGED status
         \/ pc = "call" /\ pc' = "end" /\ call > Len(Calls) /\ UNCHANGED call /\ status' = "returned"
  BY DEF RunMode, ReturnToMain, Return, Goto, program
<1>2. /\ phase = "open" /\ UNCHANGED phase /\ scopes' \in Seq(Scope)
      /\ live' \ {Root} = 1 .. Depths[pc] - 1
  BY <1>1, LeaveEffects
<1>3. Depths[pc'] = Depths[pc] - 1 /\ pc' \in DOMAIN Depths
  BY <1>1, DepthValues
<1>4. Calls' = Calls
  BY <1>1, CallsKept
<1>5. live' \ {Root} = 1 .. Depths[pc']
  BY <1>2, <1>3
<1>6. Len(Calls) \in Nat /\ call \in Nat \ {0}
  BY CallCount
<1>7. call' \in Nat \ {0}
  BY <1>1, <1>6
<1>8. /\ pc' = "end" => call' = Len(Calls) + 1
      /\ pc' = "call" => call' <= Len(Calls) + 1
      /\ pc' = "leave" => call' <= Len(Calls)
  BY <1>1, <1>6 DEF Control
<1> QED
  BY <1>1, <1>2, <1>3, <1>4, <1>5, <1>7, <1>8 DEF Control

LEMMA OtherControl ==
  ASSUME Control,
         \/ SetLogPrefix \/ HostOnly \/ Construct \/ ZeroArray \/ Verify \/ Throw
         \/ Destroy \/ Time \/ UNCHANGED allVars
  PROVE  Control'
<1> USE DEF program, progress, timerVars, time
<1>1. CASE UNCHANGED <<live, phase, build, argv, n, arg, call, scopes>>
  <2>1. Calls' = Calls
    BY <1>1, CallsKept
  <2>2. CASE HostOnly \/ Construct \/ ZeroArray \/ Verify
    <3>1. /\ pc = "body" /\ pc' = "leave" /\ status = "running" /\ status' \in {"running", "exit"}
          /\ UNCHANGED prefix
      BY <2>2 DEF HostOnly, Construct, ZeroArray, Verify, Goto
    <3> QED
      BY <1>1, <2>1, <3>1, DepthValues DEF Control
  <2>3. CASE SetLogPrefix
    <3>1. /\ pc = "arg" /\ pc' = "call" /\ status = "running" /\ status' = "running"
          /\ prefix' = [mode |-> arg.modeString, numInput |-> arg.numInput, iterations |-> arg.iterations]
      BY <2>3 DEF SetLogPrefix, Goto
    <3>2. call = 1 /\ 1 <= Len(Calls) + 1
      BY <3>1, CallCount DEF Control
    <3> QED
      BY <1>1, <2>1, <3>1, <3>2, DepthValues DEF Control
  <2>4. CASE Throw
    <3>1. pc \in {"mode", "body", "call"} /\ UNCHANGED <<pc, prefix>> /\ status = "running" /\ status' = "aborted"
      BY <2>4 DEF Throw
    <3> QED
      BY <1>1, <2>1, <3>1 DEF Control
  <2>5. CASE UNCHANGED <<pc, status, prefix>>
    BY <1>1, <2>1, <2>5 DEF Control
  <2>6. CASE Destroy \/ Time \/ UNCHANGED allVars
    <3>1. UNCHANGED <<pc, status, prefix>>
      BY <2>6 DEF Destroy, Time, allVars
    <3> QED
      BY <2>5, <3>1
  <2> QED
    BY <2>2, <2>3, <2>4, <2>6
<1>2. CASE Destroy
  <2>1. UNCHANGED <<build, argv, n, arg, prefix, pc, call, status, scopes>> /\ status \in {"returned", "exit"}
    BY <1>2 DEF Destroy
  <2>2. live' \ {Root} = live \ {Root}
    BY <1>2 DEF Destroy, DeleteRoot, DumpTimeline, DumpLog, DeleteEvents
  <2>3. Calls' = Calls
    BY <2>1, CallsKept
  <2> QED
    BY <2>1, <2>2, <2>3 DEF Control
<1> QED
  BY <1>1, <1>2 DEF SetLogPrefix, HostOnly, Construct, ZeroArray, Verify, Throw, Time, Tick, SetBack, allVars

LEMMA StepControl == Inv /\ Control /\ [AllNext]_allVars => Inv' /\ Control'
<1> SUFFICES ASSUME Inv, Control, [AllNext]_allVars PROVE Inv' /\ Control'
  OBVIOUS
<1>1. Inv'
  BY TimerStep, StepInv
<1>2. clock \in 1 .. MaxTime
  BY DEF Inv, Typing, TypeOK
<1>3. CASE ParseArg
  BY <1>1, <1>3, ParseControl
<1>4. CASE EnterMain \/ Call \/ CallMode
  BY <1>1, <1>2, <1>4, EnterControl
<1>5. CASE RunMode \/ ReturnToMain \/ Return
  BY <1>1, <1>2, <1>5, LeaveControl
<1>6. CASE \/ SetLogPrefix \/ HostOnly \/ Construct \/ ZeroArray \/ Verify \/ Throw
           \/ Destroy \/ Time \/ UNCHANGED allVars
  BY <1>1, <1>6, OtherControl
<1> QED
  BY <1>3, <1>4, <1>5, <1>6 DEF AllNext, Main

(* The program uses its timers as TimerStack lets it: what is proved of    *)
(* TimerStack holds of the timers of bs_opencl.cpp, however it ends.       *)
THEOREM UsesTimers == AllSpec => Spec
<1>1. AllInit => Init
  BY DEF AllInit
<1> QED
  BY <1>1, InitControl, TimerStep, StepControl, PTL DEF AllSpec, Spec, allVars
------------------------------------------------------------------------------
(* What has been computed.                                                 *)

(* Calls of runBlackScholes among the first m calls of main.               *)
RunCalls(m) ==
  IF m <= Prepared THEN 0 ELSE IF m - Prepared <= arg.iterations THEN m - Prepared ELSE arg.iterations

(* The last call that has come to its mode function, or to nothing of it,  *)
(* and the last that has done its work.                                    *)
Entered == IF pc = "mode" \/ (pc = "leave" /\ Calls[call] = "runBlackScholes") THEN call ELSE call - 1
Done    == IF pc = "leave" THEN call ELSE call - 1

Runs == {k \in DOMAIN scopes : scopes[k].name = ModeFunction[arg.mode]}

(* A mode function has been entered once for each call of runBlackScholes. *)
Ran ==
  /\ IsFiniteSet(Runs) /\ Cardinality(Runs) = RunCalls(Entered)
  /\ \A k \in DOMAIN scopes : scopes[k].depth = 3 => k \in Runs
  /\ pc \in {"start", "arg"} => \A k \in DOMAIN scopes : scopes[k].name = "main" /\ scopes[k].depth = 1

(* The arrays are zero until a mode function has returned; the comparison  *)
(* has been passed after its call.                                         *)
Computed ==
  /\ results \in [Arrays -> {"uninitialized", "zero", "close", "far", "NaN"}]
  /\ build # "OpenCL" /\ Done = 3 => results["gpuCall"] = "zero"
  /\ Done >= Prepared =>
       /\ results["gpuCall"] # "uninitialized" /\ results["gpuPut"] # "uninitialized"
       /\ results["gpuPut"] = "zero" => results["gpuCall"] = "zero"
       /\ Runs = {} => results["gpuCall"] = "zero"
  /\ Done > Prepared + arg.iterations /\ status \in {"running", "returned"} => ~Mismatch

LEMMA RunsEnter ==
  ASSUME Control, clock \in 1 .. MaxTime, NEW name \in ScopeNames, Enter(name), UNCHANGED arg
  PROVE  /\ Runs \subseteq 1 .. Len(scopes) /\ Len(scopes) \in Nat
         /\ Runs' = IF name = ModeFunction[arg.mode] THEN Runs \cup {Len(scopes) + 1} ELSE Runs
         /\ DOMAIN scopes' = DOMAIN scopes \cup {Len(scopes) + 1}
         /\ \A k \in DOMAIN scopes : scopes'[k] = scopes[k]
         /\ scopes'[Len(scopes) + 1].name = name /\ scopes'[Len(scopes) + 1].depth = Depths[pc] + 1
<1> DEFINE len == Len(scopes)
           d   == Depths[pc]
           new == [name |-> name, depth |-> d + 1, start |-> clock, end |-> 0]
<1>1. /\ scopes' \in Seq(Scope) /\ Len(scopes') = len + 1
      /\ \A k \in 1 .. len : scopes'[k] = scopes[k]
      /\ scopes'[len + 1] = new
  BY EnterEffects
<1>2. new.name = name /\ new.depth = d + 1
  OBVIOUS
<1>3. len \in Nat /\ DOMAIN scopes = 1 .. len /\ DOMAIN scopes' = 1 .. len + 1
  <2>1. scopes \in Seq(Scope)
    BY DEF Control
  <2> QED
    BY <1>1, <2>1, LenProperties
<1> HIDE DEF len, new, d
<1>4. 1 .. len + 1 = (1 .. len) \cup {len + 1}
  BY <1>3
<1>5. Runs' = {k \in 1 .. len + 1 : scopes'[k].name = ModeFunction[arg.mode]}
  BY <1>3 DEF Runs
<1>6. Runs = {k \in 1 .. len : scopes[k].name = ModeFunction[arg.mode]}
  BY <1>3 DEF Runs
<1>7. Runs' = IF name = ModeFunction[arg.mode] THEN Runs \cup {len + 1} ELSE Runs
  BY <1>1, <1>2, <1>4, <1>5, <1>6
<1> QED
  BY <1>1, <1>2, <1>3, <1>4, <1>6, <1>7 DEF len, d

LEMMA RunsLeave ==
  ASSUME Control, clock \in 1 .. MaxTime, Leave, UNCHANGED arg
  PROVE  /\ Runs' = Runs /\ DOMAIN scopes' = DOMAIN scopes
         /\ \A k \in DOMAIN scopes : scopes'[k].name = scopes[k].name /\ scopes'[k].depth = scopes[k].depth
<1>1. /\ scopes \in Seq(Scope) /\ scopes' \in Seq(Scope) /\ Len(scopes') = Len(scopes)
      /\ \A k \in 1 .. Len(scopes) :
           scopes'[k] = IF scopes[k].depth = Depths[pc] /\ scopes[k].end = 0
                        THEN [scopes[k] EXCEPT !.end = clock] ELSE scopes[k]
  BY LeaveEffects DEF Control
<1>2. DOMAIN scopes = 1 .. Len(scopes) /\ DOMAIN scopes' = 1 .. Len(scopes)
  BY <1>1, LenProperties
<1>3. ASSUME NEW k \in DOMAIN scopes
      PROVE  scopes'[k].name = scopes[k].name /\ scopes'[k].depth = scopes[k].depth
  <2>1. scopes[k] \in Scope
    BY <1>1, <1>2, ElementOfSeq
  <2>2. [scopes[k] EXCEPT !.end = clock].name = scopes[k].name
        /\ [scopes[k] EXCEPT !.end = clock].depth = scopes[k].depth
    BY <2>1 DEF Scope
  <2> QED
    BY <1>1, <1>2, <2>2
<1> QED
  BY <1>2, <1>3 DEF Runs

(* Where the counts change, in numbers.                                    *)
LEMMA RunNumbers ==
  ASSUME build \in {"OpenCL", "CPPAMP"}, arg.iterations \in Nat
  PROVE  /\ Prepared \in {3, 4} /\ RunCalls(0) = 0
         /\ \A k \in Nat \ {0} :
              /\ k > Prepared /\ k <= Prepared + arg.iterations => RunCalls(k) = RunCalls(k - 1) + 1
              /\ ~(k > Prepared /\ k <= Prepared + arg.iterations) => RunCalls(k) = RunCalls(k - 1)
         /\ \A k \in Nat : RunCalls(k) \in Nat
         /\ RunCalls(Prepared + arg.iterations + 2) = arg.iterations
<1>1. Prepared \in {3, 4}
  BY CallPlaces
<1> QED
  BY <1>1 DEF RunCalls

LEMMA InitRan == AllInit => Ran /\ Computed
<1> SUFFICES ASSUME AllInit PROVE Ran /\ Computed
  OBVIOUS
<1>1. build \in {"OpenCL", "CPPAMP"} /\ arg.iterations = 1 /\ arg.iterations \in Nat /\ scopes = <<>>
      /\ pc = "start" /\ call = 1 /\ results = [a \in Arrays |-> "uninitialized"]
  BY DEF AllInit
<1>2. Runs = {} /\ Entered = 0 /\ Done = 0 /\ DOMAIN scopes = {}
  BY <1>1 DEF Runs, Entered, Done
<1>3. Prepared \in {3, 4} /\ RunCalls(0) = 0
  BY <1>1, RunNumbers
<1>4. IsFiniteSet(Runs) /\ Cardinality(Runs) = 0
  BY <1>2, FS_EmptySet
<1>5. Ran
  BY <1>1, <1>2, <1>3, <1>4 DEF Ran
<1>6. Computed
  BY <1>1, <1>2, <1>3 DEF Computed
<1> QED
  BY <1>5, <1>6

(* A step that enters and leaves no scope keeps the runs.                  *)
LEMMA RanKept ==
  ASSUME Ran, UNCHANGED <<build, arg, scopes>>, Control,
         \/ UNCHANGED <<pc, call>>
         \/ pc = "arg" /\ pc' = "call" /\ UNCHANGED call
         \/ pc = "body" /\ pc' = "leave" /\ UNCHANGED call /\ Calls[call] # "runBlackScholes"
  PROVE  Ran' /\ Runs' = Runs
<1>1. Calls' = Calls /\ Prepared' = Prepared
  BY CallsKept
<1>2. Entered' = Entered
  BY <1>1 DEF Entered
<1>3. RunCalls(Entered)' = RunCalls(Entered)
  BY <1>1, <1>2 DEF RunCalls
<1>4. Runs' = Runs
  BY DEF Runs
<1>5. pc' \in {"start", "arg"} => pc \in {"start", "arg"}
  OBVIOUS
<1> QED
  BY <1>3, <1>4, <1>5 DEF Ran

LEMMA RanEnter ==
  ASSUME Ran, Control, clock \in 1 .. MaxTime, EnterMain \/ Call \/ CallMode
  PROVE  Ran' /\ (~CallMode => Runs' = Runs)
<1>1. /\ UNCHANGED <<build, arg, call>>
      /\ build \in {"OpenCL", "CPPAMP"} /\ arg.iterations \in Nat /\ call \in Nat \ {0} /\ arg.mode \in AllModes
  BY CallCount DEF EnterMain, Call, CallMode, program, Control, Arg
<1>2. /\ Calls' = Calls /\ Prepared' = Prepared
      /\ \A k : RunCalls(k)' = RunCalls(k)
  BY <1>1, CallsKept DEF RunCalls
<1>3. CASE EnterMain
  <2>1. pc = "start" /\ pc' = "arg" /\ Enter("main") /\ "main" \in ScopeNames /\ Depths[pc] = 0
    BY <1>3, DepthValues DEF EnterMain, Goto, ScopeNames
  <2>2. "main" # ModeFunction[arg.mode]
    BY <1>1 DEF AllModes, ModeFunction
  <2>3. /\ Runs' = Runs /\ DOMAIN scopes' = DOMAIN scopes \cup {Len(scopes) + 1}
        /\ \A k \in DOMAIN scopes : scopes'[k] = scopes[k]
        /\ scopes'[Len(scopes) + 1].name = "main" /\ scopes'[Len(scopes) + 1].depth = 1
    <3>1. scopes'[Len(scopes) + 1].name = "main" /\ scopes'[Len(scopes) + 1].depth = Depths[pc] + 1
      BY <1>1, <2>1, RunsEnter, Zenon
    <3>2. scopes'[Len(scopes) + 1].depth = 1
      BY <2>1, <3>1
    <3> QED
      BY <1>1, <2>1, <2>2, <3>1, <3>2, RunsEnter
  <2>4. Entered' = Entered
    BY <1>1, <2>1 DEF Entered
  <2>5. RunCalls(Entered)' = RunCalls(Entered)
    BY <1>2, <2>4 DEF RunCalls
  <2> QED
    BY <2>1, <2>3, <2>5 DEF Ran
<1>4. CASE Call
  <2>1. /\ pc = "call" /\ pc' = "body" /\ Enter(Calls[call]) /\ Depths[pc] = 1
        /\ call \in 1 .. Len(Calls)
    BY <1>1, <1>4, DepthValues, CallCount DEF Call, Goto
  <2>2. Calls[call] \in ScopeNames /\ Calls[call] # ModeFunction[arg.mode]
    BY <1>1, <2>1, CallNames
  <2>3. /\ Runs' = Runs /\ DOMAIN scopes' = DOMAIN scopes \cup {Len(scopes) + 1}
        /\ \A k \in DOMAIN scopes : scopes'[k] = scopes[k]
        /\ scopes'[Len(scopes) + 1].depth = 2
    <3>1. scopes'[Len(scopes) + 1].depth = Depths[pc] + 1
      BY <1>1, <2>1, <2>2, RunsEnter, Zenon
    <3>2. scopes'[Len(scopes) + 1].depth = 2
      BY <2>1, <3>1
    <3> QED
      BY <1>1, <2>1, <2>2, <3>2, RunsEnter
  <2>4. Entered' = Entered
    BY <1>1, <2>1 DEF Entered
  <2>5. RunCalls(Entered)' = RunCalls(Entered)
    BY <1>2, <2>4 DEF RunCalls
  <2> QED
    BY <2>1, <2>3, <2>5 DEF Ran
<1>5. CASE CallMode
  <2>1. /\ pc = "body" /\ pc' = "mode" /\ Enter(ModeFunction[arg.mode]) /\ Depths[pc] = 2
        /\ call \in 1 .. Len(Calls) /\ Calls[call] = "runBlackScholes"
    BY <1>1, <1>5, DepthValues, CallCount DEF CallMode, Goto, In
  <2>2. ModeFunction[arg.mode] \in ScopeNames
    BY <1>1 DEF AllModes, ScopeNames
  <2>3. /\ Runs' = Runs \cup {Len(scopes) + 1} /\ DOMAIN scopes' = DOMAIN scopes \cup {Len(scopes) + 1}
        /\ \A k \in DOMAIN scopes : scopes'[k] = scopes[k]
        /\ Runs \subseteq 1 .. Len(scopes) /\ Len(scopes) \in Nat
    BY <1>1, <2>1, <2>2, RunsEnter
  <2>4. Entered = call - 1 /\ Entered' = call
    BY <1>1, <2>1 DEF Entered
  <2>5. call > Prepared /\ call <= Prepared + arg.iterations
    BY <1>1, <2>1, CallNames
  <2>6. RunCalls(call) = RunCalls(call - 1) + 1
    BY <1>1, <2>5, RunNumbers
  <2>7. RunCalls(Entered)' = RunCalls(Entered) + 1
    BY <1>2, <2>4, <2>6 DEF RunCalls
  <2>8. IsFiniteSet(Runs') /\ Cardinality(Runs') = Cardinality(Runs) + 1
    <3>1. Len(scopes) + 1 \notin Runs
      BY <2>3
    <3> QED
      BY <2>3, <3>1, FS_AddElement DEF Ran
  <2> QED
    BY <1>5, <2>1, <2>3, <2>7, <2>8 DEF Ran
<1>6. CallMode => ~(EnterMain \/ Call)
  BY DEF CallMode, EnterMain, Call, Goto
<1> QED
  BY <1>3, <1>4, <1>5

LEMMA RanLeave ==
  ASSUME Ran, Control, clock \in 1 .. MaxTime, RunMode \/ ReturnToMain \/ Return
  PROVE  Ran' /\ Runs' = Runs
<1>1. /\ UNCHANGED <<build, arg>> /\ Leave
      /\ build \in {"OpenCL", "CPPAMP"} /\ arg.iterations \in Nat /\ call \in Nat \ {0}
  BY CallCount DEF RunMode, ReturnToMain, Return, program, Control, Arg
<1>2. /\ Calls' = Calls /\ Prepared' = Prepared
      /\ \A k : RunCalls(k)' = RunCalls(k)
  BY <1>1, CallsKept DEF RunCalls
<1>3. /\ Runs' = Runs /\ DOMAIN scopes' = DOMAIN scopes
      /\ \A k \in DOMAIN scopes : scopes'[k].name = scopes[k].name /\ scopes'[k].depth = scopes[k].depth
  BY <1>1, RunsLeave
<1>4. RunCalls(Entered') = RunCalls(Entered)
  <2>1. CASE RunMode
    <3>1. pc = "mode" /\ pc' = "leave" /\ UNCHANGED call /\ Calls[call] = "runBlackScholes"
      BY <2>1 DEF RunMode, Goto, Control
    <3> QED
      BY <1>2, <3>1 DEF Entered
  <2>2. CASE ReturnToMain
    <3>1. pc = "leave" /\ pc' = "call" /\ call' = call + 1 /\ call \in 1 .. Len(Calls)
      BY <1>1, <2>2, CallCount DEF ReturnToMain, Goto, Control
    <3>2. Entered' = call
      BY <1>1, <3>1 DEF Entered
    <3>3. CASE Calls[call] = "runBlackScholes"
      BY <3>1, <3>2, <3>3 DEF Entered
    <3>4. CASE Calls[call] # "runBlackScholes"
      <4>1. ~(call > Prepared /\ call <= Prepared + arg.iterations)
        BY <1>1, <3>1, <3>4, CallNames
      <4>2. RunCalls(call) = RunCalls(call - 1)
        BY <1>1, <4>1, RunNumbers
      <4>3. Entered = call - 1
        BY <3>1, <3>4 DEF Entered
      <4> QED
        BY <3>2, <4>2, <4>3
    <3> QED
      BY <3>3, <3>4
  <2>3. CASE Return
    <3>1. pc = "call" /\ pc' = "end" /\ UNCHANGED call
      BY <2>3 DEF Return, Goto
    <3> QED
      BY <3>1 DEF Entered
  <2> QED
    BY <2>1, <2>2, <2>3
<1>5. pc' \notin {"start", "arg"}
  BY DEF RunMode, ReturnToMain, Return, Goto
<1>6. RunCalls(Entered)' = RunCalls(Entered')
  BY <1>1, <1>2 DEF RunCalls
<1> QED
  BY <1>3, <1>4, <1>5, <1>6 DEF Ran

LEMMA RanParse ==
  ASSUME Ran, Control, Control', ParseArg
  PROVE  Ran' /\ Runs = {} /\ Runs' = {} /\ Done' = 0
<1>1. pc = "arg" /\ pc' = "arg" /\ call = 1 /\ UNCHANGED <<build, scopes, call>>
  BY DEF ParseArg, Goto, Control, program
<1>2. \A k \in DOMAIN scopes : scopes[k].name = "main" /\ scopes[k].depth = 1
  BY <1>1 DEF Ran
<1>3. "main" # ModeFunction[arg.mode] /\ "main" # ModeFunction[arg'.mode]
  BY DEF Control, Arg, AllModes, ModeFunction
<1>4. Runs = {} /\ Runs' = {}
  BY <1>1, <1>2, <1>3 DEF Runs
<1>5. Entered' = 0 /\ Done' = 0
  BY <1>1 DEF Entered, Done
<1>6. RunCalls(Entered)' = 0
  <2>1. Prepared' \in {3, 4}
    BY DEF Prepared, Prepare
  <2>2. Entered' = 0 /\ Entered' <= Prepared'
    BY <1>5, <2>1
  <2> QED
    BY <2>2 DEF RunCalls
<1>7. IsFiniteSet(Runs') /\ Cardinality(Runs') = 0
  BY <1>4, FS_EmptySet
<1> QED
  BY <1>1, <1>2, <1>4, <1>5, <1>6, <1>7 DEF Ran

LEMMA StepRan == Inv /\ Control /\ Ran /\ [AllNext]_allVars => Ran'
<1> SUFFICES ASSUME Inv, Control, Ran, [AllNext]_allVars PROVE Ran'
  OBVIOUS
<1>1. Control' /\ clock \in 1 .. MaxTime
  BY StepControl DEF Inv, Typing, TypeOK
<1>2. CASE ParseArg
  BY <1>1, <1>2, RanParse
<1>3. CASE EnterMain \/ Call \/ CallMode
  BY <1>1, <1>3, RanEnter
<1>4. CASE RunMode \/ ReturnToMain \/ Return
  BY <1>1, <1>4, RanLeave
<1>5. CASE HostOnly \/ Construct \/ ZeroArray \/ Verify
  <2>1. /\ UNCHANGED <<build, arg, scopes, call>> /\ pc = "body" /\ pc' = "leave"
        /\ call \in 1 .. Len(Calls) /\ Calls[call] # "runBlackScholes"
    BY <1>5, CallCount DEF HostOnly, Construct, ZeroArray, Verify, Goto, In, program, Dispose
  <2> QED
    BY <2>1, RanKept
<1>6. CASE SetLogPrefix
  BY <1>6, RanKept DEF SetLogPrefix, Goto, program
<1>7. CASE Throw
  BY <1>7, RanKept DEF Throw, program
<1>8. CASE Destroy \/ Time \/ UNCHANGED allVars
  <2>1. UNCHANGED <<program, progress>>
    BY <1>8 DEF Destroy, Time, allVars
  <2> QED
    BY <2>1, RanKept DEF program, progress
<1> QED
  BY <1>2, <1>3, <1>4, <1>5, <1>6, <1>7, <1>8 DEF AllNext, Main

LEMMA ComputedKept ==
  ASSUME Computed, UNCHANGED <<build, arg, results>>, Done' = Done, Runs' = {} => Runs = {},
         status = "running" \/ UNCHANGED status
  PROVE  Computed'
<1>1. Prepared' = Prepared /\ Mismatch' = Mismatch
  BY CallsKept DEF Mismatch
<1> HIDE DEF Runs, Done, Prepared, Mismatch
<1> QED
  BY <1>1 DEF Computed

(* What becomes of the arrays by the work of a call.                       *)
LEMMA WorkComputed ==
  ASSUME Computed, Control, HostOnly \/ Construct \/ ZeroArray \/ Verify
  PROVE  Computed'
<1>1. /\ pc = "body" /\ pc' = "leave" /\ UNCHANGED <<build, arg, call, scopes>>
      /\ build \in {"OpenCL", "CPPAMP"} /\ arg.iterations \in Nat /\ call \in 1 .. Len(Calls) /\ status = "running"
  BY CallCount DEF HostOnly, Construct, ZeroArray, Verify, Goto, program, In
<1>2. /\ Prepared' = Prepared /\ Runs' = Runs
      /\ Prepared = (IF build = "OpenCL" THEN 3 ELSE 4)
      /\ Len(Calls) = Prepared + arg.iterations + 2 /\ call \in Nat
  BY <1>1, CallsKept, CallPlaces DEF Runs
<1>3. Done = call - 1 /\ Done' = call
  BY <1>1 DEF Done
<1>4. CASE HostOnly
  <2>1. UNCHANGED <<results, status>> /\ Mismatch' = Mismatch
    BY <1>4 DEF HostOnly, Mismatch
  <2>2. call <= 2 \/ call = Len(Calls)
    <3>1. /\ Calls[call] # "runBlackScholes" /\ Calls[call] # "verifyBlackScholes"
          /\ Calls[call] \notin {"OpenCLBlackScholes", "zeroArray"}
      BY <1>4 DEF HostOnly, In, Dispose
    <3> QED
      BY <1>1, <1>2, <3>1, CallNames
  <2>3. CASE call <= 2
    <3>1. ~(Done' = 3) /\ ~(Done' >= Prepared') /\ ~(Done' > Prepared' + arg'.iterations)
      BY <1>1, <1>2, <1>3, <2>3
    <3> QED
      BY <2>1, <3>1 DEF Computed
  <2>4. CASE call = Len(Calls)
    <3>1. Done >= Prepared /\ Done > Prepared + arg.iterations /\ ~(Done' = 3)
      BY <1>1, <1>2, <1>3, <2>4
    <3> QED
      BY <1>1, <1>2, <2>1, <3>1 DEF Computed
  <2> QED
    BY <2>2, <2>3, <2>4
<1>5. CASE Construct
  <2>1. /\ results' = [a \in Arrays |-> "zero"] /\ build = "OpenCL" /\ call \in 3 .. Prepared
    BY <1>1, <1>2, <1>5, CallNames DEF Construct, In
  <2>2. results'["gpuCall"] = "zero" /\ results'["gpuPut"] = "zero"
        /\ results' \in [Arrays -> {"uninitialized", "zero", "close", "far", "NaN"}]
    BY <2>1 DEF Arrays
  <2>3. ~(Done' > Prepared' + arg'.iterations)
    BY <1>1, <1>2, <1>3, <2>1
  <2> QED
    BY <1>1, <2>1, <2>2, <2>3 DEF Computed
<1>6. CASE ZeroArray
  <2>1. build # "OpenCL" /\ call \in 3 .. Prepared /\ Prepared = 4
    BY <1>1, <1>2, <1>6, CallNames DEF ZeroArray, In
  <2>2. ~(Done' > Prepared' + arg'.iterations)
    BY <1>1, <1>2, <1>3, <2>1
  <2>3. CASE call = 3
    <3>1. Calls[2] = "cpuBlackScholes" /\ call - 1 = 2
      BY <1>1, <1>2, <2>3, CallPlaces
    <3>2. results' = [results EXCEPT !["gpuCall"] = "zero"]
      BY <1>6, <3>1 DEF ZeroArray
    <3>3. results'["gpuCall"] = "zero"
          /\ results' \in [Arrays -> {"uninitialized", "zero", "close", "far", "NaN"}]
      BY <3>2 DEF Computed, Arrays
    <3>4. ~(Done' >= Prepared')
      BY <1>2, <1>3, <2>1, <2>3
    <3> QED
      BY <2>2, <3>3, <3>4 DEF Computed
  <2>4. CASE call = 4
    <3>1. Calls[3] = "zeroArray" /\ call - 1 = 3
      BY <1>1, <1>2, <2>1, <2>4, CallPlaces
    <3>2. results' = [results EXCEPT !["gpuPut"] = "zero"]
      BY <1>6, <3>1 DEF ZeroArray
    <3>3. results["gpuCall"] = "zero"
      BY <1>3, <2>1, <3>1 DEF Computed
    <3>4. results'["gpuCall"] = "zero" /\ results'["gpuPut"] = "zero"
          /\ results' \in [Arrays -> {"uninitialized", "zero", "close", "far", "NaN"}]
      BY <3>2, <3>3 DEF Computed, Arrays
    <3> QED
      BY <2>2, <3>4 DEF Computed
  <2> QED
    BY <2>1, <2>3, <2>4
<1>7. CASE Verify
  <2>1. UNCHANGED results /\ Mismatch' = Mismatch /\ status' = (IF Mismatch THEN "exit" ELSE status)
    BY <1>1, <1>7 DEF Verify, Mismatch
  <2>2. call = Prepared + arg.iterations + 1
    BY <1>1, <1>7, CallNames DEF Verify, In
  <2>3. Done >= Prepared /\ ~(Done' = 3)
    BY <1>1, <1>2, <1>3, <2>2, SMTT(40)
  <2> QED
    BY <1>1, <1>2, <2>1, <2>3 DEF Computed
<1> QED
  BY <1>4, <1>5, <1>6, <1>7

LEMMA RunComputed ==
  ASSUME Computed, Control, Ran, Ran', Runs' = Runs, RunMode
  PROVE  Computed'
<1>1. /\ pc = "mode" /\ pc' = "leave" /\ UNCHANGED <<build, arg, call>>
      /\ build \in {"OpenCL", "CPPAMP"} /\ arg.iterations \in Nat /\ call \in 1 .. Len(Calls)
      /\ Calls[call] = "runBlackScholes"
  BY CallCount DEF RunMode, Goto, program, Control
<1>2. /\ Prepared' = Prepared /\ Prepared \in {3, 4} /\ Done = call - 1 /\ Done' = call
  BY <1>1, CallsKept, CallPlaces DEF Done
<1>3. call > Prepared /\ call <= Prepared + arg.iterations /\ call \in Nat
  BY <1>1, CallNames
<1>4. Done >= Prepared /\ ~(Done' = 3) /\ ~(Done' > Prepared' + arg'.iterations)
  BY <1>1, <1>2, <1>3
<1>5. CASE UNCHANGED results
  BY <1>1, <1>4, <1>5 DEF Computed
<1>6. CASE results' \in [Arrays -> {"close", "far", "NaN"}]
  <2>1. results' \in [Arrays -> {"uninitialized", "zero", "close", "far", "NaN"}]
    BY <1>6
  <2>2. results'["gpuCall"] \in {"close", "far", "NaN"} /\ results'["gpuPut"] \in {"close", "far", "NaN"}
    BY <1>6 DEF Arrays
  <2>3. Runs # {}
    <3>1. RunCalls(Entered) # 0
      <4>1. Entered = call
        BY <1>1 DEF Entered
      <4> QED
        BY <1>1, <1>2, <1>3, <4>1 DEF RunCalls
    <3> QED
      BY <3>1, FS_EmptySet DEF Ran
  <2> QED
    BY <1>4, <2>1, <2>2, <2>3 DEF Computed
<1> QED
  BY <1>5, <1>6 DEF RunMode

LEMMA StepComputed ==
  Inv /\ Control /\ Ran /\ Computed /\ [AllNext]_allVars => Computed'
<1> SUFFICES ASSUME Inv, Control, Ran, Computed, [AllNext]_allVars PROVE Computed'
  OBVIOUS
<1>1. Control' /\ Ran' /\ clock \in 1 .. MaxTime
  BY StepControl, StepRan DEF Inv, Typing, TypeOK
<1>2. CASE ParseArg
  <2>1. Done' = 0 /\ Prepared' \in {3, 4} /\ arg'.iterations \in Nat /\ UNCHANGED results
    BY <1>1, <1>2, RanParse DEF Prepared, Prepare, Control, Arg, ParseArg
  <2>2. ~(Done' = 3) /\ ~(Done' >= Prepared') /\ ~(Done' > Prepared' + arg'.iterations)
    BY <2>1
  <2> QED
    BY <2>1, <2>2 DEF Computed
<1>3. CASE EnterMain \/ Call \/ CallMode
  <2>1. UNCHANGED <<build, arg, results, call, status>> /\ pc # "leave" /\ pc' # "leave"
    BY <1>3 DEF EnterMain, Call, CallMode, Goto, program
  <2>2. Done' = Done
    BY <2>1 DEF Done
  <2>3. Runs' = {} => Runs = {}
    <3>1. CASE CallMode
      <4>1. Enter(ModeFunction[arg.mode]) /\ ModeFunction[arg.mode] \in ScopeNames
        BY <3>1 DEF CallMode, Control, Arg, AllModes, ScopeNames
      <4> QED
        BY <1>1, <2>1, <4>1, RunsEnter
    <3> QED
      BY <1>1, <1>3, <3>1, RanEnter
  <2> QED
    BY <2>1, <2>2, <2>3, ComputedKept
<1>4. CASE RunMode
  BY <1>1, <1>4, RanLeave, RunComputed
<1>5. CASE ReturnToMain \/ Return
  <2>1. UNCHANGED <<build, arg, results>> /\ status = "running" /\ Runs' = Runs
    BY <1>1, <1>5, RanLeave DEF ReturnToMain, Return, Goto, program
  <2>2. Done' = Done
    BY <1>5, CallCount DEF ReturnToMain, Return, Goto, Done
  <2> QED
    BY <2>1, <2>2, ComputedKept
<1>6. CASE HostOnly \/ Construct \/ ZeroArray \/ Verify
  BY <1>6, WorkComputed
<1>7. CASE SetLogPrefix \/ Throw
  <2>1. UNCHANGED <<build, arg, results, call, scopes>> /\ status = "running"
        /\ (UNCHANGED pc \/ (pc = "arg" /\ pc' = "call"))
    BY <1>7 DEF SetLogPrefix, Throw, Goto, program
  <2>2. Done' = Done /\ Runs' = Runs
    BY <2>1 DEF Done, Runs
  <2> QED
    BY <2>1, <2>2, ComputedKept
<1>8. CASE Destroy \/ Time \/ UNCHANGED allVars
  <2>1. UNCHANGED <<program, progress>>
    BY <1>8 DEF Destroy, Time, allVars
  <2>2. UNCHANGED <<build, arg, results, status>> /\ Done' = Done /\ Runs' = Runs
    BY <2>1 DEF program, progress, Done, Runs
  <2> QED
    BY <2>2, ComputedKept
<1> QED
  BY <1>2, <1>3, <1>4, <1>5, <1>6, <1>7, <1>8 DEF AllNext, Main

(* A program that returns has run the mode function that the names of the  *)
(* files give as often as they say, and unless it had no input its results *)
(* have been computed and compared.                                        *)
THEOREM ReturnMeansComputedHolds == AllSpec => []ReturnMeansComputed
<1>1. Control /\ Ran /\ Computed => ReturnMeansComputed
  <2> SUFFICES ASSUME Control, Ran, Computed, status = "returned" PROVE ReturnMeansComputed
    BY DEF ReturnMeansComputed
  <2>1. /\ pc = "end" /\ call = Len(Calls) + 1 /\ arg \in Arg
        /\ prefix = [mode |-> arg.modeString, numInput |-> arg.numInput, iterations |-> arg.iterations]
        /\ arg.modeString = arg.mode
    BY DEF Control
  <2>2. /\ build \in {"OpenCL", "CPPAMP"} /\ arg.iterations \in Nat
    BY DEF Control, Arg
  <2>3. Prepared \in {3, 4} /\ Len(Calls) = Prepared + arg.iterations + 2
    BY <2>2, CallPlaces
  <2>4. Entered = Prepared + arg.iterations + 2 /\ Done = Prepared + arg.iterations + 2
    BY <2>1, <2>2, <2>3 DEF Entered, Done
  <2>5. RunCalls(Entered) = arg.iterations
    BY <2>2, <2>4, RunNumbers
  <2>6. Done >= Prepared /\ Done > Prepared + arg.iterations
    BY <2>2, <2>3, <2>4
  <2>7. prefix.mode = arg.mode /\ prefix.iterations = arg.iterations /\ prefix.numInput = arg.numInput
    BY <2>1
  <2>8. prefix.numInput > 0 => Runs # {} /\ \A a \in Arrays : results[a] \in {"close", "NaN"}
    <3> SUFFICES ASSUME arg.numInput > 0 PROVE Runs # {} /\ \A a \in Arrays : results[a] \in {"close", "NaN"}
      BY <2>7
    <3>1. results["gpuPut"] # "far" /\ results["gpuCall"] \notin {"far", "zero"}
      BY <2>6 DEF Computed, Mismatch
    <3>2. /\ results["gpuCall"] # "uninitialized" /\ results["gpuPut"] # "uninitialized"
          /\ results["gpuPut"] # "zero" /\ Runs # {}
      BY <2>6, <3>1 DEF Computed
    <3>3. \A a \in Arrays : results[a] \in {"uninitialized", "zero", "close", "far", "NaN"}
      BY DEF Computed
    <3> QED
      BY <3>1, <3>2, <3>3 DEF Arrays
  <2> QED
    BY <2>5, <2>7, <2>8 DEF ReturnMeansComputed, Ran, Runs
<1> QED
  BY <1>1, InitControl, InitRan, StepControl, StepRan, StepComputed, PTL DEF AllSpec, allVars

------------------------------------------------------------------------------
(* What is reported.                                                       *)

(* The scope k is open, and the innermost one.                             *)
Innermost(k) == scopes[k].end = 0 /\ scopes[k].depth = Depths[pc]

(* Each scope has its event, after the root's.  They agree on its end until *)
(* the root timer ends the event of the innermost scope in its stead.      *)
Recorded ==
  /\ status = "exit" => pc \in {"arg", "leave"}
  /\ enable =>
       /\ Len(events) = Len(scopes) + 1
       /\ events[1].nestedLevel = 0
       /\ events[1].endTime # 0 <=> phase # "open" /\ Depths[pc] = 0
       /\ \A k \in 1 .. Len(scopes) :
            /\ events[k + 1].name = scopes[k].name
            /\ events[k + 1].nestedLevel = scopes[k].depth
            /\ events[k + 1].startTime = scopes[k].start
            /\ events[k + 1].endTime # scopes[k].end <=> phase # "open" /\ Innermost(k)

(* The log is written once, of all events.                                 *)
Logged ==
  /\ phase \in {"open", "timeline", "log"} => dumped = <<>>
  /\ phase = "open" => timeline = <<>> /\ log = NoLog
  /\ enable /\ phase \in {"free", "destroyed"} =>
       log.rows = [e \in Events |-> [event |-> e, level |-> events[e].nestedLevel, elapsed |-> Elapsed(e)]]

(* The event that StopTimer ends is that of the innermost open scope, or   *)
(* the root's if none is open.                                             *)
LEMMA TopEvent ==
  ASSUME Inv, Control, enable, phase = "open"
  PROVE  LET top == timerStack[Len(timerStack)]
         IN  /\ timerStack # <<>> /\ top \in Events /\ Len(timerStack) = Depths[pc] + 1
             /\ \A e \in Events : e = top <=> events[e].nestedLevel = Depths[pc] /\ events[e].endTime = 0
<1> DEFINE d   == Depths[pc]
           top == timerStack[Len(timerStack)]
<1>1. d \in 0 .. 3 /\ Cardinality(live \ {Root}) = d
  BY OpenScopes DEF Depth
<1>2. IsFiniteSet(live) /\ Root \in live /\ Len(timerStack) = Cardinality(live)
  BY DEF Inv, Matched
<1>3. Len(timerStack) = d + 1
  <2>1. Cardinality(live \ {Root}) = Cardinality(live) - 1
    BY <1>2, FS_RemoveElement
  <2>2. Cardinality(live) \in Nat
    BY <1>2, FS_CardinalityType
  <2> HIDE DEF d
  <2> QED
    BY <1>1, <1>2, <2>1, <2>2
<1> HIDE DEF d
<1>4. d + 1 \in 1 .. Len(timerStack)
  BY <1>1, <1>3
<1>5. timerStack # <<>> /\ top \in Events
  BY <1>2, <1>4, StackNotEmpty, EventTypes, <1>3 DEF Inv
<1>6. /\ \A k \in 1 .. Len(timerStack) :
           events[timerStack[k]].endTime = 0 /\ events[timerStack[k]].nestedLevel = k - 1
      /\ \A e \in Events : events[e].endTime = 0 => \E k \in 1 .. Len(timerStack) : timerStack[k] = e
  BY DEF Inv, Matched, Open
<1>7. events[top].endTime = 0 /\ events[top].nestedLevel = d
  <2>1. (d + 1) - 1 = d
    BY <1>1
  <2> QED
    BY <1>3, <1>4, <1>6, <2>1
<1>8. ASSUME NEW e \in Events, events[e].nestedLevel = d, events[e].endTime = 0
      PROVE  e = top
  <2>1. PICK k \in 1 .. Len(timerStack) : timerStack[k] = e
    BY <1>6, <1>8
  <2>2. k - 1 = d
    BY <1>6, <1>8, <2>1
  <2>3. k = d + 1
    BY <1>1, <2>2
  <2> QED
    BY <1>3, <2>1, <2>3
<1> QED
  BY <1>3, <1>5, <1>7, <1>8 DEF d

LEMMA ScopeTypes ==
  ASSUME Inv, Control
  PROVE  /\ Len(scopes) \in Nat /\ DOMAIN scopes = 1 .. Len(scopes)
         /\ \A k \in 1 .. Len(scopes) : scopes[k] \in Scope
         /\ clock \in 1 .. MaxTime /\ clock # 0
         /\ enable => Len(events) \in Nat /\ \A e \in Events : events[e] \in TimerEvent
<1>1. scopes \in Seq(Scope) /\ Typing
  BY DEF Control, Inv
<1> QED
  BY <1>1, LenProperties, ElementOfSeq, EventTypes

LEMMA RecordedEnter ==
  ASSUME Inv, Control, Recorded, NEW name \in ScopeNames, Enter(name), status = "running", UNCHANGED status
  PROVE  Recorded'
<1> DEFINE len == Len(scopes)
           d   == Depths[pc]
<1>1. Typing /\ clock \in 1 .. MaxTime /\ len \in Nat
  BY ScopeTypes DEF Inv
<1>2. /\ phase = "open" /\ phase' = "open" /\ d + 1 \in 1 .. 3
      /\ Len(scopes') = len + 1
      /\ \A k \in 1 .. len : scopes'[k] = scopes[k]
      /\ scopes'[len + 1] = [name |-> name, depth |-> d + 1, start |-> clock, end |-> 0]
  BY <1>1, EnterEffects
<1>3. NewTimer(d + 1, name) /\ d + 1 \in Timers /\ name \in Names /\ UNCHANGED enable
  BY <1>2, OpenScopes, Names1 DEF Enter, NewTimer
<1> SUFFICES ASSUME enable
             PROVE  /\ Len(events') = Len(scopes') + 1
                    /\ events'[1].nestedLevel = 0 /\ events'[1].endTime = 0
                    /\ \A k \in 1 .. Len(scopes') :
                         /\ events'[k + 1].name = scopes'[k].name
                         /\ events'[k + 1].nestedLevel = scopes'[k].depth
                         /\ events'[k + 1].startTime = scopes'[k].start
                         /\ events'[k + 1].endTime = scopes'[k].end
  BY <1>2, <1>3 DEF Recorded
<1>4. StartTimer(d + 1, name)
  BY <1>3 DEF NewTimer
<1>5. /\ Len(events') = Len(events) + 1
      /\ \A e \in Events : events'[e] = events[e]
      /\ events'[Len(events) + 1] = NewEvent(d + 1, name, Len(timerStack))
  BY <1>1, <1>3, <1>4, StartEffects
<1>6. Len(timerStack) = d + 1
  BY <1>2, TopEvent
<1> DEFINE new == NewEvent(d + 1, name, d + 1)
<1>7. new.name = name /\ new.nestedLevel = d + 1 /\ new.startTime = clock /\ new.endTime = 0
  BY DEF NewEvent
<1> HIDE DEF new, d
<1>8. /\ Len(events) = len + 1 /\ events[1].nestedLevel = 0 /\ events[1].endTime = 0
      /\ \A k \in 1 .. len :
           /\ events[k + 1].name = scopes[k].name
           /\ events[k + 1].nestedLevel = scopes[k].depth
           /\ events[k + 1].startTime = scopes[k].start
           /\ events[k + 1].endTime = scopes[k].end
  BY <1>2 DEF Recorded
<1> HIDE DEF len
<1>9. /\ 1 \in Events /\ \A k \in 1 .. len : k + 1 \in Events
      /\ \A k \in 1 .. len + 1 : k \in 1 .. len \/ k = len + 1
  BY <1>1, <1>8 DEF Events
<1>10. events'[(len + 1) + 1] = new
  BY <1>5, <1>6, <1>8 DEF new
<1>11. ASSUME NEW k \in 1 .. len + 1
       PROVE  /\ events'[k + 1].name = scopes'[k].name
              /\ events'[k + 1].nestedLevel = scopes'[k].depth
              /\ events'[k + 1].startTime = scopes'[k].start
              /\ events'[k + 1].endTime = scopes'[k].end
  <2>1. CASE k \in 1 .. len
    BY <1>2, <1>5, <1>8, <1>9, <2>1
  <2>2. CASE k = len + 1
    BY <1>2, <1>7, <1>10, <2>2
  <2> QED
    BY <1>9, <2>1, <2>2
<1>12. events'[1] = events[1] /\ Len(events') = (len + 1) + 1
  BY <1>5, <1>8, <1>9
<1> QED
  BY <1>2, <1>8, <1>11, <1>12 DEF len

(* While the stack is open, the top event among those of the scopes.       *)
LEMMA TopScope ==
  ASSUME Inv, Control, Recorded, enable, phase = "open"
  PROVE  LET top == timerStack[Len(timerStack)]
         IN  /\ 1 = top <=> Depths[pc] = 0
             /\ \A k \in 1 .. Len(scopes) : k + 1 \in Events /\ (k + 1 = top <=> Innermost(k))
             /\ 1 \in Events /\ Len(events) = Len(scopes) + 1
<1> DEFINE top == timerStack[Len(timerStack)]
<1>1. \A e \in Events : e = top <=> events[e].nestedLevel = Depths[pc] /\ events[e].endTime = 0
  BY TopEvent
<1>2. /\ Len(events) = Len(scopes) + 1 /\ events[1].nestedLevel = 0 /\ events[1].endTime = 0
      /\ \A k \in 1 .. Len(scopes) :
           events[k + 1].nestedLevel = scopes[k].depth /\ events[k + 1].endTime = scopes[k].end
  BY DEF Recorded
<1>3. Len(scopes) \in Nat
  BY ScopeTypes
<1>4. 1 \in Events /\ \A k \in 1 .. Len(scopes) : k + 1 \in Events
  BY <1>2, <1>3 DEF Events
<1> HIDE DEF top
<1>5. 1 = top <=> Depths[pc] = 0
  BY <1>1, <1>2, <1>4
<1>6. \A k \in 1 .. Len(scopes) : k + 1 = top <=> Innermost(k)
  BY <1>1, <1>2, <1>4 DEF Innermost
<1> QED
  BY <1>2, <1>4, <1>5, <1>6 DEF top

(* Ending the top event, as it looks from the scopes.                      *)
LEMMA StopRecorded ==
  ASSUME Inv, Control, Recorded, enable, phase = "open", NEW t \in AllTimers, StopTimer(t)
  PROVE  /\ Len(events') = Len(scopes) + 1
         /\ events'[1].nestedLevel = 0
         /\ events'[1].endTime = IF Depths[pc] = 0 THEN clock ELSE 0
         /\ \A k \in 1 .. Len(scopes) :
              /\ events'[k + 1].name = scopes[k].name
              /\ events'[k + 1].nestedLevel = scopes[k].depth
              /\ events'[k + 1].startTime = scopes[k].start
              /\ events'[k + 1].endTime = IF Innermost(k) THEN clock ELSE scopes[k].end
<1> DEFINE top == timerStack[Len(timerStack)]
<1>1. Typing /\ timerStack # <<>>
  BY TopEvent DEF Inv
<1>2. /\ top \in Events /\ Len(events') = Len(events)
      /\ \A e \in Events \ {top} : events'[e] = events[e]
      /\ events'[top] = [events[top] EXCEPT !.endTime = clock, !.endedBy = t]
  BY <1>1, StopEffects
<1>3. events[top] \in TimerEvent
  BY <1>1, <1>2, EventTypes
<1>4. /\ events'[top].name = events[top].name /\ events'[top].nestedLevel = events[top].nestedLevel
      /\ events'[top].startTime = events[top].startTime /\ events'[top].endTime = clock
  BY <1>2, <1>3 DEF TimerEvent
<1>5. /\ 1 = top <=> Depths[pc] = 0
      /\ \A k \in 1 .. Len(scopes) : k + 1 \in Events /\ (k + 1 = top <=> Innermost(k))
      /\ 1 \in Events /\ Len(events) = Len(scopes) + 1
  BY TopScope
<1> HIDE DEF top
<1>6. /\ events[1].nestedLevel = 0 /\ events[1].endTime = 0
      /\ \A k \in 1 .. Len(scopes) :
           /\ events[k + 1].name = scopes[k].name
           /\ events[k + 1].nestedLevel = scopes[k].depth
           /\ events[k + 1].startTime = scopes[k].start
           /\ events[k + 1].endTime = scopes[k].end
  BY DEF Recorded
<1>7. events'[1].nestedLevel = 0 /\ events'[1].endTime = IF Depths[pc] = 0 THEN clock ELSE 0
  <2>1. CASE 1 = top
    BY <1>4, <1>5, <1>6, <2>1
  <2>2. CASE 1 # top
    BY <1>2, <1>5, <1>6, <2>2
  <2> QED
    BY <2>1, <2>2
<1>8. ASSUME NEW k \in 1 .. Len(scopes)
      PROVE  /\ events'[k + 1].name = scopes[k].name
             /\ events'[k + 1].nestedLevel = scopes[k].depth
             /\ events'[k + 1].startTime = scopes[k].start
             /\ events'[k + 1].endTime = IF Innermost(k) THEN clock ELSE scopes[k].end
  <2> DEFINE j == k + 1
  <2>1. /\ j \in Events /\ (j = top <=> Innermost(k))
        /\ events[j].name = scopes[k].name /\ events[j].nestedLevel = scopes[k].depth
        /\ events[j].startTime = scopes[k].start /\ events[j].endTime = scopes[k].end
    BY <1>5, <1>6
  <2> HIDE DEF j
  <2>2. CASE j = top
    BY <1>4, <2>1, <2>2 DEF j
  <2>3. CASE j # top
    BY <1>2, <2>1, <2>3 DEF j
  <2> QED
    BY <2>2, <2>3
<1> QED
  BY <1>2, <1>5, <1>7, <1>8

LEMMA RecordedLeave ==
  ASSUME Inv, Control, Recorded, Leave, status = "running", status' \in {"running", "returned"}
  PROVE  Recorded'
<1> DEFINE d == Depths[pc]
<1>1. clock \in 1 .. MaxTime
  BY ScopeTypes
<1>2. /\ phase = "open" /\ phase' = "open" /\ d \in 1 .. 3
      /\ Len(scopes') = Len(scopes)
      /\ \A k \in 1 .. Len(scopes) :
           scopes'[k] = IF Innermost(k) THEN [scopes[k] EXCEPT !.end = clock] ELSE scopes[k]
  BY <1>1, LeaveEffects DEF Innermost
<1>3. DeleteTimer(d) /\ d \in AllTimers /\ UNCHANGED enable
  BY <1>2, OpenScopes, Names1 DEF Leave, DeleteTimer, AllTimers
<1> SUFFICES ASSUME enable
             PROVE  /\ Len(events') = Len(scopes') + 1
                    /\ events'[1].nestedLevel = 0 /\ events'[1].endTime = 0
                    /\ \A k \in 1 .. Len(scopes') :
                         /\ events'[k + 1].name = scopes'[k].name
                         /\ events'[k + 1].nestedLevel = scopes'[k].depth
                         /\ events'[k + 1].startTime = scopes'[k].start
                         /\ events'[k + 1].endTime = scopes'[k].end
  BY <1>2, <1>3 DEF Recorded
<1>4. StopTimer(d)
  BY <1>3 DEF DeleteTimer
<1>5. /\ Len(events') = Len(scopes) + 1
      /\ events'[1].nestedLevel = 0 /\ events'[1].endTime = 0
      /\ \A k \in 1 .. Len(scopes) :
           /\ events'[k + 1].name = scopes[k].name
           /\ events'[k + 1].nestedLevel = scopes[k].depth
           /\ events'[k + 1].startTime = scopes[k].start
           /\ events'[k + 1].endTime = IF Innermost(k) THEN clock ELSE scopes[k].end
  <2>1. d # 0
    BY <1>2
  <2> QED
    BY <1>2, <1>3, <1>4, <2>1, StopRecorded
<1>6. ASSUME NEW k \in 1 .. Len(scopes)
      PROVE  /\ scopes'[k].name = scopes[k].name /\ scopes'[k].depth = scopes[k].depth
             /\ scopes'[k].start = scopes[k].start
             /\ scopes'[k].end = IF Innermost(k) THEN clock ELSE scopes[k].end
  <2>1. scopes[k] \in Scope
    BY ScopeTypes
  <2> DEFINE left == [scopes[k] EXCEPT !.end = clock]
  <2>2. left.name = scopes[k].name /\ left.depth = scopes[k].depth /\ left.start = scopes[k].start /\ left.end = clock
    BY <2>1 DEF Scope
  <2> HIDE DEF left
  <2>3. scopes'[k] = IF Innermost(k) THEN left ELSE scopes[k]
    BY <1>2 DEF left
  <2> QED
    BY <2>2, <2>3
<1> QED
  BY <1>2, <1>5, <1>6

LEMMA RecordedRoot ==
  ASSUME Inv, Control, Recorded, DeleteRoot, UNCHANGED <<pc, status, scopes>>
  PROVE  Recorded'
<1>1. phase = "open" /\ phase' # "open" /\ UNCHANGED enable /\ clock # 0 /\ Len(scopes) \in Nat
  BY ScopeTypes DEF DeleteRoot
<1> SUFFICES ASSUME enable
             PROVE  /\ Len(events') = Len(scopes) + 1
                    /\ events'[1].nestedLevel = 0
                    /\ events'[1].endTime # 0 <=> Depths[pc] = 0
                    /\ \A k \in 1 .. Len(scopes) :
                         /\ events'[k + 1].name = scopes[k].name
                         /\ events'[k + 1].nestedLevel = scopes[k].depth
                         /\ events'[k + 1].startTime = scopes[k].start
                         /\ events'[k + 1].endTime # scopes[k].end <=> Innermost(k)
  BY <1>1 DEF Recorded, Innermost
<1>2. StopTimer(Root) /\ Root \in AllTimers
  BY DEF DeleteRoot, AllTimers
<1>3. /\ Len(events') = Len(scopes) + 1
      /\ events'[1].nestedLevel = 0 /\ events'[1].endTime = IF Depths[pc] = 0 THEN clock ELSE 0
      /\ \A k \in 1 .. Len(scopes) :
           /\ events'[k + 1].name = scopes[k].name
           /\ events'[k + 1].nestedLevel = scopes[k].depth
           /\ events'[k + 1].startTime = scopes[k].start
           /\ events'[k + 1].endTime = IF Innermost(k) THEN clock ELSE scopes[k].end
  BY <1>1, <1>2, StopRecorded
<1>4. \A k \in 1 .. Len(scopes) : events'[k + 1].endTime # scopes[k].end <=> Innermost(k)
  BY <1>1, <1>3 DEF Innermost
<1> QED
  BY <1>1, <1>3, <1>4

LEMMA InitRecorded == AllInit => Recorded /\ Logged
<1> SUFFICES ASSUME AllInit PROVE Recorded /\ Logged
  OBVIOUS
<1>1. /\ Init /\ phase = "open" /\ scopes = <<>> /\ status = "running" /\ pc = "start" /\ dumped = <<>>
      /\ timeline = <<>> /\ log = NoLog
  BY DEF AllInit, Init
<1>2. Logged
  BY <1>1 DEF Logged
<1>3. enable => events = <<NewEvent(Root, "TimerStack", 0)>>
  BY <1>1 DEF Init
<1>4. enable => Len(events) = 1 /\ events[1].nestedLevel = 0 /\ events[1].endTime = 0
  BY <1>3 DEF NewEvent
<1>5. Len(scopes) = 0
  BY <1>1
<1>6. Recorded
  BY <1>1, <1>4, <1>5 DEF Recorded
<1> QED
  BY <1>2, <1>6

LEMMA StepRecorded == Inv /\ Control /\ Recorded /\ [AllNext]_allVars => Recorded'
<1> SUFFICES ASSUME Inv, Control, Recorded, [AllNext]_allVars PROVE Recorded'
  OBVIOUS
<1>1. ASSUME UNCHANGED <<enable, events, scopes>>,
             (phase = "open" /\ phase' = "open") \/ (phase # "open" /\ phase' # "open" /\ UNCHANGED pc),
             (status' = status /\ UNCHANGED pc) \/ (status' = "exit" => pc' \in {"arg", "leave"})
      PROVE  Recorded'
  BY <1>1 DEF Recorded, Innermost
<1>2. status = "running" => phase = "open"
  BY DEF Control
<1>3. CASE EnterMain \/ Call \/ CallMode
  <2>1. status = "running" /\ UNCHANGED status /\ \E name \in ScopeNames : Enter(name)
    <3>1. CASE EnterMain
      <4>1. Enter("main") /\ "main" \in ScopeNames
        BY <3>1 DEF EnterMain, ScopeNames
      <4> QED
        BY <3>1, <4>1 DEF EnterMain, Goto
    <3>2. CASE Call
      <4>1. Calls[call] \in ScopeNames
        BY <3>2, CallNames, CallCount DEF Call
      <4> QED
        BY <3>2, <4>1 DEF Call, Goto
    <3>3. CASE CallMode
      <4>1. ModeFunction[arg.mode] \in ScopeNames
        BY DEF Control, Arg, AllModes, ScopeNames
      <4> QED
        BY <3>3, <4>1 DEF CallMode, Goto
    <3> QED
      BY <1>3, <3>1, <3>2, <3>3
  <2> QED
    BY <2>1, RecordedEnter
<1>4. CASE RunMode \/ ReturnToMain \/ Return
  <2>1. Leave /\ status = "running" /\ status' \in {"running", "returned"}
    BY <1>4 DEF RunMode, ReturnToMain, Return, Goto
  <2> QED
    BY <2>1, RecordedLeave
<1>5. CASE ParseArg \/ SetLogPrefix \/ HostOnly \/ Construct \/ ZeroArray \/ Verify \/ Throw
  <2>1. UNCHANGED <<enable, events, scopes, phase>> /\ status = "running"
    BY <1>5 DEF ParseArg, SetLogPrefix, HostOnly, Construct, ZeroArray, Verify, Throw, Goto, timerVars
  <2>2. status' = "exit" => pc' \in {"arg", "leave"}
    BY <1>5 DEF ParseArg, SetLogPrefix, HostOnly, Construct, ZeroArray, Verify, Throw, Goto
  <2> QED
    BY <1>1, <1>2, <2>1, <2>2
<1>6. CASE DeleteRoot /\ UNCHANGED <<program, progress>>
  BY <1>6, RecordedRoot DEF progress
<1>7. CASE \/ (DumpTimeline \/ DumpLog \/ DeleteEvents) /\ UNCHANGED <<program, progress>>
           \/ Time
           \/ UNCHANGED allVars
  <2>1. UNCHANGED <<enable, events, scopes, pc, status>>
    BY <1>7 DEF DumpTimeline, DumpLog, DeleteEvents, Time, Tick, SetBack, allVars, timerVars, progress
  <2>2. (phase = "open" /\ phase' = "open") \/ (phase # "open" /\ phase' # "open")
    BY <1>7 DEF DumpTimeline, DumpLog, DeleteEvents, Time, Tick, SetBack, allVars, timerVars
  <2> QED
    BY <1>1, <2>1, <2>2
<1> QED
  BY <1>3, <1>4, <1>5, <1>6, <1>7 DEF AllNext, Main, Destroy

LEMMA StepLogged == Inv /\ Control /\ DumpedOnce /\ Logged /\ [AllNext]_allVars => Logged'
<1> SUFFICES ASSUME Inv, Control, DumpedOnce, Logged, [AllNext]_allVars PROVE Logged'
  OBVIOUS
<1>1. status = "running" => phase = "open"
  BY DEF Control
<1>2. CASE phase = "open" /\ phase' = "open" /\ UNCHANGED <<timeline, log, dumped>>
  BY <1>2 DEF Logged
<1>3. CASE Main
  <2>1. status = "running"
    BY <1>3 DEF Main, EnterMain, ParseArg, SetLogPrefix, Call, HostOnly, Construct, ZeroArray, CallMode, RunMode,
                Verify, ReturnToMain, Return, Throw, Goto
  <2>2. UNCHANGED <<phase, timeline, log, dumped>>
    BY <1>3 DEF Main, EnterMain, ParseArg, SetLogPrefix, Call, HostOnly, Construct, ZeroArray, CallMode, RunMode,
                Verify, ReturnToMain, Return, Throw, Enter, Leave, NewTimer, DeleteTimer, files, history, timerVars
  <2> QED
    BY <1>1, <1>2, <2>1, <2>2
<1>4. CASE DeleteRoot
  BY <1>4 DEF DeleteRoot, files, history, Logged
<1>5. CASE DumpTimeline
  BY <1>5 DEF DumpTimeline, history, Logged
<1>6. CASE DumpLog
  <2>1. /\ phase = "log" /\ phase' = "free" /\ log' = LogOf(startQueue) /\ UNCHANGED events
    BY <1>6 DEF DumpLog, WriteLog
  <2>2. startQueue = [k \in Events |-> k]
    <3>1. dumped = <<>> /\ startQueue \in Seq(Events)
      BY <2>1 DEF Logged, Inv, Typing, TypeOK
    <3>2. dumped \o startQueue = startQueue
      BY <3>1, ConcatEmptySeq
    <3> QED
      BY <3>2 DEF DumpedOnce
  <2>3. log'.rows = [k \in DOMAIN startQueue |->
                      [event |-> startQueue[k], level |-> events[startQueue[k]].nestedLevel,
                       elapsed |-> Elapsed(startQueue[k])]]
    BY <2>1 DEF LogOf
  <2>4. log'.rows = [e \in Events |-> [event |-> e, level |-> events[e].nestedLevel, elapsed |-> Elapsed(e)]]
    BY <2>2, <2>3
  <2>5. Events' = Events
    BY <2>1 DEF Events
  <2> QED
    BY <2>1, <2>4, <2>5 DEF Logged, Elapsed
<1>7. CASE DeleteEvents \/ Time \/ UNCHANGED allVars
  <2>1. /\ UNCHANGED <<enable, events, timeline, log, dumped>>
        /\ UNCHANGED phase \/ (phase = "free" /\ phase' = "destroyed")
    BY <1>7 DEF DeleteEvents, Time, Tick, SetBack, allVars, timerVars, files, history
  <2>2. Events' = Events
    BY <2>1 DEF Events
  <2> QED
    BY <2>1, <2>2 DEF Logged, Elapsed
<1> QED
  BY <1>3, <1>4, <1>5, <1>6, <1>7 DEF AllNext, Destroy

(* What the log says of the scopes is so, however the program ended: a row *)
(* for each, with its time if it was left; after an exit the innermost     *)
(* open scope ends with the program, and those around it have no end.  A   *)
(* time is negative for these alone, unless the clock was set back.        *)
THEOREM ReportedTimesHolds == AllSpec => []ReportedTimes
<1>1. ASSUME Inv, Control, Nested, Recorded, Logged PROVE ReportedTimes
  <2>1. status = "aborted" => timeline = <<>> /\ log = NoLog
    BY <1>1 DEF Control, Logged
  <2> SUFFICES ASSUME enable, phase = "destroyed"
               PROVE  /\ Len(log.rows) = Len(scopes) + 1
                      /\ Open(log.rows[1].event) <=> status # "returned"
                      /\ \A k \in DOMAIN log.rows :
                           ~setBack => (log.rows[k].elapsed < 0 <=> Open(log.rows[k].event))
                      /\ \A k \in DOMAIN scopes :
                           /\ events[log.rows[k + 1].event].name = scopes[k].name
                           /\ log.rows[k + 1].level = scopes[k].depth
                           /\ scopes[k].end > 0 =>
                                log.rows[k + 1].elapsed = scopes[k].end - scopes[k].start
                           /\ scopes[k].end = 0 =>
                                IF scopes[k].depth = Depth
                                THEN ~Open(log.rows[k + 1].event)
                                ELSE log.rows[k + 1].elapsed = -scopes[k].start
    BY <2>1 DEF ReportedTimes
  <2>2. /\ Len(events) \in Nat /\ Len(scopes) \in Nat /\ DOMAIN scopes = 1 .. Len(scopes)
        /\ \A k \in 1 .. Len(scopes) : scopes[k] \in Scope
        /\ \A e \in Events : events[e] \in TimerEvent
        /\ Depth = Depths[pc]
    BY <1>1, ScopeTypes, OpenScopes
  <2>3. \A e \in Events : /\ events[e].startTime \in Nat \ {0} /\ events[e].endTime \in Nat
                          /\ ~setBack /\ events[e].endTime # 0 => events[e].startTime <= events[e].endTime
    <3>1. MaxTime \in Nat
      BY StackAssumption
    <3>2. \A e \in Events : events[e].startTime \in Nat \ {0} /\ events[e].endTime \in Nat
      BY <2>2, <3>1 DEF TimerEvent
    <3> QED
      BY <1>1, <3>1, <3>2 DEF Nested, Timely, Open
  <2>4. /\ Len(events) = Len(scopes) + 1
        /\ events[1].endTime # 0 <=> Depths[pc] = 0
        /\ \A k \in 1 .. Len(scopes) :
             /\ events[k + 1].name = scopes[k].name
             /\ events[k + 1].nestedLevel = scopes[k].depth
             /\ events[k + 1].startTime = scopes[k].start
             /\ events[k + 1].endTime # scopes[k].end <=> Innermost(k)
    BY <1>1 DEF Recorded
  <2>5. 1 \in Events /\ \A k \in 1 .. Len(scopes) : k + 1 \in Events
    BY <2>2, <2>4 DEF Events
  <2> DEFINE Row(e) == [event |-> e, level |-> events[e].nestedLevel, elapsed |-> Elapsed(e)]
  <2>6. log.rows = [e \in 1 .. Len(scopes) + 1 |-> Row(e)]
    BY <1>1, <2>4 DEF Logged, Events
  <2>7. Len(log.rows) = Len(scopes) + 1
    BY <2>2, <2>6
  <2>8. \A e \in 1 .. Len(scopes) + 1 : log.rows[e].event = e /\ log.rows[e].elapsed = Elapsed(e)
    BY <2>6
  <2>9. Open(log.rows[1].event) <=> status # "returned"
    <3>1. Depths[pc] = 0 <=> status = "returned"
      BY <1>1 DEF Control, Recorded, Depths
    <3>2. log.rows[1].event = 1
      BY <2>4, <2>5, <2>8 DEF Events
    <3> QED
      BY <2>4, <3>1, <3>2 DEF Open
  <2>10. ASSUME NEW e \in DOMAIN log.rows, ~setBack
         PROVE  log.rows[e].elapsed < 0 <=> Open(log.rows[e].event)
    <3>1. e \in 1 .. Len(scopes) + 1 /\ e \in Events
      BY <2>4, <2>6 DEF Events
    <3>2. log.rows[e].event = e /\ log.rows[e].elapsed = events[e].endTime - events[e].startTime
      BY <2>8, <3>1 DEF Elapsed
    <3>3. /\ events[e].startTime \in Nat \ {0} /\ events[e].endTime \in Nat
          /\ events[e].endTime # 0 => events[e].startTime <= events[e].endTime
      BY <2>3, <2>10, <3>1
    <3> QED
      BY <3>2, <3>3 DEF Open
  <2>11. ASSUME NEW k \in 1 .. Len(scopes)
         PROVE  /\ events[log.rows[k + 1].event].name = scopes[k].name
                /\ log.rows[k + 1].level = scopes[k].depth
                /\ scopes[k].end > 0 => log.rows[k + 1].elapsed = scopes[k].end - scopes[k].start
                /\ scopes[k].end = 0 =>
                     IF scopes[k].depth = Depth
                     THEN ~Open(log.rows[k + 1].event)
                     ELSE log.rows[k + 1].elapsed = -scopes[k].start
    <3> DEFINE j == k + 1
    <3>1. j \in Events /\ j \in 1 .. Len(scopes) + 1
      BY <2>4, <2>5 DEF Events
    <3>2. /\ events[j].name = scopes[k].name /\ events[j].nestedLevel = scopes[k].depth
          /\ events[j].startTime = scopes[k].start
          /\ events[j].endTime # scopes[k].end <=> scopes[k].end = 0 /\ scopes[k].depth = Depth
      BY <2>2, <2>4 DEF Innermost
    <3> HIDE DEF j
    <3>3. log.rows[j] = Row(j)
      BY <2>6, <3>1
    <3>4. log.rows[j].event = j /\ log.rows[j].level = events[j].nestedLevel
          /\ log.rows[j].elapsed = events[j].endTime - events[j].startTime
      BY <3>3 DEF Elapsed
    <3>5. /\ scopes[k].start \in Nat \ {0} /\ events[j].endTime \in Nat /\ scopes[k].end \in Nat
      <4>1. scopes[k].end \in Nat
        BY <2>2, StackAssumption DEF Scope
      <4> QED
        BY <2>3, <3>1, <3>2, <4>1
    <3>6. scopes[k].end > 0 => log.rows[j].elapsed = scopes[k].end - scopes[k].start
      BY <3>2, <3>4, <3>5
    <3>7. scopes[k].end = 0 =>
            IF scopes[k].depth = Depth THEN ~Open(log.rows[j].event) ELSE log.rows[j].elapsed = -scopes[k].start
      BY <3>2, <3>4, <3>5 DEF Open
    <3> QED
      BY <3>2, <3>4, <3>6, <3>7 DEF j
  <2> QED
    BY <2>2, <2>7, <2>9, <2>10, <2>11
<1> QED
  BY <1>1, InitControl, StepControl, InitRecorded, StepRecorded, StepLogged, UsesTimers, NestedHolds, DumpedOnceHolds,
     PTL DEF AllSpec, allVars
=============================================================================
