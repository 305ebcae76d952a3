--------------------------- MODULE AcceleratorViews ---------------------------
(***************************************************************************)
(* How a device runs what a host gives it, and what that host may look at   *)
(* meanwhile: one machine for all of HostPrograms.                         *)
(*                                                                         *)
(* A command runs beside the host and beside every other command that      *)
(* nothing orders it after; its work-items run in any order, one statement *)
(* at a time, and meet at the barriers.  No two commands of a program write *)
(* the same array at a time, and no two work-items touch the same element  *)
(* (NoConflictingOverlap, NoItemRace), so a statement need not be split    *)
(* into its reads and its write.                                           *)
(***************************************************************************)
EXTENDS HostPrograms, SequencesExt

VARIABLES
  name,         \* of the program that runs
  program,      \* its commands
  synchronous,  \* do commands on the default view return when they are done?
  next,         \* the command the host comes to
  items,        \* how many statements each work-item of each command has executed
  taken,        \* what each command has captured
  mem,          \* the arrays
  errors        \* mismatches the host has found

given == <<name, program, synchronous>>
vars  == <<given, next, items, taken, mem, errors>>

Commands == DOMAIN program
IsDevice(k) == program[k].op \in {"enqueue", "synchronize"}
HasBody(k)  == IsDevice(k) \/ program[k].op \in {"host", "verify"}

Statements(k) == IF HasBody(k) THEN Range(program[k].body) ELSE {}
Grid(k)       == IF IsDevice(k) THEN UNION {DOMAIN s.at : s \in Statements(k)} ELSE {}

(* What the device or the host executes. *)
Body(k) == IF IsDevice(k) \/ program[k].op = "host" THEN program[k].body ELSE <<>>

Reads(k)  == UNION {{r.array : r \in s.from} \cup ({r.pointer : r \in s.from} \ {"none"}) :
                      s \in Statements(k)}
Writes(k) == {s.to : s \in Statements(k)}

Arrays ==
  UNION {Reads(k) \cup Writes(k) \cup IF IsDevice(k) THEN program[k].captures ELSE {} :
           k \in Commands}

Elements == 0 .. (IF name \in DOMAIN Sizes THEN Sizes[name] ELSE num) - 1
Memory   == [v \in Arrays |-> [e \in Elements |-> Start(v, e)]]

(* Whether parallel_for_each blocks the host is the runtime's affair. *)
Init ==
  /\ name \in DOMAIN Programs
  /\ program = Programs[name]
  /\ synchronous \in BOOLEAN
  /\ next = 1
  /\ items = [k \in Commands |-> [x \in Grid(k) |-> 0]]
  /\ taken = [k \in Commands |-> 0]
  /\ mem = Memory
  /\ errors = 0

Element(m, r, x) == IF r.pointer = "none" THEN r.at[x] ELSE m[r.pointer][r.at[x]]
ReadBy(s, x)     == {r \in s.from : x \in DOMAIN r.at}

Operands(m, s, x) == [r \in ReadBy(s, x) |-> r.times * m[r.array][Element(m, r, x)]]

Value(m, s, x, captured) ==
  LET v == s.add[x] + captured + SumFunction(Operands(m, s, x))
  IN  IF s.modulus = 0 THEN v ELSE v % s.modulus

(* One work-item executes a statement. *)
Execute(m, s, x, captured) ==
  IF x \in DOMAIN s.at THEN [m EXCEPT ![s.to][s.at[x]] = Value(m, s, x, captured)] ELSE m

(* All work-items execute the statements, one after the other: each changes *)
(* an element of its own, or they add to a common one.                     *)
Writers(s, e) == {x \in DOMAIN s.at : s.at[x] = e}

Changed(m, s, e, captured) ==
  LET before == m[s.to][e]
  IN  IF s.atomic
      THEN before + SumFunction([x \in Writers(s, e) |-> Value(m, s, x, captured) - before])
      ELSE IF Writers(s, e) = {} THEN before
           ELSE Value(m, s, CHOOSE x \in Writers(s, e) : TRUE, captured)

ExecuteStatement(m, s, captured) ==
  [m EXCEPT ![s.to] = [e \in DOMAIN m[s.to] |-> Changed(m, s, e, captured)]]

(* Memory after n statements. *)
Executed(m, body, captured) ==
  LET after[n \in Nat] ==
        IF n = 0 THEN m
        ELSE LET before == after[n - 1] IN ExecuteStatement(before, body[n], captured)
  IN  after

ExecuteAll(m, body, captured) == Executed(m, body, captured)[Len(body)]
------------------------------------------------------------------------------
Enqueued == {k \in Commands : k < next /\ IsDevice(k)}

Finished(k) == \A x \in Grid(k) : items[k][x] = Len(program[k].body)

InOrder == {"av", "av1", "av2", "default", "hc", "queue"}

(* Mutants of Before: an in-order view starts commands as they come; a     *)
(* barrier does not wait for the futures it is given.                      *)
MutantNoOrder(j, k)   == j \in program[k].after
MutantNoBarrier(j, k) == program[j].view = program[k].view /\ program[k].view \in InOrder

(* A command that the command k starts after. *)
Before(j, k) ==
  \/ j \in program[k].after
  \/ program[j].view = program[k].view /\ program[k].view \in InOrder
  \/ program[k].op = "synchronize" /\ Writes(j) \cap Reads(k) # {}

(* Mutant of MayStart: commands of a view wait for each other.             *)
MutantMayStart(k) == \A j \in Enqueued : j # k /\ Before(j, k) => Finished(j)

MayStart(k) == \A j \in Enqueued : j < k /\ Before(j, k) => Finished(j)
Running(k)  == MayStart(k) /\ ~Finished(k)

(* What x executes next, once every work-item has come to the barrier      *)
(* before it, if there is one.                                             *)
Upcoming(k, x) == program[k].body[items[k][x] + 1]

MayExecute(k, x) ==
  /\ Running(k)
  /\ items[k][x] < Len(program[k].body)
  /\ Upcoming(k, x).synced => \A y \in Grid(k) : items[k][y] >= items[k][x]

RunItem(k, x) ==
  /\ MayExecute(k, x)
  /\ items' = [items EXCEPT ![k][x] = @ + 1]
  /\ mem' = Execute(mem, Upcoming(k, x), x, taken[k])
  /\ UNCHANGED <<given, next, taken, errors>>

Device == \E k \in Enqueued : \E x \in Grid(k) : RunItem(k, x)
------------------------------------------------------------------------------
(* The host is in a call that returns when the device is done. *)
Blocked == synchronous /\ \E k \in Enqueued : program[k].view = "default" /\ ~Finished(k)

HostAt(op) == ~Blocked /\ next \in Commands /\ program[next].op = op /\ next' = next + 1

CapturedBy(k) == MapThenSumSet(LAMBDA v : mem[v][num - 1], program[k].captures)

HostEnqueues ==
  /\ HostAt("enqueue") \/ HostAt("synchronize")
  /\ taken' = [taken EXCEPT ![next] = CapturedBy(next)]
  /\ UNCHANGED <<given, items, mem, errors>>

(* Mutant of Awaits: a future is ready as soon as its command may run. *)
MutantAwaits(k) == MayStart(k)

Awaits(k) == Finished(k)

HostWaits ==
  /\ \/ HostAt("wait") /\ \A k \in program[next].after : Awaits(k)
     \/ HostAt("waitView") /\ \A k \in Enqueued : program[k].view = program[next].view => Awaits(k)
  /\ UNCHANGED <<given, items, taken, mem, errors>>

(* A loop of the host is one step: it does not race, see HostDoesNotRace.  *)
HostWrites ==
  /\ HostAt("host")
  /\ mem' = ExecuteAll(mem, program[next].body, 0)
  /\ UNCHANGED <<given, items, taken, errors>>

HostFrees == HostAt("free") /\ UNCHANGED <<given, items, taken, mem, errors>>

(* What does not hold the value that it is compared with. *)
Mismatches(m, k) ==
  {c \in Statements(k) \X UNION {DOMAIN s.at : s \in Statements(k)} :
     LET s == c[1]
         x == c[2]
     IN  x \in DOMAIN s.at /\ m[s.to][s.at[x]] # Value(m, s, x, 0)}

HostVerifies ==
  /\ HostAt("verify")
  /\ errors' = errors + Cardinality(Mismatches(mem, next))
  /\ UNCHANGED <<given, items, taken, mem>>

Host == HostEnqueues \/ HostWaits \/ HostWrites \/ HostFrees \/ HostVerifies

Next == Device \/ Host

(* The device runs what may start, and the host goes on when it can. *)
Spec == Init /\ [][Next]_vars /\ WF_vars(Device) /\ WF_vars(Host)
------------------------------------------------------------------------------
(* Does j write what k touches? *)
Conflict(j, k) == Writes(j) \cap (Reads(k) \cup Writes(k)) # {}

(* Two commands that run at a time do not touch what one of them writes:   *)
(* views in order, barriers and futures leave only independent ones.       *)
NoConflictingOverlap ==
  \A j, k \in Enqueued : j # k /\ Running(j) /\ Running(k) => ~Conflict(j, k)

(* The elements that x writes by a statement, and those it touches.        *)
Written(s, x) == IF x \in DOMAIN s.at THEN {<<s.to, s.at[x]>>} ELSE {}

Touched(m, s, x) ==
  Written(s, x) \cup
  IF x \in DOMAIN s.at THEN {<<r.array, Element(m, r, x)>> : r \in ReadBy(s, x)} ELSE {}

(* Two work-items of a kernel that can both execute their next statement    *)
(* do not touch the same element, unless to read it or atomically: what is  *)
(* exchanged in tile memory is separated by barriers.                      *)
NoItemRace ==
  \A k \in Enqueued : \A x, y \in Grid(k) :
    x # y /\ MayExecute(k, x) /\ MayExecute(k, y) =>
      \/ Written(Upcoming(k, x), x) \cap Touched(mem, Upcoming(k, y), y) = {}
      \/ Upcoming(k, x).atomic /\ Upcoming(k, y).atomic

(* Memory after k commands, one after the other, with what they captured.  *)
InTurn ==
  LET m[k \in Nat] ==
        IF k = 0 THEN Memory
        ELSE LET before == m[k - 1] IN ExecuteAll(before, Body(k), taken[k])
  IN  m

Sequential == InTurn[Len(program)]

AllFinished == next > Len(program) /\ \A k \in Enqueued : Finished(k)

(* The pitfalls say that they race, and return while a kernel uses their    *)
(* local.  The others here have nothing to wait on: raw memory, or a view   *)
(* that their kernel does not touch.                                       *)
Pitfalls    == {"pitfall", "pitfallBarrier"}
RawPointers ==
  {"staticArray", "ampSVM", "forall", "narrowType", "wideType", "boolType", "goto", "recursion",
   "bitfield", "staticMember", "deviceList"}

Ordered == name \notin Pitfalls /\ (name \in RawPointers => synchronous)

(* Does it order the loops of the host, if not all that the host does?      *)
OrdersLoops == Ordered \/ name # "deviceList"

(* Once everything has run, memory is what the commands would have left     *)
(* one after the other, each with the values it captured: for every         *)
(* program, those that race on what they capture included.  Only list.cpp   *)
(* writes on both sides what it does not order.                            *)
SequentialMemory == AllFinished /\ OrdersLoops => mem = Sequential

(* What the host reads at the command n, and what it writes or frees. *)
HostReads(n) ==
  CASE program[n].op = "verify"  -> Reads(n) \cup Writes(n)
    [] program[n].op = "host"    -> Reads(n)
    [] program[n].op = "enqueue" -> program[n].captures
    [] OTHER                     -> {}

HostSets(n) ==
  CASE program[n].op = "host" -> Writes(n)
    [] program[n].op = "free" -> program[n].arrays
    [] OTHER                  -> {}

(* Does the host at the command n race with the command k?                 *)
HostConflict(k, n) ==
  \/ Writes(k) \cap (HostReads(n) \cup HostSets(n)) # {}
  \/ Reads(k) \cap HostSets(n) # {}

(* What the host reads, writes, captures or frees in its next step no       *)
(* command is still to write (or read, if the host writes it); when it      *)
(* returns, every command has run.  Programs on raw pointers have this from *)
(* a runtime whose parallel_for_each is synchronous, and from nothing else. *)
HostDoesNotRace ==
  Ordered /\ ~Blocked =>
    \A k \in Enqueued : ~Finished(k) => next \in Commands /\ ~HostConflict(k, next)
------------------------------------------------------------------------------
(* What the text of a program says of the order of its commands.           *)

Devices == {k \in Commands : IsDevice(k)}

(* What the host has waited for when it comes to n. *)
HostWaited(n) ==
  {j \in Devices :
     /\ j < n
     /\ \/ synchronous /\ program[j].view = "default"
        \/ \E h \in Commands :
             /\ j < h /\ h < n
             /\ \/ program[h].op = "wait" /\ j \in program[h].after
                \/ program[h].op = "waitView" /\ program[h].view = program[j].view}

StartsAfter(k) == {j \in Devices : j < k /\ Before(j, k)}

(* With a command that executes anything, what it starts after is finished; *)
(* so with the commands in B, what they start after, and so on.            *)
Closed(S) ==
  \A k \in S : Grid(k) # {} /\ Len(program[k].body) # 0 => StartsAfter(k) \subseteq S

FinishedWith(B) ==
  LET finished == {S \in SUBSET Devices : B \subseteq S /\ Closed(S)}
  IN  {j \in Devices : \A S \in finished : j \in S}

CommandsOrdered ==
  \A j, k \in Devices :
    j < k /\ (Conflict(j, k) \/ Conflict(k, j)) =>
      j \in FinishedWith(HostWaited(k) \cup StartsAfter(k))

HostOrdered ==
  \A n \in {1} \cup {k + 1 : k \in Commands} : \A k \in Devices :
    k < n => \/ k \in FinishedWith(HostWaited(n))
             \/ n \in Commands /\ ~HostConflict(k, n)

LoopsOrdered ==
  \A n \in Commands : \A k \in Devices :
    program[n].op = "host" /\ k < n => k \in FinishedWith(HostWaited(n)) \/ ~HostConflict(k, n)

(* A kernel reads inside its arrays, or is that of one work-item.          *)
Inside(k) ==
  \/ \A s \in Statements(k) : \A r \in s.from : r.pointer = "none" /\ Range(r.at) \subseteq Elements
  \/ \A x, y \in Grid(k) : x = y

(* No work-items add to one element, in an order of their own. *)
NoAtomics == \A k \in Commands : \A s \in Statements(k) : ~s.atomic

(* Of any two commands, or a command and a step of the host, that conflict, *)
(* the first is finished before the second by what views, futures and waits *)
(* say, however long it takes; what a kernel touches is what it says, and   *)
(* only static_member.cpp adds atomically.                                 *)
(* A program does not change, so that this is asked of it at its beginning. *)
Synchronized ==
  next = 1 => /\ CommandsOrdered
              /\ Ordered => HostOrdered
              /\ OrdersLoops => LoopsOrdered
              /\ \A k \in Devices : Inside(k)
              /\ name # "staticMember" => NoAtomics
------------------------------------------------------------------------------
(* The comparisons of the host find no error: it waits for what it reads.   *)
(* Only bench, as its sizes are defined, compares what was not computed.   *)
Verified == Ordered /\ name # "bench" => errors = 0

(* One after the other, the commands compute what the host compares.       *)
VerifiedInTurn ==
  next \in Commands /\ program[next].op = "verify" /\ name # "bench" =>
    Mismatches(InTurn[next - 1], next) = {}

(* The node that list.cpp reaches after e pointers. *)
Nth(e) == LET node[n \in Nat] == IF n = 0 THEN 0 ELSE mem["next"][node[n - 1]] IN node[e]

(* What the programs compute that compare nothing, or not that: the kernels *)
(* of async.cpp; what crosses the barriers of a tile; a circular list with  *)
(* the new node in it once, although it was inserted twice; a benchmark     *)
(* whose sums are complete if its size fits the number of work-items.  Of   *)
(* the others, that their commands in turn compute what they compare.      *)
Results ==
  /\ VerifiedInTurn
  /\ AllFinished /\ Ordered =>
       CASE name \in {"inorder", "twoViews", "outOfOrder"} ->
              \A x \in Indices : /\ mem["da"][x] = Start("da", x) + Start("db", x)
                                 /\ mem["db"][x] = Start("db", x) + 1
         [] name = "independent" ->
              \A x \in Indices : /\ mem["da"][x] = Start("da", x) + 1
                                 /\ mem["db"][x] = Start("db", x) + 1
         [] name \in {"twoViewsCopy", "outOfOrderCopy"} ->
              mem["da"] = mem["db"] /\ mem["db"] = mem["dc"]
         [] name = "groupMemory" ->
              \A x \in Indices :
                mem["c"][x] = Start("a", (x + 1) % num) + Start("b", (x + 2) % num)
         [] name = "barrierBug" -> mem["output"][0] = 456 /\ mem["output"][1] = 321
         [] name = "deviceList" ->
              /\ {Nth(e) : e \in 0 .. Nodes + 1} = 0 .. newitem
              /\ Nth(Nodes + 2) = 0
         [] name \in {"bench", "benchFits"} ->
              \A e \in 0 .. Sizes[name] \div Side - 1 :
                mem["b"][e] = mem["cpu"][e] <=> e < global_threads
         [] OTHER -> TRUE

(* Nobody waits for a command that does not come to run, nor at a barrier   *)
(* that another work-item misses: every program ends, and so does what it   *)
(* leaves to the device.                                                   *)
Terminates == <>AllFinished
==============================================================================
