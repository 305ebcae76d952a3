---------------------------- MODULE TimerEventQueue ----------------------------
(***************************************************************************)
(* Classes TimerEventQueue and SimpleTimer of utilities/StackTimer.cpp: a  *)
(* vector of named events, a timer that keeps the index of its event, and  *)
(* the statistics over the events of one name.  A SimpleTimer records the  *)
(* start when it is constructed and the end when it goes out of scope.     *)
(***************************************************************************)
EXTENDS Integers, Sequences, FiniteSets, FiniteSetsExt

CONSTANT MaxTime  \* bound on the clock

ASSUME TimeAssumption == MaxTime \in Nat \ {0}

VARIABLES
  timers,  \* the events, in the order they started
  prefix,  \* of the name of the timeline file: the process id, or set by the program
  clock    \* milliseconds; 0 is the time of an event not yet recorded

queueVars == <<timers, prefix>>

QueueInit ==
  /\ timers = <<>>
  /\ prefix = "pid"
  /\ clock = 1

(* SimpleTimer::SimpleTimer; the index of the new event is Len(timers'). *)
StartSimpleTimer(name) ==
  timers' = Append(timers, [name |-> name, startTime |-> clock, endTime |-> 0])

(* SimpleTimer::~SimpleTimer. *)
StopSimpleTimer(index) == timers' = [timers EXCEPT ![index].endTime = clock]

EventsOf(name) == {k \in DOMAIN timers : timers[k].name = name}

NumEvents(name) == Cardinality(EventsOf(name))

(* Of the events with the numbers in ks. *)
SumElapsed(ks) ==
  SumFunctionOnSet([k \in DOMAIN timers |-> timers[k].endTime - timers[k].startTime], ks)

(* Mutant of AverageTime: the average over all events. *)
MutantAverageOfAll(name) == [total |-> SumElapsed(DOMAIN timers), num |-> Len(timers)]

(* The quotient total / num; the program asks for it when num > 0. *)
AverageTime(name) == [total |-> SumElapsed(EventsOf(name)), num |-> NumEvents(name)]

(* dump_visjs_Timeline: one row for each event. *)
Timeline == [file |-> prefix, rows |-> timers]
==============================================================================
