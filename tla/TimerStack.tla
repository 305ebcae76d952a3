------------------------------ MODULE TimerStack ------------------------------
(***************************************************************************)
(* The nested timers of utilities/StackTimer.cpp: class TimerStackImpl     *)
(* with the TimerStack that owns it (and its root timer), the Timer objects *)
(* of AUTOTIMER and the handles of timer_start and timer_stop.             *)
(*                                                                         *)
(* A Timer object pushes an event when it is constructed and, when it is   *)
(* destroyed, ends the event on TOP of the stack: StopTimer ignores its    *)
(* name.  AUTOTIMER objects are destroyed in the reverse order of their    *)
(* construction; the C handles may be stopped in any order, and that is    *)
(* what this module allows.  Everything happens in one thread, the class   *)
(* has no lock.  Events are numbered in the order they are constructed.    *)
(***************************************************************************)
EXTENDS Integers, Sequences, SequencesExt, FiniteSetsExt

CONSTANTS
  Names,      \* names of timers
  Timers,     \* Timer objects other than the root
  Root,       \* the Timer that TimerStack::TimerStack constructs
  MaxEvents,  \* bound on the events of a run
  MaxTime     \* bound on the clock

ASSUME StackAssumption ==
  /\ Root \notin Timers
  /\ MaxEvents \in Nat
  /\ MaxTime \in Nat \ {0}

VARIABLES
  enable,         \* TIMER_ENABLE=1 when the TimerStack was constructed
  events,         \* all TimerEvents, by number
  timerStack,     \* the open events, innermost last
  startQueue,     \* the events not yet dumped, in the order they started
  endQueue,       \* the events that ended, in that order
  maxNestedLevel,
  live,           \* the Timer objects that exist
  phase,          \* of the TimerStack: open, or where its destructor is
  timeline, log,  \* the rows of the html file and of the log file
  clock,          \* milliseconds; 0 is the time of an event not yet recorded
  setBack,        \* history: the wall clock was set back
  \* history: events dumped so far, events deleted, have all Timers been
  \* destroyed in the reverse order of their construction, and, for as long
  \* as they have, the live ones in the order they were constructed
  dumped, freed, order, lifo

impl    == <<timerStack, startQueue, endQueue, maxNestedLevel>>
files   == <<timeline, log>>
time    == <<clock, setBack>>
history == <<dumped, freed, order, lifo>>
vars    == <<enable, events, impl, live, phase, files, time, history>>

(* startedBy and endedBy are history: the code does not record them. *)
NewEvent(t, name, level) ==
  [name |-> name, nestedLevel |-> level, startTime |-> clock, endTime |-> 0,
   startedBy |-> t, endedBy |-> "nobody"]

Elapsed(e) == events[e].endTime - events[e].startTime

NoLog == [rows |-> <<>>, averages |-> <<>>]

(* The TimerStack has been constructed, and with it its root timer. *)
Init ==
  /\ enable \in BOOLEAN
  /\ clock = 1
  /\ setBack = FALSE
  /\ events = IF enable THEN <<NewEvent(Root, "TimerStack", 0)>> ELSE <<>>
  /\ timerStack = IF enable THEN <<1>> ELSE <<>>
  /\ startQueue = timerStack
  /\ endQueue = <<>>
  /\ maxNestedLevel = 0
  /\ live = {Root}
  /\ phase = "open"
  /\ timeline = <<>>
  /\ log = NoLog
  /\ dumped = <<>>
  /\ freed = {}
  /\ order = <<>>
  /\ lifo = TRUE

Tick ==
  /\ clock < MaxTime
  /\ clock' = clock + 1
  /\ UNCHANGED <<enable, events, impl, live, phase, files, setBack, history>>

(* gettimeofday is no monotonic clock. *)
SetBack ==
  /\ clock > 1
  /\ clock' = clock - 1
  /\ setBack' = TRUE
  /\ UNCHANGED <<enable, events, impl, live, phase, files, history>>
------------------------------------------------------------------------------
StartTimer(t, name) ==
  LET level == Len(timerStack)
      e     == Len(events) + 1
  IN  /\ events' = Append(events, NewEvent(t, name, level))
      /\ maxNestedLevel' = IF level > maxNestedLevel THEN level ELSE maxNestedLevel
      /\ timerStack' = Append(timerStack, e)
      /\ startQueue' = Append(startQueue, e)
      /\ UNCHANGED endQueue

(* The event at place k of the stack ends. *)
EndEvent(t, k) ==
  /\ events' = [events EXCEPT ![timerStack[k]].endTime = clock, ![timerStack[k]].endedBy = t]
  /\ timerStack' = RemoveAt(timerStack, k)
  /\ endQueue' = Append(endQueue, timerStack[k])
  /\ UNCHANGED <<startQueue, maxNestedLevel>>

(* Mutants of StopTimer: it ends the outermost event, it ends the event of *)
(* the timer that stops, and it ends the top only if the names agree.      *)
MutantStopOutermost(t) == EndEvent(t, 1)

MutantStopOwn(t) ==
  EndEvent(t, CHOOSE k \in DOMAIN timerStack : events[timerStack[k]].startedBy = t)

MutantStopByName(t) ==
  LET own == CHOOSE e \in 1 .. Len(events) : events[e].startedBy = t
                /\ \A f \in 1 .. Len(events) : events[f].startedBy = t => f <= e
  IN  IF events[Last(timerStack)].name = events[own].name
      THEN EndEvent(t, Len(timerStack))
      ELSE UNCHANGED <<events, impl>>

(* Whoever stops, the innermost open event ends: timerStack.top(), pop().  *)
StopTimer(t) == EndEvent(t, Len(timerStack))

(* Timer::Timer, timer_start. *)
NewTimer(t, name) ==
  /\ phase = "open"
  /\ t \in Timers \ live
  /\ live' = live \cup {t}
  /\ order' = Append(order, t)
  /\ IF enable THEN Len(events) < MaxEvents /\ StartTimer(t, name)
               ELSE UNCHANGED <<events, impl>>
  /\ UNCHANGED <<enable, phase, files, time, dumped, freed, lifo>>

(* Timer::~Timer, timer_stop. *)
DeleteTimer(t) ==
  /\ phase = "open"
  /\ t \in Timers \cap live
  /\ live' = live \ {t}
  /\ lifo' = (lifo /\ Last(order) = t)
  /\ order' = Front(order)
  /\ IF enable THEN StopTimer(t) ELSE UNCHANGED <<events, impl>>
  /\ UNCHANGED <<enable, phase, files, time, dumped, freed>>
------------------------------------------------------------------------------
(* EventAverageManager::addEvent over the events es, in order. *)
AddEvent(averages, e) ==
  LET k == SelectInSeq(averages, LAMBDA a : a.name = events[e].name)
  IN  IF k > 0
      THEN [averages EXCEPT ![k].num = @ + 1, ![k].total = @ + Elapsed(e)]
      ELSE Append(averages, [name |-> events[e].name, num |-> 1, total |-> Elapsed(e)])

(* Mutant of Averages: the first event of a name is not counted in num. *)
MutantAverages(es) ==
  FoldLeft(LAMBDA averages, e :
             LET k == SelectInSeq(averages, LAMBDA a : a.name = events[e].name)
             IN  IF k > 0 THEN AddEvent(averages, e)
                 ELSE Append(averages, [name |-> events[e].name, num |-> 0, total |-> Elapsed(e)]),
           <<>>, es)

Averages(es) == FoldLeft(AddEvent, <<>>, es)

LogOf(es) ==
  [rows |-> [k \in DOMAIN es |->
               [event |-> es[k], level |-> events[es[k]].nestedLevel, elapsed |-> Elapsed(es[k])]],
   averages |-> Averages(es)]

(* Mutant of WriteLog: the queue is rotated, as for the timeline. *)
MutantKeepQueue ==
  /\ log' = LogOf(startQueue)
  /\ dumped' = dumped \o startQueue
  /\ UNCHANGED startQueue

(* dumpTimerStack: the file is overwritten and the queue is emptied. *)
WriteLog ==
  /\ log' = LogOf(startQueue)
  /\ dumped' = dumped \o startQueue
  /\ startQueue' = <<>>

DumpTimerStack ==
  /\ phase = "open"
  /\ WriteLog
  /\ UNCHANGED <<enable, events, timerStack, endQueue, maxNestedLevel, live, phase,
                 timeline, time, freed, order, lifo>>
------------------------------------------------------------------------------
(* TimerStack::~TimerStack: delete timer, then delete impl, whose          *)
(* destructor writes both files and deletes the events that ended.         *)

(* Mutant of DeleteRoot: the root timer is not stopped. *)
MutantForgetRoot ==
  /\ phase = "open"
  /\ phase' = IF enable THEN "timeline" ELSE "free"
  /\ live' = live \ {Root}
  /\ UNCHANGED <<enable, events, impl, files, time, history>>

DeleteRoot ==
  /\ phase = "open"
  /\ phase' = IF enable THEN "timeline" ELSE "free"
  /\ live' = live \ {Root}
  /\ IF enable THEN StopTimer(Root) ELSE UNCHANGED <<events, impl>>
  /\ UNCHANGED <<enable, files, time, history>>

(* dumpTimerStackGoogleTimeline: each event is taken from the front of the *)
(* queue and put back at its end.                                    *)
TimelineRows ==
  [k \in DOMAIN startQueue |->
     [event |-> startQueue[k],
      start |-> events[startQueue[k]].startTime,
      end   |-> events[startQueue[k]].endTime]]

DumpTimeline ==
  /\ phase = "timeline"
  /\ phase' = "log"
  /\ timeline' = TimelineRows
  /\ UNCHANGED <<enable, events, impl, live, log, time, history>>

DumpLog ==
  /\ phase = "log"
  /\ phase' = "free"
  /\ WriteLog
  /\ UNCHANGED <<enable, events, timerStack, endQueue, maxNestedLevel, live,
                 timeline, time, freed, order, lifo>>

DeleteEvents ==
  /\ phase = "free"
  /\ phase' = "destroyed"
  /\ freed' = freed \cup Range(endQueue)
  /\ endQueue' = <<>>
  /\ UNCHANGED <<enable, events, timerStack, startQueue, maxNestedLevel, live,
                 files, time, dumped, order, lifo>>

Next ==
  \/ Tick \/ SetBack
  \/ \E t \in Timers, name \in Names : NewTimer(t, name)
  \/ \E t \in Timers : DeleteTimer(t)
  \/ DumpTimerStack
  \/ DeleteRoot \/ DumpTimeline \/ DumpLog \/ DeleteEvents

Spec == Init /\ [][Next]_vars
------------------------------------------------------------------------------
Events == 1 .. Len(events)
Open(e) == events[e].endTime = 0

TimerEvent ==
  [name : Names \cup {"TimerStack"}, nestedLevel : Nat,
   startTime : 1 .. MaxTime, endTime : 0 .. MaxTime,
   startedBy : Timers \cup {Root}, endedBy : Timers \cup {Root, "nobody"}]

(* The types of the members of TimerStackImpl. *)
TypeOK ==
  /\ enable \in BOOLEAN
  /\ events \in Seq(TimerEvent)
  /\ timerStack \in Seq(Events) /\ startQueue \in Seq(Events) /\ endQueue \in Seq(Events)
  /\ maxNestedLevel \in Nat
  /\ live \subseteq Timers \cup {Root}
  /\ phase \in {"open", "timeline", "log", "free", "destroyed"}
  /\ clock \in 1 .. MaxTime

(* Whatever the order of stops, there is an open event for every Timer     *)
(* object that exists, so that StopTimer never asks an empty stack for its *)
(* top, and the stack holds exactly the open events, each at its level.    *)
StackMatchesTimers ==
  enable /\ phase = "open" =>
    /\ Len(timerStack) = Cardinality(live)
    /\ Range(timerStack) = {e \in Events : Open(e)}
    /\ \A k \in DOMAIN timerStack : events[timerStack[k]].nestedLevel = k - 1
    /\ \A j, k \in DOMAIN timerStack : j < k => timerStack[j] < timerStack[k]

(* Whatever the order of stops, the recorded intervals nest, unless the     *)
(* clock was set back: an event that started while an earlier one was open *)
(* has ended when that one ends.                                           *)
WellNested ==
  ~setBack => \A e, f \in Events : e < f /\ ~Open(e) =>
    \/ events[e].endTime <= events[f].startTime
    \/ ~Open(f) /\ events[f].endTime <= events[e].endTime

(* As long as Timer objects are destroyed in the reverse order of their    *)
(* construction, as scopes do, each ends the event it started: the times   *)
(* in the files are those of the scopes named there.                       *)
OwnEvents ==
  lifo /\ phase = "open" =>
    \A e \in Events : ~Open(e) => events[e].endedBy = events[e].startedBy

(* Every event is written to a log file once, in the order the events      *)
(* started, however often dumpTimerStack is called.                        *)
DumpedOnce == dumped \o startQueue = [k \in Events |-> k]

(* The averages of a log agree with its rows: one entry for each name that *)
(* occurs, with the number of its rows and the sum of their times.         *)
AveragesMatchRows ==
  LET RowsOf(name) == {k \in DOMAIN log.rows : events[log.rows[k].event].name = name}
  IN  /\ {log.averages[j].name : j \in DOMAIN log.averages} =
           {events[log.rows[k].event].name : k \in DOMAIN log.rows}
      /\ \A j \in DOMAIN log.averages :
           LET rows == RowsOf(log.averages[j].name)
           IN  /\ log.averages[j].num = Cardinality(rows)
               /\ log.averages[j].total =
                    SumFunctionOnSet([k \in DOMAIN log.rows |-> log.rows[k].elapsed], rows)

(* If every other Timer was destroyed before the TimerStack, its files     *)
(* show the same events, all of them ended, and no event is leaked; a time *)
(* is negative only if the clock was set back.                             *)
FinalReport ==
  enable /\ phase = "destroyed" /\ live = {} =>
    /\ [k \in DOMAIN log.rows |-> log.rows[k].event] =
         [k \in DOMAIN timeline |-> timeline[k].event]
    /\ \A k \in DOMAIN log.rows :
         ~Open(log.rows[k].event) /\ (log.rows[k].elapsed < 0 => setBack)
    /\ freed = Events
==============================================================================
