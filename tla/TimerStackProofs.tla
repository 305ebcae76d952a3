--------------------------- MODULE TimerStackProofs ---------------------------
(***************************************************************************)
(* Proofs about TimerStack: whatever the order in which Timer objects are  *)
(* destroyed and whatever the clock does, the stack matches the timers and *)
(* no event is lost; the times in the files are what their names say.      *)
(***************************************************************************)
EXTENDS TimerStack, SequenceTheorems, SetSums, TLAPS

AllTimers == Timers \cup {Root}

Typing ==
  /\ TypeOK
  /\ dumped \in Seq(Events)
  /\ order \in Seq(Timers)
  /\ freed \subseteq Events
  /\ setBack \in BOOLEAN /\ lifo \in BOOLEAN

(* The stack holds the open events, one for each Timer object.             *)
Matched ==
  /\ IsFiniteSet(live)
  /\ Root \in live <=> phase = "open"
  /\ enable =>
       /\ Len(timerStack) = Cardinality(live)
       /\ \A k \in 1 .. Len(timerStack) :
            /\ Open(timerStack[k])
            /\ events[timerStack[k]].nestedLevel = k - 1
       /\ \A e \in Events : Open(e) => \E k \in 1 .. Len(timerStack) : timerStack[k] = e
       /\ \A j, k \in 1 .. Len(timerStack) : j < k => timerStack[j] < timerStack[k]
  /\ ~enable => events = <<>>

Inv == Typing /\ Matched
------------------------------------------------------------------------------
(* Sequences and records.                                                  *)

LEMMA PopLast ==
  ASSUME NEW S, NEW s \in Seq(S), s # <<>>
  PROVE  /\ Len(s) \in Nat \ {0}
         /\ RemoveAt(s, Len(s)) \in Seq(S)
         /\ Len(RemoveAt(s, Len(s))) = Len(s) - 1
         /\ \A k \in 1 .. Len(s) - 1 : RemoveAt(s, Len(s))[k] = s[k]
<1>1. Len(s) \in Nat \ {0}
  BY EmptySeq
<1>2. \A k \in 1 .. Len(s) : s[k] \in S
  BY ElementOfSeq
<1>3. SubSeq(s, Len(s) + 1, Len(s)) = <<>>
  BY <1>1, SubSeqEmpty
<1>4. /\ SubSeq(s, 1, Len(s) - 1) \in Seq(S)
      /\ Len(SubSeq(s, 1, Len(s) - 1)) = Len(s) - 1
      /\ \A k \in 1 .. Len(s) - 1 : SubSeq(s, 1, Len(s) - 1)[k] = s[k]
  <2> DEFINE n == Len(s) - 1
  <2>1. n \in Nat /\ \A k \in 1 .. n : s[k] \in S
    BY <1>1, <1>2
  <2> HIDE DEF n
  <2>2. /\ SubSeq(s, 1, n) \in Seq(S)
        /\ Len(SubSeq(s, 1, n)) = IF 1 <= n THEN n - 1 + 1 ELSE 0
        /\ \A k \in 1 .. n - 1 + 1 : SubSeq(s, 1, n)[k] = s[1 + k - 1]
    BY <2>1, SubSeqProperties
  <2>3. Len(SubSeq(s, 1, n)) = n
    BY <2>1, <2>2
  <2>4. ASSUME NEW k \in 1 .. n PROVE SubSeq(s, 1, n)[k] = s[k]
    <3>1. k \in 1 .. n - 1 + 1 /\ 1 + k - 1 = k
      BY <2>1
    <3> QED
      BY <2>2, <3>1
  <2> QED
    BY <2>2, <2>3, <2>4 DEF n
<1>5. RemoveAt(s, Len(s)) = SubSeq(s, 1, Len(s) - 1)
  BY <1>3, <1>4, ConcatEmptySeq DEF RemoveAt
<1> QED
  BY <1>1, <1>4, <1>5

LEMMA EventTypes ==
  ASSUME Typing
  PROVE  /\ Len(events) \in Nat /\ Len(timerStack) \in Nat /\ clock \in 1 .. MaxTime /\ MaxTime \in Nat
         /\ \A e \in Events : events[e] \in TimerEvent
         /\ \A k \in 1 .. Len(timerStack) : timerStack[k] \in Events
         /\ DOMAIN events = Events /\ DOMAIN timerStack = 1 .. Len(timerStack)
<1>1. /\ events \in Seq(TimerEvent) /\ timerStack \in Seq(Events) /\ clock \in 1 .. MaxTime
  BY DEF Typing, TypeOK
<1> QED
  BY <1>1, ElementOfSeq, LenProperties, StackAssumption DEF Events

LEMMA NewEventType ==
  ASSUME NEW t \in AllTimers, NEW name \in Names \cup {"TimerStack"}, NEW level \in Nat,
         clock \in 1 .. MaxTime
  PROVE  /\ NewEvent(t, name, level) \in TimerEvent
         /\ NewEvent(t, name, level).endTime = 0
         /\ NewEvent(t, name, level).nestedLevel = level
         /\ NewEvent(t, name, level).startTime = clock
         /\ NewEvent(t, name, level).startedBy = t
BY StackAssumption DEF NewEvent, TimerEvent, AllTimers

LEMMA StartEffects ==
  ASSUME Typing, NEW t \in Timers, NEW name \in Names, StartTimer(t, name)
  PROVE  /\ events' \in Seq(TimerEvent) /\ Len(events') = Len(events) + 1
         /\ \A e \in Events : events'[e] = events[e]
         /\ events'[Len(events) + 1] = NewEvent(t, name, Len(timerStack))
         /\ timerStack' \in Seq(Events') /\ Len(timerStack') = Len(timerStack) + 1
         /\ \A k \in 1 .. Len(timerStack) : timerStack'[k] = timerStack[k]
         /\ timerStack'[Len(timerStack) + 1] = Len(events) + 1
         /\ startQueue' = Append(startQueue, Len(events) + 1) /\ startQueue' \in Seq(Events')
         /\ maxNestedLevel' \in Nat
         /\ endQueue' = endQueue
<1>1. /\ Len(events) \in Nat /\ Len(timerStack) \in Nat /\ clock \in 1 .. MaxTime
      /\ events \in Seq(TimerEvent) /\ timerStack \in Seq(Events) /\ startQueue \in Seq(Events)
      /\ maxNestedLevel \in Nat
  BY EventTypes DEF Typing, TypeOK
<1>2. NewEvent(t, name, Len(timerStack)) \in TimerEvent
  BY <1>1, NewEventType DEF AllTimers
<1>3. /\ events' = Append(events, NewEvent(t, name, Len(timerStack)))
      /\ timerStack' = Append(timerStack, Len(events) + 1)
      /\ startQueue' = Append(startQueue, Len(events) + 1)
      /\ maxNestedLevel' \in {Len(timerStack), maxNestedLevel}
      /\ endQueue' = endQueue
  BY DEF StartTimer
<1>4. /\ events' \in Seq(TimerEvent) /\ Len(events') = Len(events) + 1
      /\ \A e \in Events : events'[e] = events[e]
      /\ events'[Len(events) + 1] = NewEvent(t, name, Len(timerStack))
  BY <1>1, <1>2, <1>3, AppendProperties DEF Events
<1>5. Events \subseteq Events' /\ Len(events) + 1 \in Events'
  BY <1>1, <1>4 DEF Events
<1>6. timerStack \in Seq(Events') /\ startQueue \in Seq(Events')
  BY <1>1, <1>5, SeqMonotonic
<1>7. /\ timerStack' \in Seq(Events') /\ Len(timerStack') = Len(timerStack) + 1
      /\ \A k \in 1 .. Len(timerStack) : timerStack'[k] = timerStack[k]
      /\ timerStack'[Len(timerStack) + 1] = Len(events) + 1
      /\ startQueue' \in Seq(Events')
  BY <1>3, <1>5, <1>6, AppendProperties
<1> QED
  BY <1>1, <1>3, <1>4, <1>7

LEMMA StopEffects ==
  ASSUME Typing, timerStack # <<>>, NEW t \in AllTimers, StopTimer(t)
  PROVE  LET top == timerStack[Len(timerStack)]
         IN  /\ Len(timerStack) \in Nat \ {0} /\ top \in Events
             /\ events' \in Seq(TimerEvent) /\ Len(events') = Len(events)
             /\ \A e \in Events \ {top} : events'[e] = events[e]
             /\ events'[top] = [events[top] EXCEPT !.endTime = clock, !.endedBy = t]
             /\ timerStack' \in Seq(Events) /\ Len(timerStack') = Len(timerStack) - 1
             /\ \A k \in 1 .. Len(timerStack) - 1 : timerStack'[k] = timerStack[k]
             /\ endQueue' = Append(endQueue, top) /\ endQueue' \in Seq(Events)
             /\ UNCHANGED <<startQueue, maxNestedLevel>>
<1> DEFINE top == timerStack[Len(timerStack)]
<1>1. events \in Seq(TimerEvent) /\ timerStack \in Seq(Events) /\ endQueue \in Seq(Events)
  BY DEF Typing, TypeOK
<1>2. /\ Len(timerStack) \in Nat \ {0} /\ timerStack' \in Seq(Events)
      /\ Len(timerStack') = Len(timerStack) - 1
      /\ \A k \in 1 .. Len(timerStack) - 1 : timerStack'[k] = timerStack[k]
  BY <1>1, PopLast DEF StopTimer, EndEvent
<1>3. top \in Events
  BY <1>1, <1>2, ElementOfSeq
<1>4. /\ events' = [events EXCEPT ![top].endTime = clock, ![top].endedBy = t]
      /\ endQueue' = Append(endQueue, top) /\ UNCHANGED <<startQueue, maxNestedLevel>>
  BY DEF StopTimer, EndEvent
<1> HIDE DEF top
<1> DEFINE ended == [events[top] EXCEPT !.endTime = clock, !.endedBy = t]
<1>5. events[top] \in TimerEvent /\ clock \in 1 .. MaxTime /\ MaxTime \in Nat
  BY <1>3, EventTypes
<1>6. ended \in TimerEvent
  <2>1. clock \in 0 .. MaxTime /\ t \in Timers \cup {Root, "nobody"}
    BY <1>5 DEF AllTimers
  <2> QED
    BY <1>5, <2>1 DEF TimerEvent
<1>7. events' = [events EXCEPT ![top] = ended]
  BY <1>4
<1> HIDE DEF ended
<1>8. /\ events' \in Seq(TimerEvent) /\ Len(events') = Len(events)
      /\ \A e \in Events : events'[e] = IF e = top THEN ended ELSE events[e]
  BY <1>1, <1>3, <1>6, <1>7, ExceptSeq DEF Events
<1>9. endQueue' \in Seq(Events)
  BY <1>1, <1>3, <1>4, AppendProperties
<1> QED
  BY <1>2, <1>3, <1>4, <1>8, <1>9 DEF top, ended
------------------------------------------------------------------------------
(* The typing and the stack, action by action.                             *)

LEMMA InitInv == Init => Inv
<1> SUFFICES ASSUME Init PROVE Inv
  OBVIOUS
<1>1. clock \in 1 .. MaxTime /\ clock = 1
  BY StackAssumption DEF Init
<1>2. /\ live = {Root} /\ phase = "open" /\ dumped = <<>> /\ order = <<>> /\ freed = {}
      /\ endQueue = <<>> /\ startQueue = timerStack /\ setBack = FALSE /\ lifo = TRUE
      /\ maxNestedLevel = 0 /\ enable \in BOOLEAN
  BY DEF Init
<1>3. IsFiniteSet(live) /\ Cardinality(live) = 1
  BY <1>2, FS_Singleton
<1>4. CASE enable
  <2> DEFINE e == NewEvent(Root, "TimerStack", 0)
  <2>1. e \in TimerEvent /\ e.endTime = 0 /\ e.nestedLevel = 0
    BY <1>1, NewEventType DEF AllTimers
  <2>2. events = <<e>> /\ timerStack = <<1>>
    BY <1>4 DEF Init
  <2> HIDE DEF e
  <2>3. events \in Seq(TimerEvent) /\ Len(events) = 1 /\ events[1] = e
    BY <2>1, <2>2
  <2>4. Events = {1} /\ timerStack \in Seq(Events) /\ Len(timerStack) = 1 /\ timerStack[1] = 1
    BY <2>2, <2>3 DEF Events
  <2>5. Typing
    <3>1. startQueue \in Seq(Events) /\ endQueue \in Seq(Events) /\ dumped \in Seq(Events)
          /\ order \in Seq(Timers) /\ freed \subseteq Events
      BY <1>2, <2>4, EmptySeq
    <3>2. TypeOK
      BY <1>1, <1>2, <2>3, <2>4, <3>1, Zenon DEF TypeOK
    <3> QED
      BY <1>2, <3>1, <3>2 DEF Typing
  <2>6. Matched
    BY <1>2, <1>3, <1>4, <2>1, <2>3, <2>4 DEF Matched, Open
  <2> QED
    BY <2>5, <2>6 DEF Inv
<1>5. CASE ~enable
  <2>1. events = <<>> /\ timerStack = <<>>
    BY <1>5 DEF Init
  <2>2. Typing
    <3>1. startQueue \in Seq(Events) /\ endQueue \in Seq(Events) /\ dumped \in Seq(Events)
          /\ order \in Seq(Timers) /\ freed \subseteq Events /\ timerStack \in Seq(Events)
          /\ events \in Seq(TimerEvent)
      BY <1>2, <2>1, EmptySeq
    <3>2. TypeOK
      BY <1>1, <1>2, <3>1, Zenon DEF TypeOK
    <3> QED
      BY <1>2, <3>1, <3>2 DEF Typing
  <2>3. Matched
    BY <1>2, <1>3, <1>5, <2>1 DEF Matched
  <2> QED
    BY <2>2, <2>3 DEF Inv
<1> QED
  BY <1>2, <1>4, <1>5

LEMMA StartMatched ==
  ASSUME Inv, enable, NEW t \in Timers \ live, NEW name \in Names, StartTimer(t, name),
         live' = live \cup {t}, UNCHANGED <<enable, phase>>
  PROVE  Matched'
<1>1. /\ Typing /\ IsFiniteSet(live) /\ (Root \in live <=> phase = "open")
      /\ Len(timerStack) = Cardinality(live)
      /\ \A k \in 1 .. Len(timerStack) :
           /\ events[timerStack[k]].endTime = 0
           /\ events[timerStack[k]].nestedLevel = k - 1
      /\ \A e \in Events : events[e].endTime = 0 => \E k \in 1 .. Len(timerStack) : timerStack[k] = e
      /\ \A j, k \in 1 .. Len(timerStack) : j < k => timerStack[j] < timerStack[k]
  BY DEF Inv, Matched, Open
<1>2. /\ Len(events) \in Nat /\ Len(timerStack) \in Nat /\ clock \in 1 .. MaxTime
      /\ \A k \in 1 .. Len(timerStack) : timerStack[k] \in Events
  BY <1>1, EventTypes
<1>3. /\ Len(events') = Len(events) + 1
      /\ \A e \in Events : events'[e] = events[e]
      /\ events'[Len(events) + 1].endTime = 0
      /\ events'[Len(events) + 1].nestedLevel = Len(timerStack)
      /\ Len(timerStack') = Len(timerStack) + 1
      /\ \A k \in 1 .. Len(timerStack) : timerStack'[k] = timerStack[k]
      /\ timerStack'[Len(timerStack) + 1] = Len(events) + 1
  BY <1>1, <1>2, StartEffects, NewEventType DEF AllTimers
<1>4. IsFiniteSet(live') /\ Cardinality(live') = Cardinality(live) + 1
  BY <1>1, FS_AddElement
<1>5. Root \in live' <=> phase' = "open"
  BY <1>1, StackAssumption
<1>6. ASSUME NEW k \in 1 .. Len(timerStack')
      PROVE  events'[timerStack'[k]].endTime = 0 /\ events'[timerStack'[k]].nestedLevel = k - 1
  <2>1. CASE k \in 1 .. Len(timerStack)
    BY <1>1, <1>2, <1>3, <2>1
  <2>2. CASE k = Len(timerStack) + 1
    <3>1. k - 1 = Len(timerStack)
      BY <1>2, <2>2
    <3> QED
      BY <1>3, <2>2, <3>1
  <2> QED
    BY <1>2, <1>3, <2>1, <2>2
<1>7. ASSUME NEW e \in Events', events'[e].endTime = 0
      PROVE  \E k \in 1 .. Len(timerStack') : timerStack'[k] = e
  <2>1. CASE e \in Events
    <3>1. PICK k \in 1 .. Len(timerStack) : timerStack[k] = e
      BY <1>1, <1>3, <1>7, <2>1
    <3>2. k \in 1 .. Len(timerStack') /\ timerStack'[k] = e
      BY <1>2, <1>3, <3>1
    <3> QED
      BY <3>2
  <2>2. CASE e = Len(events) + 1
    <3>1. Len(timerStack) + 1 \in 1 .. Len(timerStack')
      BY <1>2, <1>3
    <3> QED
      BY <1>3, <2>2, <3>1
  <2> QED
    BY <1>2, <1>3, <2>1, <2>2 DEF Events
<1>8. ASSUME NEW j \in 1 .. Len(timerStack'), NEW k \in 1 .. Len(timerStack'), j < k
      PROVE  timerStack'[j] < timerStack'[k]
  <2>1. j \in 1 .. Len(timerStack) /\ timerStack'[j] = timerStack[j]
    BY <1>2, <1>3, <1>8
  <2>2. CASE k \in 1 .. Len(timerStack)
    BY <1>1, <1>3, <1>8, <2>1, <2>2
  <2>3. CASE k = Len(timerStack) + 1
    <3>1. timerStack[j] \in 1 .. Len(events)
      BY <1>2, <2>1 DEF Events
    <3> QED
      BY <1>2, <1>3, <2>1, <2>3, <3>1
  <2> QED
    BY <1>2, <1>3, <2>2, <2>3
<1> QED
  BY <1>1, <1>3, <1>4, <1>5, <1>6, <1>7, <1>8 DEF Matched, Open

LEMMA StackNotEmpty ==
  ASSUME Inv, enable, NEW t \in live
  PROVE  timerStack # <<>>
<1>1. IsFiniteSet(live) /\ Len(timerStack) = Cardinality(live)
  BY DEF Inv, Matched
<1>2. Cardinality(live) # 0
  BY <1>1, FS_EmptySet
<1> QED
  BY <1>1, <1>2, EmptySeq

LEMMA StopMatched ==
  ASSUME Inv, enable, NEW t \in live, StopTimer(t), live' = live \ {t},
         enable' = enable, Root \in live' <=> phase' = "open"
  PROVE  Matched'
<1> DEFINE n   == Len(timerStack)
           top == timerStack[n]
<1>1. /\ Typing /\ IsFiniteSet(live) /\ n = Cardinality(live)
      /\ \A k \in 1 .. n : events[timerStack[k]].endTime = 0 /\ events[timerStack[k]].nestedLevel = k - 1
      /\ \A e \in Events : events[e].endTime = 0 => \E k \in 1 .. n : timerStack[k] = e
      /\ \A j, k \in 1 .. n : j < k => timerStack[j] < timerStack[k]
  BY DEF Inv, Matched, Open
<1>2. t \in AllTimers
  BY <1>1 DEF Typing, TypeOK, AllTimers
<1>3. /\ Len(events) \in Nat /\ clock \in 1 .. MaxTime
      /\ \A e \in Events : events[e] \in TimerEvent
      /\ \A k \in 1 .. n : timerStack[k] \in Events
  BY <1>1, EventTypes
<1>4. /\ n \in Nat \ {0} /\ top \in Events /\ Len(events') = Len(events)
      /\ \A e \in Events \ {top} : events'[e] = events[e]
      /\ events'[top] = [events[top] EXCEPT !.endTime = clock, !.endedBy = t]
      /\ Len(timerStack') = n - 1
      /\ \A k \in 1 .. n - 1 : timerStack'[k] = timerStack[k]
  BY <1>1, <1>2, StackNotEmpty, StopEffects
<1>5. events'[top].endTime # 0
  BY <1>3, <1>4 DEF TimerEvent
<1>6. IsFiniteSet(live') /\ Cardinality(live') = Cardinality(live) - 1
  BY <1>1, FS_RemoveElement
<1>7. \A k \in 1 .. n - 1 : timerStack[k] # top /\ timerStack[k] \in Events /\ k \in 1 .. n
  <2> SUFFICES ASSUME NEW k \in 1 .. n - 1
               PROVE  timerStack[k] # top /\ timerStack[k] \in Events /\ k \in 1 .. n
    OBVIOUS
  <2>1. k \in 1 .. n /\ n \in 1 .. n /\ k < n
    BY <1>4
  <2>2. timerStack[k] < top
    BY <1>1, <2>1
  <2>3. timerStack[k] \in Nat /\ top \in Nat
    BY <1>3, <1>4, <2>1 DEF Events
  <2> QED
    BY <1>3, <2>1, <2>2, <2>3
<1> HIDE DEF top
<1>8. \A k \in 1 .. n - 1 :
        events'[timerStack'[k]].endTime = 0 /\ events'[timerStack'[k]].nestedLevel = k - 1
  BY <1>1, <1>4, <1>7
<1>9. ASSUME NEW e \in Events', events'[e].endTime = 0
      PROVE  \E k \in 1 .. n - 1 : timerStack'[k] = e
  <2>1. e \in Events /\ e # top
    BY <1>4, <1>5, <1>9 DEF Events
  <2>2. PICK k \in 1 .. n : timerStack[k] = e
    BY <1>1, <1>4, <1>9, <2>1
  <2>3. k # n
    BY <2>1, <2>2 DEF top
  <2>4. k \in 1 .. n - 1
    BY <1>4, <2>2, <2>3
  <2> QED
    BY <1>4, <2>2, <2>4
<1>10. \A j, k \in 1 .. n - 1 : j < k => timerStack'[j] < timerStack'[k]
  BY <1>1, <1>4, <1>7
<1> QED
  BY <1>1, <1>4, <1>6, <1>8, <1>9, <1>10 DEF Matched, Open

(* A step that leaves the events, the stack and the Timer objects alone.   *)
LEMMA MatchedKept ==
  ASSUME Matched, UNCHANGED <<enable, events, timerStack, live>>, phase' = "open" <=> phase = "open"
  PROVE  Matched'
BY DEF Matched, Events, Open

LEMMA NewTimerInv ==
  ASSUME Inv, NEW t \in Timers, NEW name \in Names, NewTimer(t, name)
  PROVE  Inv'
<1>1. /\ Typing /\ t \in Timers \ live /\ live' = live \cup {t} /\ order' = Append(order, t)
      /\ UNCHANGED <<enable, phase, clock, setBack, dumped, freed, lifo>>
  BY DEF Inv, NewTimer, time
<1>2. order' \in Seq(Timers)
  BY <1>1, AppendProperties DEF Typing
<1>3. live' \subseteq Timers \cup {Root} /\ phase' \in {"open", "timeline", "log", "free", "destroyed"}
  BY <1>1 DEF Typing, TypeOK
<1>4. CASE enable
  <2>1. StartTimer(t, name)
    BY <1>4 DEF NewTimer
  <2>2. Matched'
    BY <1>1, <1>4, <2>1, StartMatched
  <2>3. /\ events' \in Seq(TimerEvent) /\ Len(events') = Len(events) + 1
        /\ timerStack' \in Seq(Events') /\ startQueue' \in Seq(Events') /\ maxNestedLevel' \in Nat
        /\ endQueue' = endQueue
    BY <1>1, <2>1, StartEffects
  <2>4. Events \subseteq Events'
    BY <1>1, <2>3, EventTypes DEF Events
  <2>5. endQueue' \in Seq(Events') /\ dumped' \in Seq(Events') /\ freed' \subseteq Events'
    <3>1. endQueue \in Seq(Events) /\ dumped \in Seq(Events) /\ freed \subseteq Events
      BY <1>1 DEF Typing, TypeOK
    <3> QED
      BY <1>1, <2>3, <2>4, <3>1, SeqMonotonic
  <2>6. TypeOK'
    BY <1>1, <1>3, <2>3, <2>5 DEF Typing, TypeOK
  <2> QED
    BY <1>1, <1>2, <2>2, <2>5, <2>6 DEF Inv, Typing
<1>5. CASE ~enable
  <2>1. UNCHANGED <<events, timerStack, startQueue, endQueue, maxNestedLevel>>
    BY <1>5 DEF NewTimer, impl
  <2>2. IsFiniteSet(live') /\ (Root \in live' <=> phase' = "open")
    BY <1>1, FS_AddElement, StackAssumption DEF Inv, Matched
  <2>3. Matched'
    BY <1>1, <1>5, <2>1, <2>2 DEF Inv, Matched
  <2>4. TypeOK' /\ Events' = Events
    BY <1>1, <1>3, <2>1 DEF Typing, TypeOK, Events
  <2> QED
    BY <1>1, <1>2, <2>3, <2>4 DEF Inv, Typing
<1> QED
  BY <1>4, <1>5

(* Both ways to stop a timer, StopTimer(t) if the timers are enabled.      *)
LEMMA StopInv ==
  ASSUME Inv, NEW t \in live, live' = live \ {t}, Root \in live' <=> phase' = "open",
         IF enable THEN StopTimer(t) ELSE UNCHANGED <<events, impl>>,
         phase' \in {"open", "timeline", "log", "free", "destroyed"},
         order' \in Seq(Timers), lifo' \in BOOLEAN,
         UNCHANGED <<enable, clock, setBack, dumped, freed>>
  PROVE  Inv'
<1>1. Typing /\ t \in AllTimers /\ live' \subseteq Timers \cup {Root}
  BY DEF Inv, Typing, TypeOK, AllTimers
<1>2. CASE enable
  <2>1. StopTimer(t) /\ timerStack # <<>>
    BY <1>2, StackNotEmpty
  <2>2. Matched'
    BY <1>2, <2>1, StopMatched
  <2>3. /\ events' \in Seq(TimerEvent) /\ Len(events') = Len(events)
        /\ timerStack' \in Seq(Events) /\ endQueue' \in Seq(Events)
        /\ UNCHANGED <<startQueue, maxNestedLevel>>
    BY <1>1, <2>1, StopEffects
  <2>4. Events' = Events
    BY <2>3 DEF Events
  <2>5. TypeOK'
    BY <1>1, <2>3, <2>4 DEF Typing, TypeOK
  <2> QED
    BY <1>1, <2>2, <2>4, <2>5 DEF Inv, Typing
<1>3. CASE ~enable
  <2>1. UNCHANGED <<events, timerStack, startQueue, endQueue, maxNestedLevel>>
    BY <1>3 DEF impl
  <2>2. IsFiniteSet(live')
    BY FS_RemoveElement DEF Inv, Matched
  <2>3. Matched'
    BY <1>3, <2>1, <2>2 DEF Inv, Matched
  <2>4. TypeOK' /\ Events' = Events
    BY <1>1, <2>1 DEF Typing, TypeOK, Events
  <2> QED
    BY <1>1, <2>3, <2>4 DEF Inv, Typing
<1> QED
  BY <1>2, <1>3

LEMMA FrontType ==
  ASSUME NEW S, NEW s \in Seq(S)
  PROVE  Front(s) \in Seq(S)
<1>1. Len(s) - 1 \in Int
  BY LenProperties
<1>2. \A k \in 1 .. Len(s) - 1 : s[k] \in S
  BY ElementOfSeq, LenProperties
<1> DEFINE n == Len(s) - 1
<1> HIDE DEF n
<1>3. SubSeq(s, 1, n) \in Seq(S)
  BY <1>1, <1>2, SubSeqProperties DEF n
<1> QED
  BY <1>3 DEF Front, n

LEMMA StepInv == Inv /\ [Next]_vars => Inv'
<1> SUFFICES ASSUME Inv, [Next]_vars PROVE Inv'
  OBVIOUS
<1>0. Typing /\ Matched
  BY DEF Inv
<1>1. ASSUME UNCHANGED <<enable, events, timerStack, endQueue, maxNestedLevel, live, setBack, order,
                          lifo>>,
             phase' = "open" <=> phase = "open",
             phase' \in {"open", "timeline", "log", "free", "destroyed"}, clock' \in 1 .. MaxTime,
             \/ UNCHANGED <<startQueue, dumped>>
             \/ startQueue' = <<>> /\ dumped' = dumped \o startQueue,
             freed' = freed
      PROVE  Inv'
  <2>1. Matched' /\ Events' = Events
    BY <1>0, <1>1, MatchedKept DEF Events
  <2>2. startQueue' \in Seq(Events) /\ dumped' \in Seq(Events)
    <3>1. startQueue \in Seq(Events) /\ dumped \in Seq(Events)
      BY <1>0 DEF Typing, TypeOK
    <3>2. dumped \o startQueue \in Seq(Events) /\ <<>> \in Seq(Events)
      BY <3>1, EmptySeq, ConcatProperties
    <3> QED
      BY <1>1, <3>1, <3>2
  <2>3. TypeOK'
    BY <1>0, <1>1, <2>1, <2>2 DEF Typing, TypeOK
  <2> QED
    BY <1>0, <1>1, <2>1, <2>2, <2>3 DEF Inv, Typing
<1>2. clock \in 1 .. MaxTime /\ MaxTime \in Nat
      /\ phase \in {"open", "timeline", "log", "free", "destroyed"}
  BY <1>0, EventTypes DEF Typing, TypeOK
<1>3. CASE UNCHANGED vars
  BY <1>1, <1>2, <1>3 DEF vars, impl, files, time, history
<1>4. CASE Tick
  <2>1. clock' \in 1 .. MaxTime
    BY <1>2, <1>4 DEF Tick
  <2> QED
    BY <1>1, <1>2, <1>4, <2>1 DEF Tick, impl, files, history
<1>5. CASE SetBack
  <2>1. clock' \in 1 .. MaxTime /\ setBack' = TRUE
    BY <1>2, <1>5 DEF SetBack
  <2>2. UNCHANGED <<enable, events, impl, live, phase, files, history>>
    BY <1>5 DEF SetBack
  <2>3. Matched' /\ Events' = Events
    BY <1>0, <2>2, MatchedKept DEF Events, impl
  <2>4. TypeOK'
    BY <1>0, <2>1, <2>2, <2>3 DEF Typing, TypeOK, impl
  <2> QED
    BY <1>0, <2>1, <2>2, <2>3, <2>4 DEF Inv, Typing, history
<1>6. ASSUME NEW t \in Timers, NEW name \in Names, NewTimer(t, name) PROVE Inv'
  BY <1>6, NewTimerInv
<1>7. ASSUME NEW t \in Timers, DeleteTimer(t) PROVE Inv'
  <2>1. order' = Front(order) /\ order \in Seq(Timers)
    BY <1>0, <1>7 DEF DeleteTimer, Typing
  <2>2. order' \in Seq(Timers)
    BY <2>1, FrontType
  <2>3. lifo' \in BOOLEAN
    BY <1>7 DEF DeleteTimer
  <2>4. /\ t \in live /\ live' = live \ {t} /\ phase = "open" /\ phase' = "open" /\ Root \in live'
        /\ IF enable THEN StopTimer(t) ELSE UNCHANGED <<events, impl>>
        /\ UNCHANGED <<enable, clock, setBack, dumped, freed>>
    BY <1>0, <1>7, StackAssumption DEF DeleteTimer, Matched, time
  <2> QED
    BY <2>2, <2>3, <2>4, StopInv
<1>8. CASE DumpTimerStack
  BY <1>1, <1>2, <1>8 DEF DumpTimerStack, WriteLog, time
<1>9. CASE DeleteRoot
  <2>1. /\ Root \in live /\ live' = live \ {Root} /\ phase' \in {"timeline", "free"}
        /\ Root \notin live' /\ IF enable THEN StopTimer(Root) ELSE UNCHANGED <<events, impl>>
        /\ UNCHANGED <<enable, clock, setBack, dumped, freed, order, lifo>>
    BY <1>0, <1>9 DEF DeleteRoot, Matched, time, history
  <2>2. order' \in Seq(Timers) /\ lifo' \in BOOLEAN
    BY <1>0, <2>1 DEF Typing
  <2> QED
    BY <2>1, <2>2, StopInv
<1>10. CASE DumpTimeline
  BY <1>1, <1>2, <1>10 DEF DumpTimeline, impl, time, history
<1>11. CASE DumpLog
  BY <1>1, <1>2, <1>11 DEF DumpLog, WriteLog, time
<1>12. CASE DeleteEvents
  <2>1. /\ UNCHANGED <<enable, events, timerStack, startQueue, maxNestedLevel, live, clock, setBack,
                       dumped, order, lifo>>
        /\ phase = "free" /\ phase' = "destroyed" /\ endQueue' = <<>>
        /\ freed' = freed \cup Range(endQueue)
    BY <1>12 DEF DeleteEvents, time
  <2>2. Matched' /\ Events' = Events
    BY <1>0, <2>1, MatchedKept DEF Events
  <2>3. freed' \subseteq Events
    <3>1. endQueue \in Seq(Events) /\ freed \subseteq Events
      BY <1>0 DEF Typing, TypeOK
    <3>2. \A k \in DOMAIN endQueue : endQueue[k] \in Events
      BY <3>1, ElementOfSeq, LenProperties
    <3> QED
      BY <2>1, <3>1, <3>2 DEF Range
  <2>4. TypeOK'
    BY <1>0, <2>1, <2>2, EmptySeq DEF Typing, TypeOK
  <2> QED
    BY <1>0, <2>1, <2>2, <2>3, <2>4 DEF Inv, Typing
<1> QED
  BY <1>3, <1>4, <1>5, <1>6, <1>7, <1>8, <1>9, <1>10, <1>11, <1>12 DEF Next

(* The fields of the timer stack keep their types, for every number of     *)
(* timers and events and whatever the clock does; in particular StopTimer  *)
(* never asks an empty stack for its top.                                  *)
THEOREM TypeCorrectness == Spec => []TypeOK
<1>1. Inv => TypeOK
  BY DEF Inv, Typing
<1> QED
  BY <1>1, InitInv, StepInv, PTL DEF Spec

(* The stack holds the open events, each at its level, one for each Timer  *)
(* object that exists, whatever the order in which timers are stopped.     *)
THEOREM StackMatchesTimersHolds == Spec => []StackMatchesTimers
<1>1. ASSUME Inv PROVE StackMatchesTimers
  <2> SUFFICES ASSUME enable, phase = "open"
               PROVE  /\ Len(timerStack) = Cardinality(live)
                      /\ Range(timerStack) = {e \in Events : Open(e)}
                      /\ \A k \in DOMAIN timerStack : events[timerStack[k]].nestedLevel = k - 1
                      /\ \A j, k \in DOMAIN timerStack : j < k => timerStack[j] < timerStack[k]
    BY DEF StackMatchesTimers
  <2>1. /\ Len(timerStack) = Cardinality(live)
        /\ \A k \in 1 .. Len(timerStack) : Open(timerStack[k]) /\ events[timerStack[k]].nestedLevel = k - 1
        /\ \A e \in Events : Open(e) => \E k \in 1 .. Len(timerStack) : timerStack[k] = e
        /\ \A j, k \in 1 .. Len(timerStack) : j < k => timerStack[j] < timerStack[k]
    BY <1>1 DEF Inv, Matched
  <2>2. /\ DOMAIN timerStack = 1 .. Len(timerStack)
        /\ \A k \in 1 .. Len(timerStack) : timerStack[k] \in Events
    BY <1>1, EventTypes DEF Inv
  <2>3. Range(timerStack) = {e \in Events : Open(e)}
    BY <2>1, <2>2 DEF Range
  <2> QED
    BY <2>1, <2>2, <2>3
<1> QED
  BY <1>1, InitInv, StepInv, PTL DEF Spec
------------------------------------------------------------------------------
(* What the log files are told.                                            *)

LEMMA StepDumpedOnce == Inv /\ DumpedOnce /\ [Next]_vars => DumpedOnce'
<1> SUFFICES ASSUME Inv, DumpedOnce, [Next]_vars PROVE DumpedOnce'
  OBVIOUS
<1> DEFINE started == dumped \o startQueue
<1>0. /\ dumped \in Seq(Events) /\ startQueue \in Seq(Events) /\ Len(events) \in Nat
      /\ started = [k \in 1 .. Len(events) |-> k] /\ Typing
  BY EventTypes DEF Inv, Typing, TypeOK, DumpedOnce, Events
<1>1. ASSUME started' = started, Len(events') = Len(events) PROVE DumpedOnce'
  BY <1>0, <1>1 DEF DumpedOnce, Events
<1>2. ASSUME UNCHANGED <<events, startQueue, dumped>> PROVE DumpedOnce'
  BY <1>1, <1>2
<1>3. ASSUME WriteLog, events' = events PROVE DumpedOnce'
  <2>1. dumped' = started /\ startQueue' = <<>>
    BY <1>3 DEF WriteLog
  <2>2. started \in Seq(Events)
    BY <1>0, ConcatProperties
  <2>3. started' = started
    BY <2>1, <2>2, ConcatEmptySeq
  <2> QED
    BY <1>1, <1>3, <2>3
<1>4. ASSUME NEW t \in Timers, NEW name \in Names, StartTimer(t, name), dumped' = dumped
      PROVE  DumpedOnce'
  <2> DEFINE e == Len(events) + 1
  <2>1. startQueue' = Append(startQueue, e) /\ Len(events') = e
    BY <1>0, <1>4, StartEffects
  <2>2. e \in Nat /\ startQueue \in Seq(Nat) /\ dumped \in Seq(Nat) /\ started \in Seq(Nat)
    <3>1. Events \subseteq Nat
      BY DEF Events
    <3>2. startQueue \in Seq(Nat) /\ dumped \in Seq(Nat)
      BY <1>0, <3>1, SeqMonotonic
    <3> QED
      BY <1>0, <3>2, ConcatProperties
  <2> HIDE DEF e
  <2>3. started' = started \o <<e>>
    <3>1. startQueue' = startQueue \o <<e>> /\ <<e>> \in Seq(Nat)
      BY <2>1, <2>2, AppendIsConcat
    <3>2. dumped \in Seq(Nat) /\ startQueue \in Seq(Nat) /\ <<e>> \in Seq(Nat)
      BY <2>2, <3>1
    <3>3. (dumped \o startQueue) \o <<e>> = dumped \o (startQueue \o <<e>>)
      BY <3>2, ConcatAssociative, SMTT(40)
    <3> QED
      BY <1>4, <3>1, <3>3
  <2>4. started' = Append(started, e)
    BY <2>2, <2>3, AppendIsConcat
  <2> HIDE DEF started
  <2>5. /\ started' \in Seq(Nat) /\ Len(started') = Len(started) + 1
        /\ \A k \in 1 .. Len(started) : started'[k] = started[k]
        /\ started'[Len(started) + 1] = e
    BY <2>2, <2>4, AppendProperties
  <2>6. Len(started) = Len(events) /\ \A k \in 1 .. Len(events) : started[k] = k
    BY <1>0
  <2>7. \A k \in 1 .. e : started'[k] = k
    BY <1>0, <2>5, <2>6 DEF e
  <2>8. started' = [k \in 1 .. Len(started') |-> started'[k]] /\ Len(started') = e
    BY <2>5, <2>6 DEF e
  <2>9. started' = [k \in 1 .. e |-> k]
    BY <2>7, <2>8
  <2> QED
    BY <2>1, <2>9 DEF DumpedOnce, Events, started
<1>5. ASSUME NEW t \in live, enable, StopTimer(t), dumped' = dumped PROVE DumpedOnce'
  <2>1. timerStack # <<>> /\ t \in AllTimers
    BY <1>0, <1>5, StackNotEmpty DEF Typing, TypeOK, AllTimers
  <2>2. Len(events') = Len(events) /\ startQueue' = startQueue
    BY <1>0, <1>5, <2>1, StopEffects
  <2> QED
    BY <1>1, <1>5, <2>2
<1>6. CASE UNCHANGED vars \/ Tick \/ SetBack \/ DumpTimeline \/ DeleteEvents
  BY <1>2, <1>6 DEF vars, impl, history, Tick, SetBack, DumpTimeline, DeleteEvents
<1>7. CASE DumpTimerStack \/ DumpLog
  BY <1>3, <1>7 DEF DumpTimerStack, DumpLog
<1>8. ASSUME NEW t \in Timers, NEW name \in Names, NewTimer(t, name) PROVE DumpedOnce'
  BY <1>2, <1>4, <1>8 DEF NewTimer, impl
<1>9. ASSUME NEW t \in Timers, DeleteTimer(t) PROVE DumpedOnce'
  BY <1>2, <1>5, <1>9 DEF DeleteTimer, impl
<1>10. CASE DeleteRoot
  <2>1. Root \in live
    BY <1>10 DEF DeleteRoot, Inv, Matched
  <2> QED
    BY <1>2, <1>5, <1>10, <2>1 DEF DeleteRoot, impl, history
<1> QED
  BY <1>6, <1>7, <1>8, <1>9, <1>10 DEF Next

(* Every event is written to a log file once, in the order the events      *)
(* started, however often dumpTimerStack is called between them.           *)
THEOREM DumpedOnceHolds == Spec => []DumpedOnce
<1>1. Init => DumpedOnce
  <2> SUFFICES ASSUME Init PROVE DumpedOnce
    OBVIOUS
  <2>1. dumped = <<>> /\ startQueue = timerStack
    BY DEF Init
  <2>2. CASE enable
    <3>1. startQueue = <<1>> /\ Len(events) = 1
      BY <2>1, <2>2 DEF Init
    <3>2. dumped \o startQueue = <<1>>
      BY <2>1, <3>1, ConcatEmptySeq
    <3> QED
      BY <3>1, <3>2 DEF DumpedOnce, Events
  <2>3. CASE ~enable
    <3>1. startQueue = <<>> /\ Len(events) = 0
      BY <2>1, <2>3 DEF Init
    <3>2. dumped \o startQueue = <<>>
      BY <2>1, <3>1
    <3> QED
      BY <3>1, <3>2 DEF DumpedOnce, Events
  <2> QED
    BY <2>2, <2>3
<1> QED
  BY <1>1, InitInv, StepInv, StepDumpedOnce, PTL DEF Spec
------------------------------------------------------------------------------
(* The recorded times.                                                     *)

LEMMA TimesAreNumbers ==
  ASSUME Typing
  PROVE  /\ clock \in Nat \ {0}
         /\ \A e \in Events : events[e].startTime \in Nat /\ events[e].endTime \in Nat
BY EventTypes DEF TimerEvent

(* Unless the clock was set back nothing is recorded ahead of time.        *)
Timely ==
  ~setBack => \A e \in Events :
    /\ events[e].startTime <= clock
    /\ ~Open(e) => events[e].startTime <= events[e].endTime /\ events[e].endTime <= clock

Nested == Timely /\ WellNested

(* A new event starts when nothing can have ended later.                   *)
LEMMA StartNested ==
  ASSUME Inv, Nested, NEW t \in Timers, NEW name \in Names, StartTimer(t, name),
         UNCHANGED <<clock, setBack>>
  PROVE  Nested'
<1> DEFINE n == Len(events) + 1
<1>1. Typing
  BY DEF Inv
<1>2. /\ clock \in Nat \ {0} /\ Len(events) \in Nat
      /\ \A e \in Events : events[e].startTime \in Nat /\ events[e].endTime \in Nat
  BY <1>1, TimesAreNumbers, EventTypes
<1>3. /\ Len(events') = n
      /\ \A e \in Events : events'[e] = events[e]
      /\ events'[n].startTime = clock /\ events'[n].endTime = 0
  BY <1>1, StartEffects, NewEventType, EventTypes DEF AllTimers
<1>4. \A e \in Events' : e \in Events \/ e = n
  BY <1>2, <1>3 DEF Events
<1>5. Timely'
  BY <1>2, <1>3, <1>4 DEF Nested, Timely, Open
<1>6. WellNested'
  <2> SUFFICES ASSUME ~setBack, NEW e \in Events', NEW f \in Events', e < f, events'[e].endTime # 0
               PROVE  \/ events'[e].endTime <= events'[f].startTime
                      \/ events'[f].endTime # 0 /\ events'[f].endTime <= events'[e].endTime
    BY DEF WellNested, Open
  <2>1. e \in Events
    BY <1>3, <1>4
  <2>2. CASE f \in Events
    BY <1>3, <2>1, <2>2 DEF Nested, WellNested, Open
  <2>3. CASE f = n
    <3>1. events[e].endTime <= clock
      BY <1>3, <2>1 DEF Nested, Timely, Open
    <3> QED
      BY <1>3, <2>1, <2>3, <3>1
  <2> QED
    BY <1>4, <2>2, <2>3
<1> QED
  BY <1>5, <1>6 DEF Nested

(* The event that ends is the last one that is open: whatever started      *)
(* after it has ended by now.                                              *)
LEMMA StopNested ==
  ASSUME Inv, Nested, enable, NEW t \in live, StopTimer(t), UNCHANGED <<clock, setBack>>
  PROVE  Nested'
<1> DEFINE top == timerStack[Len(timerStack)]
<1>1. Typing /\ t \in AllTimers
  BY DEF Inv, Typing, TypeOK, AllTimers
<1>2. /\ clock \in Nat \ {0} /\ Len(events) \in Nat
      /\ \A e \in Events : events[e].startTime \in Nat /\ events[e].endTime \in Nat
  BY <1>1, TimesAreNumbers, EventTypes
<1>3. /\ Len(timerStack) \in Nat \ {0} /\ top \in Events /\ Len(events') = Len(events)
      /\ \A e \in Events \ {top} : events'[e] = events[e]
      /\ events'[top] = [events[top] EXCEPT !.endTime = clock, !.endedBy = t]
  BY <1>1, StackNotEmpty, StopEffects
<1>4. events'[top].startTime = events[top].startTime /\ events'[top].endTime = clock
  <2>1. events[top] \in TimerEvent
    BY <1>1, <1>3, EventTypes
  <2> QED
    BY <1>3, <2>1 DEF TimerEvent
<1>5. Events' = Events
  BY <1>3 DEF Events
<1>6. ASSUME NEW f \in Events, f > top PROVE events[f].endTime # 0
  <2> SUFFICES ASSUME events[f].endTime = 0 PROVE FALSE
    OBVIOUS
  <2>1. PICK k \in 1 .. Len(timerStack) : timerStack[k] = f
    BY DEF Inv, Matched, Open
  <2>2. CASE k = Len(timerStack)
    <3>1. f = top
      BY <2>1, <2>2
    <3> QED
      BY <1>3, <1>6, <3>1 DEF Events
  <2>3. CASE k # Len(timerStack)
    <3>1. k < Len(timerStack) /\ Len(timerStack) \in 1 .. Len(timerStack)
      BY <1>3, <2>3
    <3>2. f < top
      BY <2>1, <3>1 DEF Inv, Matched
    <3>3. f \in Nat /\ top \in Nat
      BY <1>3 DEF Events
    <3> HIDE DEF top
    <3> QED
      BY <1>6, <3>2, <3>3
  <2> QED
    BY <2>2, <2>3
<1> HIDE DEF top
<1>7. Timely'
  <2> SUFFICES ASSUME ~setBack, NEW e \in Events
               PROVE  /\ events'[e].startTime <= clock
                      /\ events'[e].endTime # 0 =>
                           events'[e].startTime <= events'[e].endTime /\ events'[e].endTime <= clock
    BY <1>5 DEF Timely, Open
  <2>1. CASE e = top
    <3>1. events[top].startTime <= clock
      BY <1>3 DEF Nested, Timely
    <3> QED
      BY <1>2, <1>4, <2>1, <3>1
  <2>2. CASE e # top
    BY <1>3, <2>2 DEF Nested, Timely, Open
  <2> QED
    BY <2>1, <2>2
<1>8. WellNested'
  <2> SUFFICES ASSUME ~setBack, NEW e \in Events, NEW f \in Events, e < f, events'[e].endTime # 0
               PROVE  \/ events'[e].endTime <= events'[f].startTime
                      \/ events'[f].endTime # 0 /\ events'[f].endTime <= events'[e].endTime
    BY <1>5 DEF WellNested, Open
  <2>0. e \in Nat /\ f \in Nat /\ e # f
    BY DEF Events
  <2>1. CASE e = top
    <3>1. events[f].endTime # 0 /\ events'[f] = events[f]
      BY <1>3, <1>6, <2>0, <2>1
    <3>2. events[f].endTime <= clock
      BY <3>1 DEF Nested, Timely, Open
    <3> QED
      BY <1>4, <2>1, <3>1, <3>2
  <2>2. CASE f = top
    <3>1. events'[e] = events[e] /\ events[top].endTime = 0
      <4>1. Open(top)
        BY <1>3 DEF Inv, Matched, top
      <4> QED
        BY <1>3, <2>0, <2>2, <4>1 DEF Open
    <3>2. events[e].endTime <= events[f].startTime
      BY <2>2, <3>1 DEF Nested, WellNested, Open
    <3> QED
      BY <1>4, <2>2, <3>1, <3>2
  <2>3. CASE e # top /\ f # top
    BY <1>3, <2>3 DEF Nested, WellNested, Open
  <2> QED
    BY <2>1, <2>2, <2>3
<1> QED
  BY <1>7, <1>8 DEF Nested

LEMMA StepNested == Inv /\ Nested /\ [Next]_vars => Nested'
<1> SUFFICES ASSUME Inv, Nested, [Next]_vars PROVE Nested'
  OBVIOUS
<1>1. ASSUME UNCHANGED <<events, setBack>>, clock' >= clock \/ setBack, clock' \in Nat PROVE Nested'
  <2>1. /\ clock \in Nat \ {0}
        /\ \A e \in Events : events[e].startTime \in Nat /\ events[e].endTime \in Nat
    BY TimesAreNumbers DEF Inv
  <2>2. Events' = Events /\ WellNested'
    BY <1>1 DEF Nested, WellNested, Events, Open
  <2>3. Timely'
    BY <1>1, <2>1, <2>2 DEF Nested, Timely, Open
  <2> QED
    BY <2>2, <2>3 DEF Nested
<1>2. clock \in Nat /\ clock >= clock
  BY TimesAreNumbers DEF Inv
<1>3. ASSUME UNCHANGED <<events, setBack, clock>> PROVE Nested'
  BY <1>1, <1>2, <1>3
<1>4. CASE UNCHANGED vars \/ DumpTimerStack \/ DumpTimeline \/ DumpLog \/ DeleteEvents
  BY <1>3, <1>4 DEF vars, impl, time, DumpTimerStack, DumpTimeline, DumpLog, DeleteEvents
<1>5. CASE Tick
  BY <1>1, <1>2, <1>5 DEF Tick
<1>6. CASE SetBack
  BY <1>6 DEF SetBack, Nested, Timely, WellNested
<1>7. ASSUME NEW t \in Timers, NEW name \in Names, NewTimer(t, name) PROVE Nested'
  BY <1>3, <1>7, StartNested DEF NewTimer, time
<1>8. ASSUME NEW t \in Timers, DeleteTimer(t) PROVE Nested'
  BY <1>3, <1>8, StopNested DEF DeleteTimer, time
<1>9. CASE DeleteRoot
  <2>1. Root \in live
    BY <1>9 DEF DeleteRoot, Inv, Matched
  <2> QED
    BY <1>3, <1>9, <2>1, StopNested DEF DeleteRoot, time
<1> QED
  BY <1>4, <1>5, <1>6, <1>7, <1>8, <1>9 DEF Next

LEMMA NestedHolds == Spec => []Nested
<1>1. Init => Nested
  <2> SUFFICES ASSUME Init PROVE Nested
    OBVIOUS
  <2>1. Inv
    BY InitInv
  <2>2. \A e \in Events : Open(e) /\ events[e].startTime = clock
    BY DEF Init, NewEvent, Events, Open
  <2>3. clock \in Nat
    BY <2>1, TimesAreNumbers DEF Inv
  <2> QED
    BY <2>2, <2>3 DEF Nested, Timely, WellNested
<1> QED
  BY <1>1, InitInv, StepInv, StepNested, PTL DEF Spec

(* Whatever the order of stops, the recorded intervals nest unless the     *)
(* clock was set back.                                                     *)
THEOREM WellNestedHolds == Spec => []WellNested
<1>1. Nested => WellNested
  BY DEF Nested
<1> QED
  BY <1>1, NestedHolds, PTL
------------------------------------------------------------------------------
(* Who ends an event.                                                      *)

LEMMA FrontProperties ==
  ASSUME NEW S, NEW s \in Seq(S), s # <<>>
  PROVE  /\ Front(s) \in Seq(S) /\ Len(s) \in Nat \ {0} /\ Len(Front(s)) = Len(s) - 1
         /\ \A k \in 1 .. Len(s) - 1 : Front(s)[k] = s[k]
<1>1. Len(s) \in Nat \ {0}
  BY EmptySeq
<1> DEFINE n == Len(s) - 1
<1>2. n \in Nat /\ \A k \in 1 .. n : s[k] \in S
  BY <1>1, ElementOfSeq
<1> HIDE DEF n
<1>3. /\ SubSeq(s, 1, n) \in Seq(S)
      /\ Len(SubSeq(s, 1, n)) = IF 1 <= n THEN n - 1 + 1 ELSE 0
      /\ \A k \in 1 .. n - 1 + 1 : SubSeq(s, 1, n)[k] = s[1 + k - 1]
  BY <1>2, SubSeqProperties
<1>4. Len(SubSeq(s, 1, n)) = n
  BY <1>2, <1>3
<1>5. ASSUME NEW k \in 1 .. n PROVE SubSeq(s, 1, n)[k] = s[k]
  <2>1. k \in 1 .. n - 1 + 1 /\ 1 + k - 1 = k
    BY <1>2
  <2> QED
    BY <1>3, <2>1
<1> QED
  BY <1>1, <1>3, <1>4, <1>5 DEF Front, n

(* As long as every Timer was destroyed before the ones constructed before *)
(* it, the open events above the root's belong to the live Timers in the   *)
(* order of their construction.                                            *)
Owned ==
  enable /\ lifo /\ phase = "open" =>
    /\ \A e \in Events : ~Open(e) => events[e].endedBy = events[e].startedBy
    /\ Len(timerStack) = Len(order) + 1
    /\ \A k \in 1 .. Len(order) : events[timerStack[k + 1]].startedBy = order[k]

LEMMA NewTimerOwned ==
  ASSUME Inv, Owned, NEW t \in Timers, NEW name \in Names, NewTimer(t, name)
  PROVE  Owned'
<1> SUFFICES ASSUME enable, lifo, phase = "open"
             PROVE  /\ \A e \in Events' : events'[e].endTime # 0 => events'[e].endedBy = events'[e].startedBy
                    /\ Len(timerStack') = Len(order') + 1
                    /\ \A k \in 1 .. Len(order') : events'[timerStack'[k + 1]].startedBy = order'[k]
  BY DEF Owned, Open, NewTimer
<1>1. Typing /\ order \in Seq(Timers) /\ order' = Append(order, t) /\ StartTimer(t, name)
  BY DEF Inv, Typing, NewTimer
<1>2. /\ \A e \in Events : events[e].endTime # 0 => events[e].endedBy = events[e].startedBy
      /\ Len(timerStack) = Len(order) + 1
      /\ \A k \in 1 .. Len(order) : events[timerStack[k + 1]].startedBy = order[k]
  BY DEF Owned, Open
<1>3. /\ Len(events) \in Nat /\ Len(order) \in Nat /\ clock \in 1 .. MaxTime
      /\ \A k \in 1 .. Len(timerStack) : timerStack[k] \in Events
  BY <1>1, EventTypes, LenProperties
<1>4. /\ Len(order') = Len(order) + 1 /\ order'[Len(order) + 1] = t
      /\ \A k \in 1 .. Len(order) : order'[k] = order[k]
  BY <1>1, AppendProperties
<1>5. /\ Len(events') = Len(events) + 1
      /\ \A e \in Events : events'[e] = events[e]
      /\ events'[Len(events) + 1].endTime = 0 /\ events'[Len(events) + 1].startedBy = t
      /\ Len(timerStack') = Len(timerStack) + 1
      /\ \A k \in 1 .. Len(timerStack) : timerStack'[k] = timerStack[k]
      /\ timerStack'[Len(timerStack) + 1] = Len(events) + 1
  BY <1>1, <1>2, <1>3, StartEffects, NewEventType DEF AllTimers
<1>6. ASSUME NEW e \in Events', events'[e].endTime # 0 PROVE events'[e].endedBy = events'[e].startedBy
  <2>1. e \in Events
    BY <1>3, <1>5, <1>6 DEF Events
  <2> QED
    BY <1>2, <1>5, <1>6, <2>1
<1>7. ASSUME NEW k \in 1 .. Len(order') PROVE events'[timerStack'[k + 1]].startedBy = order'[k]
  <2>1. CASE k \in 1 .. Len(order)
    <3>1. k + 1 \in 1 .. Len(timerStack)
      BY <1>2, <1>3, <2>1
    <3> QED
      BY <1>2, <1>3, <1>4, <1>5, <2>1, <3>1
  <2>2. CASE k = Len(order) + 1
    BY <1>2, <1>4, <1>5, <2>2
  <2> QED
    BY <1>3, <1>4, <2>1, <2>2
<1>8. Len(timerStack') = Len(order') + 1
  BY <1>2, <1>3, <1>4, <1>5
<1> QED
  BY <1>6, <1>7, <1>8

LEMMA DeleteTimerOwned ==
  ASSUME Inv, Owned, NEW t \in Timers, DeleteTimer(t)
  PROVE  Owned'
<1> SUFFICES ASSUME enable, lifo, Last(order) = t, phase = "open"
             PROVE  /\ \A e \in Events' : events'[e].endTime # 0 => events'[e].endedBy = events'[e].startedBy
                    /\ Len(timerStack') = Len(order') + 1
                    /\ \A k \in 1 .. Len(order') : events'[timerStack'[k + 1]].startedBy = order'[k]
  BY DEF Owned, Open, DeleteTimer
<1> DEFINE n   == Len(timerStack)
           top == timerStack[n]
<1>1. /\ Typing /\ order \in Seq(Timers) /\ order' = Front(order) /\ StopTimer(t) /\ t \in live
      /\ t \in AllTimers
  BY DEF Inv, Typing, DeleteTimer, AllTimers
<1>2. /\ \A e \in Events : events[e].endTime # 0 => events[e].endedBy = events[e].startedBy
      /\ n = Len(order) + 1
      /\ \A k \in 1 .. Len(order) : events[timerStack[k + 1]].startedBy = order[k]
  BY DEF Owned, Open
<1>3. order # <<>>
  <2>1. /\ IsFiniteSet(live) /\ Root \in live /\ n = Cardinality(live)
    BY DEF Inv, Matched
  <2>2. ~ \E x : live = {x}
    BY <1>1, <2>1, StackAssumption
  <2>3. n # 1
    BY <2>1, <2>2, FS_Singleton
  <2> QED
    BY <1>2, <2>3
<1>4. /\ Len(order) \in Nat \ {0} /\ Len(order') = Len(order) - 1
      /\ \A k \in 1 .. Len(order) - 1 : order'[k] = order[k]
  BY <1>1, <1>3, FrontProperties
<1>5. /\ top \in Events /\ Len(events') = Len(events) /\ Len(timerStack') = n - 1
      /\ \A e \in Events \ {top} : events'[e] = events[e]
      /\ events'[top] = [events[top] EXCEPT !.endTime = clock, !.endedBy = t]
      /\ \A k \in 1 .. n - 1 : timerStack'[k] = timerStack[k]
  BY <1>1, StackNotEmpty, StopEffects
<1>6. events[top].startedBy = t
  <2>1. events[timerStack[Len(order) + 1]].startedBy = order[Len(order)]
    BY <1>2, <1>4
  <2> QED
    BY <1>2, <2>1 DEF Last
<1>7. events'[top].startedBy = t /\ events'[top].endedBy = t
  <2>1. events[top] \in TimerEvent
    BY <1>1, <1>5, EventTypes
  <2> QED
    BY <1>5, <1>6, <2>1 DEF TimerEvent
<1>8. \A k \in 1 .. n - 1 : timerStack[k] # top /\ timerStack[k] \in Events
  <2> SUFFICES ASSUME NEW k \in 1 .. n - 1 PROVE timerStack[k] # top /\ timerStack[k] \in Events
    OBVIOUS
  <2>1. n \in Nat \ {0}
    BY <1>2, <1>4
  <2>2. k \in 1 .. n /\ n \in 1 .. n /\ k < n
    BY <2>1
  <2>3. timerStack[k] < top
    BY <2>2 DEF Inv, Matched
  <2>4. timerStack[k] \in Events
    BY <1>1, <2>2, EventTypes
  <2>5. timerStack[k] \in Nat /\ top \in Nat
    BY <1>5, <2>4 DEF Events
  <2> QED
    BY <2>3, <2>4, <2>5
<1> HIDE DEF top, n
<1>9. \A e \in Events' : events'[e].endTime # 0 => events'[e].endedBy = events'[e].startedBy
  BY <1>2, <1>5, <1>7 DEF Events
<1>10. ASSUME NEW k \in 1 .. Len(order') PROVE events'[timerStack'[k + 1]].startedBy = order'[k]
  <2>1. k \in 1 .. Len(order) - 1 /\ k \in 1 .. Len(order) /\ k + 1 \in 1 .. n - 1
    BY <1>2, <1>4
  <2> QED
    <3> DEFINE j == k + 1
    <3>1. j \in 1 .. n - 1 /\ events[timerStack[j]].startedBy = order[k] /\ order'[k] = order[k]
      BY <1>2, <1>4, <2>1
    <3> HIDE DEF j
    <3>2. timerStack'[j] = timerStack[j] /\ timerStack[j] \in Events \ {top}
      BY <1>5, <1>8, <3>1
    <3>3. events'[timerStack'[j]].startedBy = order'[k]
      BY <1>5, <3>1, <3>2
    <3> QED
      BY <3>3 DEF j
<1>11. Len(timerStack') = Len(order') + 1
  BY <1>2, <1>4, <1>5
<1> QED
  BY <1>9, <1>10, <1>11

LEMMA StepOwned == Inv /\ Owned /\ [Next]_vars => Owned'
<1> SUFFICES ASSUME Inv, Owned, [Next]_vars PROVE Owned'
  OBVIOUS
<1>1. ASSUME UNCHANGED <<enable, events, timerStack, order, lifo, phase>> PROVE Owned'
  BY <1>1 DEF Owned, Events, Open
<1>2. CASE UNCHANGED vars \/ Tick \/ SetBack \/ DumpTimerStack
  BY <1>1, <1>2 DEF vars, impl, history, Tick, SetBack, DumpTimerStack
<1>3. CASE DeleteRoot \/ DumpTimeline \/ DumpLog \/ DeleteEvents
  BY <1>3 DEF DeleteRoot, DumpTimeline, DumpLog, DeleteEvents, Owned
<1> QED
  BY <1>2, <1>3, NewTimerOwned, DeleteTimerOwned DEF Next

(* As long as Timer objects are destroyed in the reverse order of their    *)
(* construction, each ends the event it started, although StopTimer never  *)
(* asks whose event is on top.                                             *)
THEOREM OwnEventsHolds == Spec => []OwnEvents
<1>1. Init => Owned
  <2> SUFFICES ASSUME Init, enable PROVE Owned
    BY DEF Owned
  <2>1. \A e \in Events : Open(e)
    BY DEF Init, NewEvent, Events, Open
  <2>2. Len(timerStack) = 1 /\ order = <<>>
    BY DEF Init
  <2> QED
    BY <2>1, <2>2 DEF Owned
<1>2. Inv /\ Owned => OwnEvents
  <2> SUFFICES ASSUME Inv, Owned, lifo, phase = "open"
               PROVE  \A e \in Events : ~Open(e) => events[e].endedBy = events[e].startedBy
    BY DEF OwnEvents
  <2>1. CASE enable
    BY <2>1 DEF Owned
  <2>2. CASE ~enable
    BY <2>2 DEF Inv, Matched, Events
  <2> QED
    BY <2>1, <2>2
<1> QED
  BY <1>1, <1>2, InitInv, StepInv, StepOwned, PTL DEF Spec
------------------------------------------------------------------------------
(* The files that the destructor writes.                                   *)

Ended == {e \in Events : ~Open(e)}
EventsOf(rows) == [k \in DOMAIN rows |-> rows[k].event]

Reported ==
  enable =>
    /\ phase # "destroyed" => freed = {} /\ Range(endQueue) = Ended
    /\ phase = "destroyed" => freed = Ended
    /\ phase = "log" => EventsOf(timeline) = startQueue
    /\ phase \in {"free", "destroyed"} =>
         /\ EventsOf(log.rows) = EventsOf(timeline)
         /\ \A k \in DOMAIN log.rows : /\ log.rows[k].event \in Events
                                       /\ log.rows[k].elapsed = Elapsed(log.rows[k].event)

LEMMA NewTimerReported ==
  ASSUME Inv, Reported, NEW t \in Timers, NEW name \in Names, NewTimer(t, name)
  PROVE  Reported'
<1> SUFFICES ASSUME enable, phase = "open" PROVE freed' = {} /\ Range(endQueue)' = Ended'
  BY DEF Reported, NewTimer
<1>1. Typing /\ freed' = freed /\ freed = {} /\ Range(endQueue) = Ended /\ StartTimer(t, name)
  BY DEF Inv, Reported, NewTimer
<1>2. /\ endQueue' = endQueue /\ Len(events') = Len(events) + 1 /\ Len(events) \in Nat
      /\ \A e \in Events : events'[e] = events[e]
      /\ events'[Len(events) + 1].endTime = 0
  BY <1>1, StartEffects, NewEventType, EventTypes DEF AllTimers
<1>3. \A e \in Events' : e \in Events \/ e = Len(events) + 1
  BY <1>2 DEF Events
<1>4. Events \subseteq Events'
  BY <1>2 DEF Events
<1>5. Ended' = Ended
  BY <1>2, <1>3, <1>4 DEF Ended, Open
<1>6. Range(endQueue)' = Range(endQueue)
  BY <1>2 DEF Range
<1> QED
  BY <1>1, <1>5, <1>6

(* The event that ends is queued for deletion. *)
LEMMA StopReported ==
  ASSUME Inv, Reported, enable, phase = "open", NEW t \in live, StopTimer(t),
         UNCHANGED <<enable, freed>>, phase' \in {"open", "timeline"}
  PROVE  Reported'
<1> DEFINE top == timerStack[Len(timerStack)]
<1>1. Typing /\ t \in AllTimers /\ endQueue \in Seq(Events)
  BY DEF Inv, Typing, TypeOK, AllTimers
<1>2. freed = {} /\ Range(endQueue) = Ended
  BY DEF Reported
<1>3. /\ top \in Events /\ Len(events') = Len(events)
      /\ \A e \in Events \ {top} : events'[e] = events[e]
      /\ events'[top] = [events[top] EXCEPT !.endTime = clock, !.endedBy = t]
      /\ endQueue' = Append(endQueue, top)
  BY <1>1, StackNotEmpty, StopEffects
<1>4. events'[top].endTime # 0
  <2>1. events[top] \in TimerEvent /\ clock # 0
    BY <1>1, <1>3, EventTypes
  <2> QED
    BY <1>3, <2>1 DEF TimerEvent
<1> HIDE DEF top
<1>5. Ended' = Ended \cup {top}
  BY <1>3, <1>4 DEF Ended, Events, Open
<1>6. Range(endQueue)' = Range(endQueue) \cup {top}
  <2>1. Len(endQueue) \in Nat /\ DOMAIN endQueue = 1 .. Len(endQueue)
    BY <1>1, LenProperties
  <2>2. /\ endQueue' \in Seq(Events) /\ Len(endQueue') = Len(endQueue) + 1
        /\ \A k \in 1 .. Len(endQueue) : endQueue'[k] = endQueue[k]
        /\ endQueue'[Len(endQueue) + 1] = top
    BY <1>1, <1>3, AppendProperties
  <2>3. DOMAIN endQueue' = 1 .. Len(endQueue) + 1
    BY <2>2, LenProperties
  <2>4. /\ \A k \in DOMAIN endQueue' : k \in DOMAIN endQueue \/ k = Len(endQueue) + 1
        /\ DOMAIN endQueue \subseteq DOMAIN endQueue' /\ Len(endQueue) + 1 \in DOMAIN endQueue'
    BY <2>1, <2>3
  <2> QED
    BY <2>1, <2>2, <2>4 DEF Range
<1> QED
  BY <1>2, <1>5, <1>6 DEF Reported

LEMMA StepReported == Inv /\ Reported /\ [Next]_vars => Reported'
<1> SUFFICES ASSUME Inv, Reported, [Next]_vars PROVE Reported'
  OBVIOUS
<1>1. ASSUME UNCHANGED events
      PROVE  /\ Ended' = Ended /\ Events' = Events
             /\ \A e : Elapsed(e)' = Elapsed(e)
  BY <1>1 DEF Ended, Events, Open, Elapsed
<1>2. ASSUME UNCHANGED <<enable, events, endQueue, phase, freed>>,
             phase \in {"log", "free", "destroyed"} => UNCHANGED <<startQueue, timeline, log>>
      PROVE  Reported'
  BY <1>1, <1>2 DEF Reported, EventsOf, Range
<1>3. CASE UNCHANGED vars \/ Tick \/ SetBack \/ DumpTimerStack
  BY <1>2, <1>3 DEF vars, impl, files, history, Tick, SetBack, DumpTimerStack
<1>4. ASSUME NEW t \in Timers, DeleteTimer(t) PROVE Reported'
  <2>1. CASE enable
    <3>1. /\ t \in live /\ phase = "open" /\ phase' = "open" /\ StopTimer(t)
          /\ UNCHANGED <<enable, freed>>
      BY <1>4, <2>1 DEF DeleteTimer
    <3> QED
      BY <2>1, <3>1, StopReported
  <2>2. CASE ~enable
    BY <1>4, <2>2 DEF DeleteTimer, Reported
  <2> QED
    BY <2>1, <2>2
<1>5. CASE DeleteRoot
  <2>1. CASE enable
    <3>1. /\ Root \in live /\ phase = "open" /\ phase' = "timeline" /\ StopTimer(Root)
          /\ UNCHANGED <<enable, freed>>
      BY <1>5, <2>1 DEF DeleteRoot, Inv, Matched, history
    <3> QED
      BY <2>1, <3>1, StopReported
  <2>2. CASE ~enable
    BY <1>5, <2>2 DEF DeleteRoot, Reported
  <2> QED
    BY <2>1, <2>2
<1>6. CASE DumpTimeline
  <2>1. /\ UNCHANGED <<enable, events, startQueue, endQueue, freed>> /\ phase = "timeline" /\ phase' = "log"
        /\ timeline' = TimelineRows
    BY <1>6 DEF DumpTimeline, impl, history
  <2>2. startQueue \in Seq(Events)
    BY DEF Inv, Typing, TypeOK
  <2>3. EventsOf(timeline)' = startQueue
    BY <2>1, <2>2 DEF EventsOf, TimelineRows
  <2>4. Range(endQueue)' = Range(endQueue)
    BY <2>1 DEF Range
  <2> QED
    BY <1>1, <2>1, <2>3, <2>4 DEF Reported
<1>7. CASE DumpLog
  <2>1. /\ UNCHANGED <<enable, events, endQueue, timeline, freed>> /\ phase = "log" /\ phase' = "free"
        /\ log' = LogOf(startQueue)
    BY <1>7 DEF DumpLog, WriteLog
  <2>2. startQueue \in Seq(Events)
    BY DEF Inv, Typing, TypeOK
  <2>3. /\ DOMAIN log'.rows = DOMAIN startQueue
        /\ \A k \in DOMAIN startQueue : /\ log'.rows[k].event = startQueue[k]
                                        /\ log'.rows[k].elapsed = Elapsed(startQueue[k])
    BY <2>1 DEF LogOf
  <2>4. \A k \in DOMAIN startQueue : startQueue[k] \in Events
    BY <2>2, ElementOfSeq, LenProperties
  <2>5. enable => EventsOf(timeline)' = startQueue
    BY <2>1 DEF Reported, EventsOf
  <2>6. EventsOf(log.rows)' = startQueue
    BY <2>2, <2>3 DEF EventsOf
  <2>7. Range(endQueue)' = Range(endQueue)
    BY <2>1 DEF Range
  <2> QED
    BY <1>1, <2>1, <2>3, <2>4, <2>5, <2>6, <2>7 DEF Reported
<1>8. CASE DeleteEvents
  <2>1. /\ UNCHANGED <<enable, events, timeline, log>> /\ phase = "free" /\ phase' = "destroyed"
        /\ freed' = freed \cup Range(endQueue)
    BY <1>8 DEF DeleteEvents, files
  <2> QED
    BY <1>1, <2>1 DEF Reported, EventsOf
<1> QED
  BY <1>3, <1>4, <1>5, <1>6, <1>7, <1>8, NewTimerReported DEF Next

(* If every other Timer was destroyed before the TimerStack, its two files *)
(* show the same events, all of them ended, and every event is deleted; a  *)
(* time is negative only if the clock was set back.                        *)
THEOREM FinalReportHolds == Spec => []FinalReport
<1>1. Init => Reported
  <2> SUFFICES ASSUME Init PROVE Reported
    OBVIOUS
  <2>1. \A e \in Events : Open(e)
    BY DEF Init, NewEvent, Events, Open
  <2> QED
    BY <2>1 DEF Init, Reported, Ended, Range
<1>2. Inv /\ Nested /\ Reported => FinalReport
  <2> SUFFICES ASSUME Inv, Nested, Reported, enable, phase = "destroyed", live = {}
               PROVE  /\ EventsOf(log.rows) = EventsOf(timeline)
                      /\ \A k \in DOMAIN log.rows :
                           ~Open(log.rows[k].event) /\ (log.rows[k].elapsed < 0 => setBack)
                      /\ freed = Events
    BY DEF FinalReport, EventsOf
  <2>1. \A e \in Events : ~Open(e)
    <3>1. Len(timerStack) = 0
      BY FS_EmptySet DEF Inv, Matched
    <3> QED
      BY <3>1 DEF Inv, Matched
  <2>2. /\ EventsOf(log.rows) = EventsOf(timeline) /\ freed = Ended
        /\ \A k \in DOMAIN log.rows : /\ log.rows[k].event \in Events
                                      /\ log.rows[k].elapsed = Elapsed(log.rows[k].event)
    BY DEF Reported
  <2>3. freed = Events
    BY <2>1, <2>2 DEF Ended
  <2>4. ASSUME NEW k \in DOMAIN log.rows, log.rows[k].elapsed < 0 PROVE setBack
    <3> DEFINE e == log.rows[k].event
    <3>1. e \in Events /\ log.rows[k].elapsed = events[e].endTime - events[e].startTime /\ ~Open(e)
      BY <2>1, <2>2 DEF Elapsed
    <3> HIDE DEF e
    <3>2. ~setBack => events[e].startTime <= events[e].endTime
      BY <3>1 DEF Nested, Timely
    <3>3. events[e].startTime \in Nat /\ events[e].endTime \in Nat
      BY <3>1, TimesAreNumbers DEF Inv
    <3> QED
      BY <2>4, <3>1, <3>2, <3>3
  <2> QED
    BY <2>1, <2>2, <2>3, <2>4
<1> QED
  BY <1>1, <1>2, InitInv, StepInv, StepReported, NestedHolds, PTL DEF Spec
------------------------------------------------------------------------------
(* The averages of the log.  EventAverageManager adds the events one after *)
(* the other: the averages of the first n rows are those of n - 1 rows and *)
(* one event more, and so are the sums over the rows of a name.            *)

(* The rows before the last one of a set of rows.                          *)
Before(s) == s \ {Max(s)}

(* The equation that defines the averages over sets of rows.               *)
Folding(es, S, g) ==
  g = [s \in SUBSET S |-> IF s = {} THEN <<>>
                          ELSE AddEvent(g[Before(s)], es[Max(s)])]

LEMMA AveragesAsFold ==
  ASSUME NEW es
  PROVE  Averages(es) = (CHOOSE g : Folding(es, DOMAIN es, g))[DOMAIN es]
BY Zenon DEF Averages, FoldLeft, MapThenFoldSet, Folding, Before

(* A finite set of numbers.                                               *)
Numbers(s) == IsFiniteSet(s) /\ s \subseteq Int

LEMMA MaxElement ==
  ASSUME NEW s, s # {}, Numbers(s)
  PROVE  Max(s) \in s /\ \A x \in s : x <= Max(s)
<1> USE DEF Numbers
<1> DEFINE Good == {t \in SUBSET s : t = {} \/ \E x \in t : \A y \in t : x >= y}
<1>1. {} \in Good
  OBVIOUS
<1>2. ASSUME NEW t \in SUBSET s, t # {}, \A x \in t : t \ {x} \in Good
      PROVE  t \in Good
  <2>1. PICK x \in t : TRUE
    BY <1>2
  <2>2. CASE t \ {x} = {}
    BY <2>1, <2>2
  <2>3. CASE t \ {x} # {}
    <3>1. PICK z \in t \ {x} : \A y \in t \ {x} : z >= y
      BY <1>2, <2>1, <2>3
    <3>2. x \in Int /\ z \in Int /\ t \subseteq Int
      BY <2>1, <3>1
    <3>3. CASE x >= z
      <4>1. \A y \in t : x >= y
        BY <3>1, <3>2, <3>3
      <4> QED
        BY <2>1, <4>1
    <3>4. CASE z >= x
      <4>1. \A y \in t : z >= y
        BY <3>1, <3>2, <3>4
      <4> QED
        BY <3>1, <4>1
    <3> QED
      BY <3>2, <3>3, <3>4
  <2> QED
    BY <2>2, <2>3
<1>3. \A t \in SUBSET s : t \in Good
  <2> HIDE DEF Good
  <2> QED
    BY <1>1, <1>2, SubsetInduction
<1>4. \E x \in s : \A y \in s : x >= y
  BY <1>3
<1>5. Max(s) \in s /\ \A y \in s : Max(s) >= y
  BY <1>4 DEF Max
<1> QED
  BY <1>5

LEMMA FoldingAt ==
  ASSUME NEW es, NEW S, NEW g, Folding(es, S, g), NEW s \in SUBSET S
  PROVE  g[s] = IF s = {} THEN <<>> ELSE AddEvent(g[Before(s)], es[Max(s)])
BY Zenon DEF Folding

(* For the sets that occur, those of the first n rows, it has a solution.  *)
LEMMA FoldingsAgree ==
  ASSUME NEW es, NEW S, NEW T, NEW g, NEW h, Folding(es, S, g), Folding(es, T, h),
         NEW U, U \subseteq S, U \subseteq T, Numbers(U)
  PROVE  g[U] = h[U]
<1> DEFINE Good == {s \in SUBSET U : g[s] = h[s]}
<1>1. {} \in Good
  BY FoldingAt
<1>2. ASSUME NEW s \in SUBSET U, s # {}, \A x \in s : s \ {x} \in Good
      PROVE  s \in Good
  <2>1. Max(s) \in s
    <3>1. Numbers(s)
      BY FS_Subset DEF Numbers
    <3> QED
      BY <1>2, <3>1, MaxElement
  <2>2. g[Before(s)] = h[Before(s)]
    BY <1>2, <2>1 DEF Before
  <2>3. s \in SUBSET S /\ s \in SUBSET T
    OBVIOUS
  <2>4. g[s] = AddEvent(g[Before(s)], es[Max(s)])
    <3>1. g[s] = IF s = {} THEN <<>> ELSE AddEvent(g[Before(s)], es[Max(s)])
      BY <2>3, Zenon DEF Folding
    <3> QED
      BY <1>2, <3>1
  <2>5. h[s] = AddEvent(h[Before(s)], es[Max(s)])
    <3>1. h[s] = IF s = {} THEN <<>> ELSE AddEvent(h[Before(s)], es[Max(s)])
      BY <2>3, Zenon DEF Folding
    <3> QED
      BY <1>2, <3>1
  <2> QED
    BY <2>2, <2>4, <2>5
<1>3. \A s \in SUBSET U : s \in Good
  <2> HIDE DEF Good
  <2> QED
    BY <1>1, <1>2, SubsetInduction DEF Numbers
<1> QED
  BY <1>3

LEMMA RestrictedFolding ==
  ASSUME NEW es, NEW S, NEW g, Folding(es, S, g), NEW T, T \subseteq S
  PROVE  \E h : Folding(es, T, h)
<1> DEFINE h == [s \in SUBSET T |-> g[s]]
<1>1. \A s \in SUBSET T :
        h[s] = IF s = {} THEN <<>> ELSE AddEvent(h[Before(s)], es[Max(s)])
  <2> TAKE s \in SUBSET T
  <2>1. s \in SUBSET S /\ Before(s) \in SUBSET T
    BY DEF Before
  <2>2. h[s] = g[s] /\ h[Before(s)] = g[Before(s)]
    BY <2>1
  <2> QED
    BY <2>1, <2>2, FoldingAt
<1>2. h = [s \in SUBSET T |-> IF s = {} THEN <<>> ELSE AddEvent(h[Before(s)], es[Max(s)])]
  BY <1>1
<1>3. Folding(es, T, h)
  <2> HIDE DEF h
  <2> QED
    BY <1>2, Zenon DEF Folding
<1> QED
  BY <1>3

LEMMA FoldingExists ==
  ASSUME NEW es, NEW S, Numbers(S)
  PROVE  \E g : Folding(es, S, g)
<1> DEFINE Good == {T \in SUBSET S : \E g : Folding(es, T, g)}
           G(U) == CHOOSE g : Folding(es, U, g)
           Value(U) == G(U)[U]
           Step(U) == IF U = {} THEN <<>> ELSE AddEvent(Value(Before(U)), es[Max(U)])
<1>1. {} \in Good
  <2> DEFINE g == [s \in SUBSET {} |-> <<>>]
  <2>1. g = [s \in SUBSET {} |-> IF s = {} THEN <<>> ELSE AddEvent(g[Before(s)], es[Max(s)])]
    OBVIOUS
  <2>2. Folding(es, {}, g)
    <3> HIDE DEF g
    <3> QED
      BY <2>1, Zenon DEF Folding
  <2> QED
    BY <2>2
<1>2. ASSUME NEW T \in SUBSET S, T # {}, \A x \in T : T \ {x} \in Good
      PROVE  T \in Good
  <2>1. ASSUME NEW U, U \subseteq T, U # T
        PROVE  Folding(es, U, G(U))
    <3>1. PICK x \in T : U \subseteq T \ {x}
      BY <2>1
    <3>2. PICK g : Folding(es, T \ {x}, g)
      BY <1>2
    <3>3. \E h : Folding(es, U, h)
      BY <3>1, <3>2, RestrictedFolding
    <3> QED
      BY <3>3
  <2> HIDE DEF G
  <2>2. ASSUME NEW U, U \subseteq T, U # T
        PROVE  Value(U) = Step(U)
    <3>1. Folding(es, U, G(U))
      BY <2>1, <2>2
    <3>2. Value(U) = IF U = {} THEN <<>> ELSE AddEvent(G(U)[Before(U)], es[Max(U)])
      <4>1. U \in SUBSET U
        OBVIOUS
      <4> QED
        BY <3>1, <4>1, Zenon DEF Folding
    <3>3. CASE U = {}
      BY <3>2, <3>3
    <3>4. CASE U # {}
      <4> DEFINE V == Before(U)
      <4>1. Numbers(U)
        <5>1. U \subseteq S
          BY <2>2
        <5> QED
          BY <5>1, FS_Subset DEF Numbers
      <4>2. Max(U) \in U
        BY <3>4, <4>1, MaxElement
      <4>3. V \subseteq U /\ V \subseteq V /\ V \subseteq T /\ V # T
        BY <2>2, <4>1, <4>2 DEF Before
      <4>4. Numbers(V)
        BY <4>1, <4>3, FS_Subset DEF Numbers
      <4> HIDE DEF V
      <4>5. Folding(es, V, G(V))
        BY <2>1, <4>3
      <4>6. G(U)[V] = G(V)[V]
        BY <3>1, <4>3, <4>4, <4>5, FoldingsAgree
      <4> QED
        BY <3>2, <3>4, <4>6 DEF V
    <3> QED
      BY <3>3, <3>4
  <2> HIDE DEF Value
  <2> DEFINE h == [s \in SUBSET T |-> Step(s)]
  <2>3. \A s \in SUBSET T : s # {} => h[Before(s)] = Value(Before(s))
    <3> TAKE s \in SUBSET T
    <3> HAVE s # {}
    <3> DEFINE U == Before(s)
    <3>1. Numbers(s)
      <4>1. s \subseteq S
        OBVIOUS
      <4> QED
        BY <4>1, FS_Subset DEF Numbers
    <3>2. Max(s) \in s
      BY <3>1, MaxElement
    <3>3. U \subseteq T /\ U # T /\ U \in SUBSET T
      BY <3>2 DEF Before
    <3>4. Value(U) = Step(U)
      BY <2>2, <3>3
    <3> HIDE DEF Step, U
    <3>5. h[U] = Step(U)
      BY <3>3
    <3>6. h[U] = Value(U)
      BY <3>4, <3>5
    <3> QED
      BY <3>6 DEF U
  <2>4. h = [s \in SUBSET T |-> IF s = {} THEN <<>> ELSE AddEvent(h[Before(s)], es[Max(s)])]
    BY <2>3
  <2>5. Folding(es, T, h)
    <3> HIDE DEF h
    <3> QED
      BY <2>4, Zenon DEF Folding
  <2> QED
    BY <2>5
<1>3. \A T \in SUBSET S : T \in Good
  <2> HIDE DEF Good
  <2> QED
    BY <1>1, <1>2, SubsetInduction DEF Numbers
<1> QED
  BY <1>3

LEMMA MinElement ==
  ASSUME NEW s, s # {}, s \subseteq Nat
  PROVE  Min(s) \in s
<1> DEFINE Least == \E x \in s : \A y \in s : x <= y
           Good == {n \in Nat : \A m \in s : m <= n => Least}
<1>1. 0 \in Good
  <2> SUFFICES ASSUME NEW m \in s, m <= 0 PROVE Least
    OBVIOUS
  <2>1. m = 0 /\ \A y \in s : 0 <= y
    OBVIOUS
  <2> QED
    BY <2>1
<1>2. ASSUME NEW n \in Nat, n \in Good PROVE n + 1 \in Good
  <2> SUFFICES ASSUME NEW m \in s, m <= n + 1 PROVE Least
    OBVIOUS
  <2>1. CASE \E y \in s : y <= n
    BY <1>2, <2>1
  <2>2. CASE \A y \in s : ~(y <= n)
    <3>1. \A y \in s : m <= y
      BY <2>2
    <3> QED
      BY <3>1
  <2> QED
    BY <2>1, <2>2
<1>3. \A n \in Nat : n \in Good
  <2> HIDE DEF Good
  <2> QED
    BY <1>1, <1>2, NumberInduction
<1>4. \E x \in s : \A y \in s : x <= y
  <2>1. PICK m \in s : TRUE
    OBVIOUS
  <2>2. m \in Nat /\ m <= m
    BY <2>1
  <2> QED
    BY <1>3, <2>1, <2>2
<1>5. Min(s) \in s /\ \A y \in s : Min(s) <= y
  BY <1>4 DEF Min
<1> QED
  BY <1>5

AllNames == Names \cup {"TimerStack"}
Average  == [name : AllNames, num : Nat, total : Int]

NewAverage(e) == [name |-> events[e].name, num |-> 1, total |-> Elapsed(e)]
Added(average, e) == [average EXCEPT !.num = @ + 1, !.total = @ + Elapsed(e)]

(* addEvent finds the average of that name, or appends one.                *)
LEMMA AddEventCases ==
  ASSUME NEW averages \in Seq(Average), NEW e
  PROVE  \/ \E k \in 1 .. Len(averages) :
              /\ averages[k].name = events[e].name
              /\ AddEvent(averages, e) = [averages EXCEPT ![k] = Added(averages[k], e)]
         \/ /\ \A k \in 1 .. Len(averages) : averages[k].name # events[e].name
            /\ AddEvent(averages, e) = Append(averages, NewAverage(e))
<1> DEFINE I == {j \in 1 .. Len(averages) : averages[j].name = events[e].name}
           k == IF I # {} THEN Min(I) ELSE 0
<1>1. SelectInSeq(averages, LAMBDA x : x.name = events[e].name) = k
  BY DEF SelectInSeq
<1>2. CASE I = {}
  <2>1. AddEvent(averages, e) = Append(averages, NewAverage(e))
    <3>1. k = 0
      BY <1>2
    <3>2. ~(k > 0)
      BY <3>1
    <3> HIDE DEF k
    <3> QED
      BY <1>1, <3>2 DEF AddEvent, NewAverage
  <2> QED
    BY <1>2, <2>1
<1>3. CASE I # {}
  <2>1. k \in I
    <3>1. I \subseteq Nat
      OBVIOUS
    <3> HIDE DEF I
    <3> QED
      BY <1>3, <3>1, MinElement
  <2>2. k > 0 /\ k \in 1 .. Len(averages) /\ averages[k].name = events[e].name
    BY <2>1
  <2> HIDE DEF k
  <2>3. AddEvent(averages, e) = [averages EXCEPT ![k].num = @ + 1, ![k].total = @ + Elapsed(e)]
    BY <1>1, <2>2 DEF AddEvent
  <2>4. [averages EXCEPT ![k].num = @ + 1, ![k].total = @ + Elapsed(e)] =
          [averages EXCEPT ![k] = Added(averages[k], e)]
    BY <2>2 DEF Added
  <2> QED
    BY <2>2, <2>3, <2>4
<1> QED
  BY <1>2, <1>3

Named(es, n, name) == {k \in 1 .. n : events[es[k]].name = name}
Times(es) == [k \in DOMAIN es |-> Elapsed(es[k])]

(* The averages of the first n rows.                                       *)
Averaged(averages, es, n) ==
  /\ averages \in Seq(Average)
  /\ \A j, k \in 1 .. Len(averages) : averages[j].name = averages[k].name => j = k
  /\ \A k \in 1 .. n : \E j \in 1 .. Len(averages) : averages[j].name = events[es[k]].name
  /\ \A j \in 1 .. Len(averages) :
       LET rows == Named(es, n, averages[j].name)
       IN  /\ rows # {}
           /\ averages[j].num = Cardinality(rows)
           /\ averages[j].total = SumFunctionOnSet(Times(es), rows)

LEMMA RowTypes ==
  ASSUME Typing, NEW es \in Seq(Events), NEW k \in DOMAIN es
  PROVE  /\ es[k] \in Events
         /\ events[es[k]].name \in AllNames
         /\ Elapsed(es[k]) \in Int /\ Times(es)[k] = Elapsed(es[k])
<1>1. es[k] \in Events
  BY ElementOfSeq, LenProperties
<1>2. events[es[k]] \in TimerEvent /\ MaxTime \in Nat
  BY <1>1, EventTypes
<1>3. /\ events[es[k]].name \in AllNames
      /\ events[es[k]].startTime \in Int /\ events[es[k]].endTime \in Int
  BY <1>2 DEF TimerEvent, AllNames
<1> QED
  BY <1>1, <1>3 DEF Elapsed, Times

(* The rows of a name when there is one row more.                          *)
LEMMA OneRowMore ==
  ASSUME Typing, NEW es \in Seq(Events), NEW n \in Nat, n + 1 \in DOMAIN es, NEW name
  PROVE  LET old == Named(es, n, name)
             new == Named(es, n + 1, name)
         IN  /\ IsFiniteSet(old)
             /\ events[es[n + 1]].name # name => new = old
             /\ events[es[n + 1]].name = name =>
                  /\ new # {}
                  /\ Cardinality(new) = Cardinality(old) + 1
                  /\ SumFunctionOnSet(Times(es), new) =
                       Elapsed(es[n + 1]) + SumFunctionOnSet(Times(es), old)
<1> DEFINE m == n + 1
           old == Named(es, n, name)
           new == Named(es, m, name)
<1>1. m \in Nat /\ m \notin 1 .. n /\ 1 .. m = (1 .. n) \cup {m} /\ m \in DOMAIN es
      /\ 1 .. m \subseteq DOMAIN es
  <2>1. DOMAIN es = 1 .. Len(es) /\ Len(es) \in Nat
    BY LenProperties
  <2> QED
    BY <2>1
<1>2. IsFiniteSet(old) /\ m \notin old /\ old \subseteq DOMAIN es
  <2>1. IsFiniteSet(1 .. n) /\ old \subseteq 1 .. n
    BY FiniteInterval DEF Named
  <2> QED
    BY <1>1, <2>1, FS_Subset
<1>3. events[es[m]].name # name => new = old
  BY <1>1 DEF Named
<1>4. ASSUME events[es[m]].name = name
      PROVE  /\ new # {}
             /\ Cardinality(new) = Cardinality(old) + 1
             /\ SumFunctionOnSet(Times(es), new) =
                  Elapsed(es[m]) + SumFunctionOnSet(Times(es), old)
  <2>1. new = old \cup {m}
    BY <1>1, <1>4 DEF Named
  <2>2. \A k \in old \cup {m} : Times(es)[k] \in Int
    BY <1>1, <1>2, RowTypes
  <2>3. Times(es)[m] = Elapsed(es[m])
    BY <1>1, RowTypes
  <2> HIDE DEF old, new, m
  <2>4. SumFunctionOnSet(Times(es), old \cup {m}) = Times(es)[m] + SumFunctionOnSet(Times(es), old)
    BY <1>2, <2>2, SumAdd
  <2>5. Cardinality(old \cup {m}) = Cardinality(old) + 1
    BY <1>2, FS_AddElement
  <2> QED
    BY <2>1, <2>3, <2>4, <2>5
<1> QED
  BY <1>2, <1>3, <1>4

LEMMA AddedType ==
  ASSUME NEW average \in Average, NEW e, Elapsed(e) \in Int
  PROVE  /\ Added(average, e) \in Average
         /\ Added(average, e).name = average.name
         /\ Added(average, e).num = average.num + 1
         /\ Added(average, e).total = average.total + Elapsed(e)
<1> DEFINE n == average.num + 1
           t == average.total + Elapsed(e)
<1>1. n \in Nat /\ t \in Int
  BY DEF Average
<1>2. Added(average, e) = [average EXCEPT !.num = n, !.total = t]
  BY DEF Added
<1> HIDE DEF n, t
<1>3. [average EXCEPT !.num = n, !.total = t] \in Average
  BY <1>1 DEF Average
<1>4. LET added == [average EXCEPT !.num = n, !.total = t]
      IN  added.name = average.name /\ added.num = n /\ added.total = t
  BY DEF Average
<1> QED
  BY <1>2, <1>3, <1>4 DEF n, t

LEMMA AveragedStep ==
  ASSUME Typing, NEW es \in Seq(Events), NEW n \in Nat, n + 1 \in DOMAIN es,
         NEW averages, Averaged(averages, es, n)
  PROVE  Averaged(AddEvent(averages, es[n + 1]), es, n + 1)
<1> DEFINE m == n + 1
           e == es[m]
           new == AddEvent(averages, e)
           rows(name) == Named(es, n, name)
           Rows(name) == Named(es, m, name)
           Total(S) == SumFunctionOnSet(Times(es), S)
<1>1. /\ averages \in Seq(Average) /\ Len(averages) \in Nat
      /\ \A j \in 1 .. Len(averages) : averages[j] \in Average
  BY ElementOfSeq, LenProperties DEF Averaged
<1>2. /\ \A j, k \in 1 .. Len(averages) : averages[j].name = averages[k].name => j = k
      /\ \A k \in 1 .. n : \E j \in 1 .. Len(averages) : averages[j].name = events[es[k]].name
      /\ \A j \in 1 .. Len(averages) :
           /\ rows(averages[j].name) # {}
           /\ averages[j].num = Cardinality(rows(averages[j].name))
           /\ averages[j].total = Total(rows(averages[j].name))
  BY DEF Averaged
<1>3. events[e].name \in AllNames /\ Elapsed(e) \in Int
  BY RowTypes
<1>4. ASSUME NEW name
      PROVE  /\ IsFiniteSet(rows(name))
             /\ events[e].name # name => Rows(name) = rows(name)
             /\ events[e].name = name =>
                  /\ Rows(name) # {}
                  /\ Cardinality(Rows(name)) = Cardinality(rows(name)) + 1
                  /\ Total(Rows(name)) = Elapsed(e) + Total(rows(name))
  BY OneRowMore
<1>5. \A k \in 1 .. m : k \in 1 .. n \/ k = m
  OBVIOUS
<1> HIDE DEF m, e, rows, Rows, Total
<1>6. CASE \E k \in 1 .. Len(averages) :
              /\ averages[k].name = events[e].name
              /\ new = [averages EXCEPT ![k] = Added(averages[k], e)]
  <2>1. PICK k \in 1 .. Len(averages) :
              /\ averages[k].name = events[e].name
              /\ new = [averages EXCEPT ![k] = Added(averages[k], e)]
    BY <1>6
  <2> HIDE DEF new
  <2> DEFINE a2 == Added(averages[k], e)
  <2>2. /\ a2 \in Average /\ a2.name = averages[k].name
        /\ a2.num = averages[k].num + 1 /\ a2.total = averages[k].total + Elapsed(e)
    BY <1>1, <1>3, AddedType
  <2> HIDE DEF a2
  <2>3. /\ new \in Seq(Average) /\ Len(new) = Len(averages)
        /\ \A j \in 1 .. Len(averages) : new[j] = IF j = k THEN a2 ELSE averages[j]
    BY <1>1, <2>1, <2>2, ExceptSeq DEF a2
  <2>4. \A j \in 1 .. Len(averages) : new[j].name = averages[j].name
    BY <2>2, <2>3
  <2>5. \A i, j \in 1 .. Len(new) : new[i].name = new[j].name => i = j
    BY <1>2, <2>3, <2>4
  <2>6. \A i \in 1 .. m : \E j \in 1 .. Len(new) : new[j].name = events[es[i]].name
    <3> TAKE i \in 1 .. m
    <3>1. CASE i \in 1 .. n
      <4>1. PICK j \in 1 .. Len(averages) : averages[j].name = events[es[i]].name
        BY <1>2, <3>1
      <4> QED
        BY <2>3, <2>4, <4>1
    <3>2. CASE i = m
      BY <2>1, <2>3, <2>4, <3>2 DEF e
    <3> QED
      BY <1>5, <3>1, <3>2
  <2>7. ASSUME NEW j \in 1 .. Len(new)
        PROVE  /\ Rows(new[j].name) # {}
               /\ new[j].num = Cardinality(Rows(new[j].name))
               /\ new[j].total = Total(Rows(new[j].name))
    <3> DEFINE name == averages[j].name
    <3>1. /\ j \in 1 .. Len(averages) /\ new[j].name = name
          /\ rows(name) # {}
          /\ averages[j].num = Cardinality(rows(name))
          /\ averages[j].total = Total(rows(name))
      BY <1>2, <2>3, <2>4
    <3>2. CASE j = k
      <4>1. /\ Rows(name) # {}
            /\ Cardinality(Rows(name)) = Cardinality(rows(name)) + 1
            /\ Total(Rows(name)) = Elapsed(e) + Total(rows(name))
        BY <1>4, <2>1, <3>2
      <4>2. new[j] = a2
        BY <2>3, <3>1, <3>2
      <4>3. averages[k].total \in Int /\ averages[k].num \in Nat
        BY <1>1 DEF Average
      <4> QED
        BY <1>3, <2>2, <3>1, <3>2, <4>1, <4>2, <4>3
    <3>3. CASE j # k
      <4>1. name # events[e].name
        BY <1>2, <2>1, <3>1, <3>3
      <4>2. Rows(name) = rows(name)
        BY <1>4, <4>1
      <4>3. new[j] = averages[j]
        BY <2>3, <3>1, <3>3
      <4> QED
        BY <3>1, <4>2, <4>3
    <3> QED
      BY <3>2, <3>3
  <2> QED
    BY <2>3, <2>5, <2>6, <2>7 DEF Averaged, new, m, e, Rows, Total
<1>7. CASE /\ \A k \in 1 .. Len(averages) : averages[k].name # events[e].name
           /\ new = Append(averages, NewAverage(e))
  <2> DEFINE last == Len(averages) + 1
  <2>1. /\ NewAverage(e) \in Average
        /\ NewAverage(e).name = events[e].name
        /\ NewAverage(e).num = 1 /\ NewAverage(e).total = Elapsed(e)
    BY <1>3 DEF NewAverage, Average
  <2>2. \A k \in 1 .. Len(averages) : averages[k].name # events[e].name
    BY <1>7
  <2>3. new = Append(averages, NewAverage(e))
    BY <1>7
  <2> HIDE DEF new
  <2>4. /\ new \in Seq(Average) /\ Len(new) = last
        /\ \A j \in 1 .. Len(averages) : new[j] = averages[j]
        /\ new[last] = NewAverage(e)
    BY <1>1, <2>1, <2>3, AppendProperties
  <2>5. /\ \A j \in 1 .. Len(new) : j \in 1 .. Len(averages) \/ j = last
        /\ \A j \in 1 .. Len(averages) : j \in 1 .. Len(new)
        /\ last \in 1 .. Len(new)
    BY <1>1, <2>4
  <2> HIDE DEF last
  <2>6. \A i, j \in 1 .. Len(new) : new[i].name = new[j].name => i = j
    BY <1>2, <2>1, <2>2, <2>4, <2>5
  <2>7. \A i \in 1 .. m : \E j \in 1 .. Len(new) : new[j].name = events[es[i]].name
    <3> TAKE i \in 1 .. m
    <3>1. CASE i \in 1 .. n
      BY <1>2, <2>4, <2>5, <3>1
    <3>2. CASE i = m
      BY <2>1, <2>4, <2>5, <3>2 DEF e
    <3> QED
      BY <1>5, <3>1, <3>2
  <2>8. ASSUME NEW j \in 1 .. Len(averages)
        PROVE  /\ Rows(new[j].name) # {}
               /\ new[j].num = Cardinality(Rows(new[j].name))
               /\ new[j].total = Total(Rows(new[j].name))
    <3>1. Rows(averages[j].name) = rows(averages[j].name)
      BY <1>4, <2>2
    <3> QED
      BY <1>2, <2>4, <3>1
  <2>9. LET name == events[e].name
        IN  Rows(name) # {} /\ Cardinality(Rows(name)) = 1 /\ Total(Rows(name)) = Elapsed(e)
    <3> DEFINE name == events[e].name
    <3>1. rows(name) = {}
      BY <1>2, <2>2 DEF rows, Named
    <3>2. Cardinality(rows(name)) = 0 /\ Total(rows(name)) = 0
      BY <3>1, FS_EmptySet, SumEmpty DEF Total
    <3>3. /\ Rows(name) # {}
          /\ Cardinality(Rows(name)) = Cardinality(rows(name)) + 1
          /\ Total(Rows(name)) = Elapsed(e) + Total(rows(name))
      BY <1>4
    <3> QED
      BY <1>3, <3>2, <3>3
  <2>10. ASSUME NEW j \in 1 .. Len(new)
         PROVE  /\ Rows(new[j].name) # {}
                /\ new[j].num = Cardinality(Rows(new[j].name))
                /\ new[j].total = Total(Rows(new[j].name))
    <3>1. CASE j \in 1 .. Len(averages)
      BY <2>8, <3>1
    <3>2. CASE j = last
      BY <2>1, <2>4, <2>9, <3>2
    <3> QED
      BY <2>5, <3>1, <3>2
  <2> QED
    BY <2>4, <2>6, <2>7, <2>10 DEF Averaged, new, m, e, Rows, Total
<1> QED
  BY <1>1, <1>6, <1>7, AddEventCases

LEMMA AveragesAveraged ==
  ASSUME Typing, NEW es \in Seq(Events)
  PROVE  Averaged(Averages(es), es, Len(es))
<1> DEFINE g == CHOOSE f : Folding(es, DOMAIN es, f)
           S == DOMAIN es
           Good == {n \in Nat : n <= Len(es) => Averaged(g[1 .. n], es, n)}
<1>1. S = 1 .. Len(es) /\ Len(es) \in Nat
  BY LenProperties
<1>2. Numbers(S)
  BY <1>1, FiniteInterval DEF Numbers
<1>3. Folding(es, S, g)
  BY <1>2, FoldingExists
<1>4. Averages(es) = g[1 .. Len(es)]
  BY <1>1, AveragesAsFold
<1> HIDE DEF g
<1>5. 0 \in Good
  <2>1. 1 .. 0 = {} /\ {} \in SUBSET S
    OBVIOUS
  <2>2. g[{}] = <<>>
    BY <1>3, <2>1, Zenon DEF Folding
  <2>3. <<>> \in Seq(Average) /\ Len(<<>>) = 0
    OBVIOUS
  <2>4. Averaged(<<>>, es, 0)
    BY <2>3 DEF Averaged
  <2> QED
    BY <2>1, <2>2, <2>4
<1>6. ASSUME NEW n \in Nat, n \in Good PROVE n + 1 \in Good
  <2> SUFFICES ASSUME n + 1 <= Len(es) PROVE Averaged(g[1 .. n + 1], es, n + 1)
    OBVIOUS
  <2>1. Averaged(g[1 .. n], es, n)
    BY <1>1, <1>6
  <2> DEFINE m == n + 1
             s == 1 .. m
  <2>2. m \in DOMAIN es /\ s \in SUBSET S /\ s # {}
    <3>1. m \in 1 .. Len(es) /\ m \in s
      BY <1>1
    <3>2. s \subseteq 1 .. Len(es)
      BY <1>1
    <3> QED
      BY <1>1, <3>1, <3>2, Zenon
  <2>3. Max(s) = m
    <3>1. Numbers(s)
      BY FiniteInterval DEF Numbers
    <3>2. s \subseteq Int /\ m \in s /\ \A x \in s : x <= m
      OBVIOUS
    <3> HIDE DEF s
    <3>3. Max(s) \in s /\ \A x \in s : x <= Max(s)
      BY <2>2, <3>1, MaxElement
    <3> DEFINE x == Max(s)
    <3>4. x \in Int /\ m <= x /\ x <= m /\ m \in Int
      BY <3>2, <3>3, Zenon
    <3> HIDE DEF x
    <3>5. x = m
      BY <3>4
    <3> QED
      BY <3>5 DEF x
  <2>4. Before(s) = 1 .. n
    BY <2>3 DEF Before
  <2> HIDE DEF s
  <2>5. g[s] = IF s = {} THEN <<>> ELSE AddEvent(g[Before(s)], es[Max(s)])
    BY <1>3, <2>2, Zenon DEF Folding
  <2>6. g[s] = AddEvent(g[1 .. n], es[m])
    BY <2>2, <2>3, <2>4, <2>5
  <2>7. Averaged(AddEvent(g[1 .. n], es[n + 1]), es, n + 1)
    BY <2>1, <2>2, AveragedStep
  <2> QED
    BY <2>6, <2>7 DEF s
<1>7. \A n \in Nat : n \in Good
  <2> HIDE DEF Good
  <2> QED
    BY <1>5, <1>6, NumberInduction
<1> QED
  BY <1>1, <1>4, <1>7

(* What AveragesMatchRows says of a log and the events.                     *)
Matches(file, all) ==
  LET RowsOf(name) == {k \in DOMAIN file.rows : all[file.rows[k].event].name = name}
  IN  /\ {file.averages[j].name : j \in DOMAIN file.averages} =
           {all[file.rows[k].event].name : k \in DOMAIN file.rows}
      /\ \A j \in DOMAIN file.averages :
           LET rows == RowsOf(file.averages[j].name)
           IN  /\ file.averages[j].num = Cardinality(rows)
               /\ file.averages[j].total =
                    SumFunctionOnSet([k \in DOMAIN file.rows |-> file.rows[k].elapsed], rows)

RowsExist == \A k \in DOMAIN log.rows : log.rows[k].event \in Events

LEMMA LogMatches ==
  ASSUME Typing, NEW es \in Seq(Events)
  PROVE  /\ Matches(LogOf(es), events)
         /\ \A k \in DOMAIN LogOf(es).rows : LogOf(es).rows[k].event \in Events
<1> DEFINE file == LogOf(es)
           averages == Averages(es)
<1>1. /\ file.averages = averages
      /\ DOMAIN file.rows = DOMAIN es
      /\ \A k \in DOMAIN es : file.rows[k].event = es[k] /\ file.rows[k].elapsed = Elapsed(es[k])
  BY DEF LogOf
<1>2. DOMAIN es = 1 .. Len(es) /\ \A k \in DOMAIN es : es[k] \in Events
  BY LenProperties, ElementOfSeq
<1>3. Averaged(averages, es, Len(es))
  BY AveragesAveraged
<1> HIDE DEF file, averages
<1>4. DOMAIN averages = 1 .. Len(averages)
  BY <1>3, LenProperties DEF Averaged
<1>5. [k \in DOMAIN file.rows |-> file.rows[k].elapsed] = Times(es)
  BY <1>1 DEF Times
<1>6. ASSUME NEW name
      PROVE  {k \in DOMAIN file.rows : events[file.rows[k].event].name = name} =
               Named(es, Len(es), name)
  BY <1>1, <1>2 DEF Named
<1>7. ASSUME NEW j \in DOMAIN averages
      PROVE  /\ Named(es, Len(es), averages[j].name) # {}
             /\ averages[j].num = Cardinality(Named(es, Len(es), averages[j].name))
             /\ averages[j].total = SumFunctionOnSet(Times(es), Named(es, Len(es), averages[j].name))
  BY <1>3, <1>4 DEF Averaged
<1>8. {averages[j].name : j \in DOMAIN averages} = {events[es[k]].name : k \in DOMAIN es}
  <2>1. ASSUME NEW j \in DOMAIN averages
        PROVE  \E k \in DOMAIN es : events[es[k]].name = averages[j].name
    BY <1>2, <1>7 DEF Named
  <2>2. ASSUME NEW k \in DOMAIN es
        PROVE  \E j \in DOMAIN averages : events[es[k]].name = averages[j].name
    BY <1>2, <1>3, <1>4 DEF Averaged
  <2> QED
    BY <2>1, <2>2
<1>9. {events[file.rows[k].event].name : k \in DOMAIN file.rows} =
        {events[es[k]].name : k \in DOMAIN es}
  BY <1>1
<1>10. ASSUME NEW j \in DOMAIN file.averages
       PROVE  LET rows == {k \in DOMAIN file.rows :
                             events[file.rows[k].event].name = file.averages[j].name}
              IN  /\ file.averages[j].num = Cardinality(rows)
                  /\ file.averages[j].total =
                       SumFunctionOnSet([k \in DOMAIN file.rows |-> file.rows[k].elapsed], rows)
  <2> DEFINE a == file.averages[j]
             rows == {k \in DOMAIN file.rows : events[file.rows[k].event].name = a.name}
  <2>1. a = averages[j] /\ j \in DOMAIN averages
    BY <1>1, <1>10
  <2> HIDE DEF a
  <2>2. rows = Named(es, Len(es), a.name)
    BY <1>6
  <2> HIDE DEF rows
  <2>3. a.num = Cardinality(rows) /\ a.total = SumFunctionOnSet(Times(es), rows)
    BY <1>7, <2>1, <2>2
  <2> QED
    BY <1>5, <2>3 DEF a, rows
<1>11. Matches(file, events)
  BY <1>1, <1>8, <1>9, <1>10, Zenon DEF Matches
<1> QED
  BY <1>1, <1>2, <1>11 DEF file

(* The names of the events that a log shows never change.                  *)
LEMMA MatchesKept ==
  ASSUME RowsExist, Matches(log, events), log' = log,
         \A e \in Events : e \in Events' /\ events'[e].name = events[e].name
  PROVE  RowsExist' /\ Matches(log, events)'
<1> DEFINE NameOf(k) == events[log.rows[k].event].name
<1>1. \A k \in DOMAIN log.rows : events'[log.rows[k].event].name = NameOf(k)
  BY DEF RowsExist
<1>2. {events'[log.rows[k].event].name : k \in DOMAIN log.rows} = {NameOf(k) : k \in DOMAIN log.rows}
  BY <1>1
<1>3. ASSUME NEW name
      PROVE  {k \in DOMAIN log.rows : events'[log.rows[k].event].name = name} =
               {k \in DOMAIN log.rows : NameOf(k) = name}
  BY <1>1
<1>4. RowsExist'
  BY DEF RowsExist
<1>5. Matches(log, events')
  BY <1>2, <1>3 DEF Matches
<1> QED
  BY <1>4, <1>5

LEMMA StepMatches == Inv /\ RowsExist /\ Matches(log, events) /\ [Next]_vars => RowsExist' /\ Matches(log, events)'
<1> SUFFICES ASSUME Inv, RowsExist, Matches(log, events), [Next]_vars PROVE RowsExist' /\ Matches(log, events)'
  OBVIOUS
<1>1. Typing
  BY DEF Inv
<1>2. ASSUME UNCHANGED <<events, log>> PROVE RowsExist' /\ Matches(log, events)'
  <2>1. Events' = Events
    BY <1>2 DEF Events
  <2> QED
    BY <1>2, <2>1, MatchesKept
<1>3. CASE UNCHANGED vars \/ Tick \/ SetBack \/ DumpTimeline \/ DeleteEvents
  BY <1>2, <1>3 DEF vars, files, Tick, SetBack, DumpTimeline, DeleteEvents
<1>4. ASSUME NEW t \in Timers, NEW name \in Names, NewTimer(t, name)
      PROVE  RowsExist' /\ Matches(log, events)'
  <2>1. CASE enable
    <3>1. StartTimer(t, name) /\ log' = log
      BY <1>4, <2>1 DEF NewTimer, files
    <3>2. Len(events) \in Nat /\ Len(events') = Len(events) + 1 /\ \A e \in Events : events'[e] = events[e]
      BY <1>1, <3>1, StartEffects, EventTypes
    <3>3. \A e \in Events : e \in Events'
      BY <3>2 DEF Events
    <3> QED
      BY <3>1, <3>2, <3>3, MatchesKept
  <2>2. CASE ~enable
    BY <1>2, <1>4, <2>2 DEF NewTimer, files
  <2> QED
    BY <2>1, <2>2
<1>5. ASSUME NEW t \in live, StopTimer(t), phase = "open", enable, log' = log
      PROVE  RowsExist' /\ Matches(log, events)'
  <2> DEFINE top == timerStack[Len(timerStack)]
  <2>1. t \in AllTimers
    BY <1>1 DEF Typing, TypeOK, AllTimers
  <2>2. /\ top \in Events /\ Len(events') = Len(events)
        /\ \A e \in Events \ {top} : events'[e] = events[e]
        /\ events'[top] = [events[top] EXCEPT !.endTime = clock, !.endedBy = t]
    BY <1>1, <1>5, <2>1, StackNotEmpty, StopEffects
  <2> HIDE DEF top
  <2>3. events'[top].name = events[top].name
    <3>1. events[top] \in TimerEvent
      BY <1>1, <2>2, EventTypes
    <3> QED
      BY <2>2, <3>1 DEF TimerEvent
  <2>4. \A e \in Events : e \in Events' /\ events'[e].name = events[e].name
    BY <2>2, <2>3 DEF Events
  <2> QED
    BY <1>5, <2>4, MatchesKept
<1>6. ASSUME NEW t \in Timers, DeleteTimer(t) PROVE RowsExist' /\ Matches(log, events)'
  <2>1. CASE enable
    BY <1>5, <1>6, <2>1 DEF DeleteTimer, files
  <2>2. CASE ~enable
    BY <1>2, <1>6, <2>2 DEF DeleteTimer, files
  <2> QED
    BY <2>1, <2>2
<1>7. CASE DeleteRoot
  <2>1. CASE enable
    <3>1. Root \in live /\ phase = "open" /\ StopTimer(Root) /\ log' = log
      BY <1>7, <2>1 DEF DeleteRoot, Inv, Matched, files
    <3> QED
      BY <1>5, <2>1, <3>1
  <2>2. CASE ~enable
    BY <1>2, <1>7, <2>2 DEF DeleteRoot, files
  <2> QED
    BY <2>1, <2>2
<1>8. CASE DumpTimerStack \/ DumpLog
  <2>1. log' = LogOf(startQueue) /\ events' = events
    BY <1>8 DEF DumpTimerStack, DumpLog, WriteLog
  <2>2. startQueue \in Seq(Events)
    BY <1>1 DEF Typing, TypeOK
  <2>3. /\ Matches(LogOf(startQueue), events)
        /\ \A k \in DOMAIN LogOf(startQueue).rows : LogOf(startQueue).rows[k].event \in Events
    BY <1>1, <2>2, LogMatches
  <2>4. Matches(log, events)'
    BY <2>1, <2>3
  <2>5. RowsExist'
    BY <2>1, <2>3 DEF RowsExist, Events
  <2> QED
    BY <2>4, <2>5
<1> QED
  BY <1>3, <1>4, <1>6, <1>7, <1>8 DEF Next

(* The averages of a log agree with its rows: one entry for each name that *)
(* occurs, with the number of its rows and the sum of their times.         *)
THEOREM AveragesMatchRowsHolds == Spec => []AveragesMatchRows
<1>1. Init => RowsExist /\ Matches(log, events)
  BY DEF Init, NoLog, RowsExist, Matches
<1>2. Matches(log, events) => AveragesMatchRows
  BY DEF Matches, AveragesMatchRows
<1> QED
  BY <1>1, <1>2, InitInv, StepInv, StepMatches, PTL DEF Spec
=============================================================================
