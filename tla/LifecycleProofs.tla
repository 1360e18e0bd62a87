-------------------------- MODULE LifecycleProofs --------------------------
(***************************************************************************)
(* Proofs about Lifecycle: for every number of members, rounds and         *)
(* timeouts, the types of the threads; that the race of start() with the   *)
(* engine for _first_token_timer costs one timer and no evaluation; and    *)
(* what a shutdown stops.                                                  *)
(*                                                                         *)
(* A thread is where the list of its statements left says it is, so the    *)
(* invariants speak of lists: those main() goes through, and those of the  *)
(* handlers of the engine.                                                 *)
(***************************************************************************)
EXTENDS Lifecycle, TLAPS, SequenceTheorems, FiniteSetTheorems

-----------------------------------------------------------------------------
\* What may be left of main()

Boot1 == <<"start_engine", "cancel_timer", "start_timer", "keep_timer", "start_tick", "start_monitor",
           "console">>
Boot2 == <<"cancel_timer", "start_timer", "keep_timer", "start_tick", "start_monitor", "console">>
Boot3 == <<"start_timer", "keep_timer", "start_tick", "start_monitor", "console">>
Boot4 == <<"keep_timer", "start_tick", "start_monitor", "console">>
Boot5 == <<"start_tick", "start_monitor", "console">>
Boot6 == <<"start_monitor", "console">>
AtConsole == <<"console">>
Joining == <<"join_engine">>

\* start() is not over.
BootLists == {Start, Boot1, Boot2, Boot3, Boot4, Boot5, Boot6}
MainLists == BootLists \cup {AtConsole, Close, Joining, <<>>}

\* What may be left of a handler

Schedule2 == <<"start_timer", "keep_timer">>
Schedule3 == <<"keep_timer">>
Rearm == <<"start_tick">>
Quitting == <<"stopping">> \o Shutdown
Down2 == <<"cancel_tick", "stop_monitor", "join_monitor", "stop_transport", "join_receiver", "end">>
Down3 == <<"stop_monitor", "join_monitor", "stop_transport", "join_receiver", "end">>
Down4 == <<"join_monitor", "stop_transport", "join_receiver", "end">>
Down5 == <<"stop_transport", "join_receiver", "end">>
Down6 == <<"join_receiver", "end">>
Down7 == <<"end">>

\* The shutdown after the timer has been cancelled, after the periodic round
\* has been, and after the monitor and the transport have been told to stop.
NoTimerLists == {Down2, Down3, Down4, Down5, Down6, Down7}
NoTickLists == {Down3, Down4, Down5, Down6, Down7}
NoMonitorLists == {Down4, Down5, Down6, Down7}
NoTransportLists == {Down6, Down7}

DownLists == {Shutdown} \cup NoTimerLists
IdleLists == {<<>>, Rearm}
ScheduleLists == {ScheduleFirstTokenEval, Schedule2, Schedule3}
EngineLists == IdleLists \cup ScheduleLists \cup {Quitting} \cup DownLists

-----------------------------------------------------------------------------
\* The invariants

TimerStates == {"running", "cancelled", "posting", "fired"}
QuietEvents == {"EVAL_FIRST_TOKEN", "DISCOVERY_TICK", "MON_TOKEN_TIMEOUT", "RX_NEW"}
Events == QuietEvents \cup {"CMD_QUIT"}

Leaving == todo.engine \in DownLists \/ status.engine = "ended"

\* The types of everything, and the lists.
Types ==
  /\ status \in [engine : {"off", "on", "ended"},
                 receiver : {"off", "recvfrom", "post", "ended"},
                 monitor : {"off", "loop", "fire", "ended"}]
  /\ todo \in [main : MainLists, engine : EngineLists]
  /\ bus \in Seq(Events)
  /\ timers \in Seq(TimerStates)
  /\ kept \in 0 .. Len(timers)
  /\ made \in [main : 0 .. Len(timers), engine : 0 .. Len(timers)]
  /\ tick \in BOOLEAN
  /\ flags \in [stopping : BOOLEAN, monitor : BOOLEAN, transport : BOOLEAN]

\* Where the engine is, and which flags are up.
Stages ==
  /\ flags.stopping <=> Leaving
  /\ flags.monitor \/ flags.transport => flags.stopping
  /\ status.engine # "on" => todo.engine = <<>>
  /\ todo.main \in {Start, Boot1} => status.engine = "off"

ThreadsInv == Types /\ Stages

\* Nobody has quit while start() runs.
BootInv ==
  todo.main \in BootLists =>
    /\ status.engine # "ended"
    /\ todo.engine \in IdleLists \cup ScheduleLists
    /\ bus \in Seq(QuietEvents)

\* The last timer has not been cancelled for nothing.
KeptInv ==
  timers # <<>> /\ timers[Len(timers)] = "cancelled" =>
    flags.stopping \/ todo.main = Boot3 \/ todo.engine = Schedule2

\* The engine has cancelled the timer kept and has not kept another one; it
\* will never keep one again.
NoSlot == todo.engine \in {Schedule2} \cup NoTimerLists \/ status.engine = "ended"

\* The timer that the engine knows of: the one kept, or about to be.
Slot == IF todo.engine = Schedule3 THEN {made.engine} ELSE IF NoSlot THEN {} ELSE {kept}

\* main() has not started its timer.
BeforeTimer == {Start, Boot1, Boot2, Boot3}

\* Besides the timer the engine knows of, x alone may be running: the one
\* main() is about to keep, and then the one that was lost by it.
Stray(x) ==
  /\ Running \subseteq {x} \cup Slot
  /\ todo.main \in BeforeTimer => Running \subseteq Slot
  /\ todo.main = Boot4 => x = made.main

TimersInv == \E x : Stray(x)

\* What the shutdown has stopped stays stopped.
ShutdownInv ==
  /\ todo.engine \in NoTimerLists \/ status.engine = "ended" => kept \notin Running
  /\ todo.engine \in NoTickLists \/ status.engine = "ended" => ~tick
  /\ todo.engine \in NoMonitorLists \/ status.engine = "ended" => flags.monitor
  /\ todo.engine \in NoTransportLists \/ status.engine = "ended" => flags.transport

LifeInv == ThreadsInv /\ BootInv /\ KeptInv /\ TimersInv /\ ShutdownInv

-----------------------------------------------------------------------------
\* The lists, statement by statement

\* When a sequence is the concatenation of two others.
LEMMA ConcatIs ==
  ASSUME NEW S, NEW q \in Seq(S), NEW r \in Seq(S), NEW t \in Seq(S),
         Len(t) = Len(q) + Len(r),
         \A i \in 1 .. Len(q) : t[i] = q[i],
         \A i \in 1 .. Len(r) : t[Len(q) + i] = r[i]
  PROVE  q \o r = t
<1>1. /\ q \o r \in Seq(S)
      /\ Len(q \o r) = Len(q) + Len(r)
      /\ \A i \in 1 .. Len(q) + Len(r) :
           (q \o r)[i] = IF i <= Len(q) THEN q[i] ELSE r[i - Len(q)]
  BY ConcatProperties
<1>2. Len(q) \in Nat /\ Len(r) \in Nat
  BY LenProperties
<1>3. ASSUME NEW i \in 1 .. Len(q \o r)
      PROVE  (q \o r)[i] = t[i]
  <2>1. CASE i <= Len(q)
    BY <1>1, <1>2, <2>1
  <2>2. CASE i > Len(q)
    <3>1. i - Len(q) \in 1 .. Len(r) /\ Len(q) + (i - Len(q)) = i
      BY <1>1, <1>2, <2>2
    <3>2. t[i] = r[i - Len(q)]
      BY <3>1
    <3>3. QED
      BY <1>1, <1>2, <2>2, <3>1, <3>2
  <2>3. QED
    BY <2>1, <2>2, <1>1, <1>2
<1>4. QED
  BY <1>1, <1>3, SeqEqual

\* Statements of main() and of the handlers.
Statements ==
  {"start_receiver", "start_engine", "cancel_timer", "start_timer", "keep_timer", "start_tick",
   "start_monitor", "console", "stopping", "cancel_tick", "stop_monitor", "join_monitor",
   "stop_transport", "join_receiver", "end"}

\* start(), with the call of _schedule_first_token_eval written out.
LEMMA StartList ==
  Start = <<"start_receiver", "start_engine", "cancel_timer", "start_timer", "keep_timer",
            "start_tick", "start_monitor", "console">>
<1> DEFINE a == <<"start_receiver", "start_engine">>
           b == <<"cancel_timer", "start_timer", "keep_timer">>
           ab == <<"start_receiver", "start_engine", "cancel_timer", "start_timer", "keep_timer">>
           c == <<"start_tick", "start_monitor", "console">>
           abc == <<"start_receiver", "start_engine", "cancel_timer", "start_timer", "keep_timer",
                    "start_tick", "start_monitor", "console">>
<1>1. a \in Seq(Statements) /\ b \in Seq(Statements) /\ ab \in Seq(Statements)
  BY DEF Statements
<1>2. c \in Seq(Statements) /\ abc \in Seq(Statements)
  BY DEF Statements
<1>3. Len(ab) = Len(a) + Len(b) /\ Len(abc) = Len(ab) + Len(c)
  OBVIOUS
<1>4. \A i \in 1 .. Len(a) : ab[i] = a[i]
  OBVIOUS
<1>5. \A i \in 1 .. Len(b) : ab[Len(a) + i] = b[i]
  OBVIOUS
<1>6. \A i \in 1 .. Len(ab) : abc[i] = ab[i]
  OBVIOUS
<1>7. \A i \in 1 .. Len(c) : abc[Len(ab) + i] = c[i]
  OBVIOUS
<1>8. Start = (a \o b) \o c
  BY DEF Start, ScheduleFirstTokenEval
<1> HIDE DEF a, b, ab, c, abc
<1>9. a \o b = ab
  BY <1>1, <1>3, <1>4, <1>5, ConcatIs
<1>10. ab \o c = abc
  BY ZenonT(60), <1>1, <1>2, <1>3, <1>6, <1>7, ConcatIs
<1>11. QED
  BY <1>8, <1>9, <1>10 DEF abc

\* What the handler of CMD_QUIT executes.
LEMMA QuittingList ==
  Quitting = <<"stopping", "cancel_timer", "cancel_tick", "stop_monitor", "join_monitor",
               "stop_transport", "join_receiver", "end">>
<1> DEFINE a == <<"stopping">>
           b == <<"cancel_timer", "cancel_tick", "stop_monitor", "join_monitor",
                  "stop_transport", "join_receiver", "end">>
           ab == <<"stopping", "cancel_timer", "cancel_tick", "stop_monitor", "join_monitor",
                   "stop_transport", "join_receiver", "end">>
<1>1. a \in Seq(Statements) /\ b \in Seq(Statements) /\ ab \in Seq(Statements)
  BY DEF Statements
<1>2. Len(ab) = Len(a) + Len(b)
  OBVIOUS
<1>3. \A i \in 1 .. Len(a) : ab[i] = a[i]
  OBVIOUS
<1>4. \A i \in 1 .. Len(b) : ab[Len(a) + i] = b[i]
  OBVIOUS
<1>5. Quitting = a \o b
  BY DEF Quitting, Shutdown
<1> HIDE DEF a, b, ab
<1>6. a \o b = ab
  BY <1>1, <1>2, <1>3, <1>4, ConcatIs
<1>7. QED
  BY <1>5, <1>6 DEF ab

\* What a thread goes on with.
LEMMA MainTails ==
  /\ Tail(Start) = Boot1 /\ Tail(Boot1) = Boot2 /\ Tail(Boot2) = Boot3
  /\ Tail(Boot3) = Boot4 /\ Tail(Boot4) = Boot5 /\ Tail(Boot5) = Boot6
  /\ Tail(Boot6) = AtConsole /\ Tail(AtConsole) = <<>> /\ Tail(Close) = Joining /\ Tail(Joining) = <<>>
  BY StartList
     DEF Boot1, Boot2, Boot3, Boot4, Boot5, Boot6, AtConsole, Close, Joining

LEMMA EngineTails ==
  /\ Tail(ScheduleFirstTokenEval) = Schedule2 /\ Tail(Schedule2) = Schedule3
  /\ Tail(Schedule3) = <<>> /\ Tail(Rearm) = <<>>
  /\ Tail(Quitting) = Shutdown /\ Tail(Shutdown) = Down2 /\ Tail(Down2) = Down3
  /\ Tail(Down3) = Down4 /\ Tail(Down4) = Down5 /\ Tail(Down5) = Down6
  /\ Tail(Down6) = Down7 /\ Tail(Down7) = <<>>
  BY QuittingList
     DEF ScheduleFirstTokenEval, Schedule2, Schedule3, Rearm, Shutdown, Down2, Down3, Down4,
         Down5, Down6, Down7

\* The first statement of a list, and its length, tell which list it is.
LEMMA MainHeads ==
  /\ Head(Start) = "start_receiver" /\ Head(Boot1) = "start_engine"
  /\ Head(Boot2) = "cancel_timer" /\ Head(Boot3) = "start_timer" /\ Head(Boot4) = "keep_timer"
  /\ Head(Boot5) = "start_tick" /\ Head(Boot6) = "start_monitor"
  /\ Head(AtConsole) = "console" /\ Head(Close) = "quit" /\ Head(Joining) = "join_engine"
  /\ \A q \in BootLists \cup {AtConsole, Close, Joining} : Len(q) > 0
  /\ Len(<<>>) = 0
  BY StartList
     DEF MainLists, BootLists, Boot1, Boot2, Boot3, Boot4, Boot5, Boot6, AtConsole, Close, Joining

LEMMA EngineHeads ==
  /\ Head(ScheduleFirstTokenEval) = "cancel_timer" /\ Head(Schedule2) = "start_timer"
  /\ Head(Schedule3) = "keep_timer" /\ Head(Rearm) = "start_tick"
  /\ Head(Quitting) = "stopping" /\ Head(Shutdown) = "cancel_timer"
  /\ Head(Down2) = "cancel_tick" /\ Head(Down3) = "stop_monitor" /\ Head(Down4) = "join_monitor"
  /\ Head(Down5) = "stop_transport" /\ Head(Down6) = "join_receiver" /\ Head(Down7) = "end"
  /\ Len(ScheduleFirstTokenEval) = 3 /\ Len(Shutdown) = 7
  /\ \A q \in {Rearm, Quitting} \cup ScheduleLists \cup DownLists : Len(q) > 0
  /\ Len(<<>>) = 0
  BY QuittingList
     DEF EngineLists, IdleLists, ScheduleLists, DownLists, NoTimerLists, ScheduleFirstTokenEval,
         Schedule2, Schedule3, Rearm, Shutdown, Down2, Down3, Down4, Down5, Down6, Down7

\* Lists of different kinds are different.
LEMMA MainKinds ==
  /\ AtConsole \notin BootLists /\ Close \notin BootLists /\ Joining \notin BootLists
  /\ <<>> \notin BootLists
  /\ {Boot2, Boot3, Boot4, Boot5, Boot6} \cap {Start, Boot1} = {}
<1>1. AtConsole \notin BootLists
  BY MainHeads DEF BootLists
<1>2. Close \notin BootLists
  BY MainHeads DEF BootLists
<1>3. Joining \notin BootLists
  BY MainHeads DEF BootLists
<1>4. <<>> \notin BootLists
  BY MainHeads
<1>5. {Boot2, Boot3, Boot4, Boot5, Boot6} \cap {Start, Boot1} = {}
  BY MainHeads
<1>6. QED
  BY <1>1, <1>2, <1>3, <1>4, <1>5

LEMMA EngineKinds ==
  /\ \A q \in IdleLists \cup ScheduleLists \cup {Quitting} : q \notin DownLists
  /\ \A q \in ScheduleLists \cup {Quitting} : q \notin IdleLists
  /\ Quitting \notin ScheduleLists
  /\ Shutdown \notin NoTimerLists /\ Down2 \notin NoTickLists
  /\ Down3 \notin NoMonitorLists /\ {Down4, Down5} \cap NoTransportLists = {}
  /\ NoTickLists \subseteq NoTimerLists /\ NoMonitorLists \subseteq NoTickLists
  /\ NoTransportLists \subseteq NoMonitorLists
  BY QuittingList
     DEF IdleLists, ScheduleLists, DownLists, NoTimerLists, NoTickLists, NoMonitorLists,
         NoTransportLists, ScheduleFirstTokenEval, Schedule2, Schedule3, Rearm, Shutdown,
         Down2, Down3, Down4, Down5, Down6, Down7

\* The lists that the invariants about the timers name.
LEMMA RenewalKinds ==
  /\ BeforeTimer \cap {Boot4, Boot5, Boot6, AtConsole, Close, Joining, <<>>} = {}
  /\ Boot4 \notin {Boot5, Boot6, AtConsole, Close, Joining, <<>>}
  /\ Boot3 \notin {Start, Boot1, Boot2, Boot4, Boot5, Boot6, AtConsole, Close, Joining, <<>>}
  /\ Schedule3 \notin {Schedule2, ScheduleFirstTokenEval, Quitting} \cup IdleLists \cup DownLists
  /\ Schedule2 \notin {ScheduleFirstTokenEval, Quitting} \cup IdleLists \cup DownLists
<1>1. BeforeTimer \cap {Boot4, Boot5, Boot6, AtConsole, Close, Joining, <<>>} = {}
  BY MainHeads DEF BeforeTimer, BootLists
<1>2. Boot4 \notin {Boot5, Boot6, AtConsole, Close, Joining, <<>>}
  BY MainHeads DEF BootLists
<1>3. Boot3 \notin {Start, Boot1, Boot2, Boot4, Boot5, Boot6, AtConsole, Close, Joining, <<>>}
  BY SMTT(30), MainHeads DEF BootLists
<1>4. Schedule3 \notin {Schedule2, ScheduleFirstTokenEval, Quitting} \cup IdleLists \cup DownLists
  BY SMTT(30), EngineHeads DEF IdleLists, ScheduleLists, DownLists, NoTimerLists
<1>5. Schedule2 \notin {ScheduleFirstTokenEval, Quitting} \cup IdleLists \cup DownLists
  BY SMTT(30), EngineHeads DEF IdleLists, ScheduleLists, DownLists, NoTimerLists
<1>6. QED
  BY <1>1, <1>2, <1>3, <1>4, <1>5

\* The list of a statement that a thread is at, and the one it goes on with.
LEMMA MainAt ==
  ASSUME todo \in [main : MainLists, engine : EngineLists], NEW s, At("main", s)
  PROVE  /\ todo'.engine = todo.engine
         /\ todo' \in [main : MainLists, engine : EngineLists]
         /\ s = "start_receiver" => todo.main = Start /\ todo'.main = Boot1
         /\ s = "start_engine" => todo.main = Boot1 /\ todo'.main = Boot2
         /\ s = "cancel_timer" => todo.main = Boot2 /\ todo'.main = Boot3
         /\ s = "start_timer" => todo.main = Boot3 /\ todo'.main = Boot4
         /\ s = "keep_timer" => todo.main = Boot4 /\ todo'.main = Boot5
         /\ s = "start_tick" => todo.main = Boot5 /\ todo'.main = Boot6
         /\ s = "start_monitor" => todo.main = Boot6 /\ todo'.main = AtConsole
         /\ s = "quit" => todo.main = Close /\ todo'.main = Joining
         /\ s = "join_engine" => todo.main = Joining /\ todo'.main = <<>>
<1>1. todo.main \in MainLists /\ todo.main # <<>> /\ Head(todo.main) = s
  BY DEF At
<1>2. todo'.main = Tail(todo.main) /\ todo'.engine = todo.engine
  BY DEF At
<1>3. Tail(todo.main) \in MainLists
  <2>1. CASE todo.main = AtConsole
    BY <2>1 DEF AtConsole, MainLists
  <2>2. CASE todo.main # AtConsole
    BY <1>1, <2>2, MainTails DEF MainLists, BootLists
  <2>3. QED
    BY <2>1, <2>2
<1>4. todo' \in [main : MainLists, engine : EngineLists]
  BY <1>3 DEF At
<1>5. QED
  BY ZenonT(60), <1>1, <1>2, <1>4, MainHeads, MainTails DEF MainLists, BootLists

LEMMA EngineAt ==
  ASSUME todo \in [main : MainLists, engine : EngineLists], NEW s, At("engine", s)
  PROVE  /\ todo'.main = todo.main
         /\ todo' \in [main : MainLists, engine : EngineLists]
         /\ s = "cancel_timer" => \/ todo.engine = ScheduleFirstTokenEval /\ todo'.engine = Schedule2
                                  \/ todo.engine = Shutdown /\ todo'.engine = Down2
         /\ s = "start_timer" => todo.engine = Schedule2 /\ todo'.engine = Schedule3
         /\ s = "keep_timer" => todo.engine = Schedule3 /\ todo'.engine = <<>>
         /\ s = "start_tick" => todo.engine = Rearm /\ todo'.engine = <<>>
         /\ s = "stopping" => todo.engine = Quitting /\ todo'.engine = Shutdown
         /\ s = "cancel_tick" => todo.engine = Down2 /\ todo'.engine = Down3
         /\ s = "stop_monitor" => todo.engine = Down3 /\ todo'.engine = Down4
         /\ s = "join_monitor" => todo.engine = Down4 /\ todo'.engine = Down5
         /\ s = "stop_transport" => todo.engine = Down5 /\ todo'.engine = Down6
         /\ s = "join_receiver" => todo.engine = Down6 /\ todo'.engine = Down7
         /\ s = "end" => todo.engine = Down7 /\ todo'.engine = <<>>
<1>1. todo.engine \in EngineLists /\ todo.engine # <<>> /\ Head(todo.engine) = s
  BY DEF At
<1>2. todo'.engine = Tail(todo.engine) /\ todo'.main = todo.main
  BY DEF At
<1>3. Tail(todo.engine) \in EngineLists
  BY <1>1, EngineTails DEF EngineLists, IdleLists, ScheduleLists, DownLists, NoTimerLists
<1>4. todo' \in [main : MainLists, engine : EngineLists]
  BY <1>3 DEF At
<1>5. /\ s = "cancel_timer" => todo.engine \in {ScheduleFirstTokenEval, Shutdown}
      /\ s = "start_timer" => todo.engine = Schedule2
      /\ s = "keep_timer" => todo.engine = Schedule3
      /\ s = "start_tick" => todo.engine = Rearm
      /\ s = "stopping" => todo.engine = Quitting
      /\ s = "cancel_tick" => todo.engine = Down2
      /\ s = "stop_monitor" => todo.engine = Down3
      /\ s = "join_monitor" => todo.engine = Down4
      /\ s = "stop_transport" => todo.engine = Down5
      /\ s = "join_receiver" => todo.engine = Down6
      /\ s = "end" => todo.engine = Down7
  BY <1>1, EngineHeads DEF EngineLists, IdleLists, ScheduleLists, DownLists, NoTimerLists
<1>6. s = "cancel_timer" => \/ todo.engine = ScheduleFirstTokenEval /\ todo'.engine = Schedule2
                            \/ todo.engine = Shutdown /\ todo'.engine = Down2
  BY <1>2, <1>5, EngineTails
<1>7. QED
  BY ZenonT(60), <1>2, <1>4, <1>5, <1>6, EngineTails

-----------------------------------------------------------------------------
\* The threads, whenever members announce themselves

\* post() keeps the bus a sequence of events.
LEMMA PostsKeeps ==
  ASSUME NEW S, bus \in Seq(S), NEW e \in S, Posts(e)
  PROVE  bus' \in Seq(S)
  BY AppendProperties DEF Posts

\* _schedule_first_token_eval: cancel() changes at most the timer kept.
LEMMA CancelTimers ==
  ASSUME timers \in Seq(TimerStates), NEW th, CancelTimer(th)
  PROVE  /\ timers' \in Seq(TimerStates)
         /\ Len(timers') = Len(timers)
         /\ DOMAIN timers' = DOMAIN timers
         /\ \A t \in DOMAIN timers :
              timers'[t] = IF t = kept /\ timers[t] = "running" THEN "cancelled" ELSE timers[t]
<1>1. timers' = [t \in DOMAIN timers |->
                   IF t = kept /\ timers[t] = "running" THEN "cancelled" ELSE timers[t]]
  BY DEF CancelTimer
<1>2. DOMAIN timers = 1 .. Len(timers) /\ Len(timers) \in Nat
  BY LenProperties
<1>3. \A t \in 1 .. Len(timers) : timers[t] \in TimerStates
  BY ElementOfSeq
<1>4. timers' \in [1 .. Len(timers) -> TimerStates]
  BY <1>1, <1>2, <1>3 DEF TimerStates
<1>5. timers' \in Seq(TimerStates)
  BY <1>2, <1>4, SeqDef
<1>6. Len(timers') = Len(timers)
  BY <1>2, <1>4
<1>7. QED
  BY <1>1, <1>5, <1>6

\* A new timer runs, and those before it are as they were.
LEMMA StartTimers ==
  ASSUME timers \in Seq(TimerStates), NEW th, StartTimer(th)
  PROVE  /\ timers' \in Seq(TimerStates)
         /\ Len(timers') = Len(timers) + 1
         /\ DOMAIN timers' = 1 .. Len(timers) + 1
         /\ \A t \in DOMAIN timers : timers'[t] = timers[t]
         /\ timers'[Len(timers) + 1] = "running"
<1>1. timers' = Append(timers, "running") /\ "running" \in TimerStates
  BY DEF StartTimer, TimerStates
<1>2. DOMAIN timers = 1 .. Len(timers)
  BY LenProperties
<1>3. DOMAIN timers' = 1 .. Len(timers')
  BY <1>1, AppendProperties, LenProperties
<1>4. QED
  BY <1>1, <1>2, <1>3, AppendProperties

\* A timer whose time is over, and one that posts, were not cancelled.
LEMMA OverTimers ==
  ASSUME timers \in Seq(TimerStates), NEW t \in DOMAIN timers, TimerElapses(t) \/ TimerPosts(t)
  PROVE  /\ timers' \in Seq(TimerStates)
         /\ Len(timers') = Len(timers)
         /\ DOMAIN timers' = DOMAIN timers
         /\ \A u \in DOMAIN timers \ {t} : timers'[u] = timers[u]
         /\ timers'[t] \in {"posting", "fired"}
<1>1. PICK v \in {"posting", "fired"} : timers' = [timers EXCEPT ![t] = v]
  BY DEF TimerElapses, TimerPosts
<1>2. t \in 1 .. Len(timers) /\ v \in TimerStates
  BY LenProperties DEF TimerStates
<1>3. QED
  BY <1>1, <1>2, ExceptSeq

LEMMA TypesStep ==
  ASSUME Types, [Next]_vars
  PROVE  Types'
<1> USE DEF Types
<1>1. ASSUME NEW th \in {"main", "engine"}, NEW s, At(th, s)
      PROVE  todo' \in [main : MainLists, engine : EngineLists]
  BY <1>1, MainAt, EngineAt
<1>2. Len(timers) \in Nat
  BY LenProperties
<1>3. ASSUME NEW th \in {"main", "engine"}, CancelTimer(th)
      PROVE  Types'
  BY <1>1, <1>3, CancelTimers DEF CancelTimer
<1>4. ASSUME NEW th \in {"main", "engine"}, StartTimer(th)
      PROVE  Types'
  <2>1. timers' \in Seq(TimerStates) /\ Len(timers') = Len(timers) + 1
    BY <1>4, StartTimers
  <2>2. made' \in [main : 0 .. Len(timers'), engine : 0 .. Len(timers')]
    BY <1>2, <1>4, <2>1 DEF StartTimer
  <2>3. kept' \in 0 .. Len(timers')
    BY <1>2, <1>4, <2>1 DEF StartTimer
  <2>4. QED
    BY <1>1, <1>4, <2>1, <2>2, <2>3 DEF StartTimer
<1>5. ASSUME NEW th \in {"main", "engine"}, KeepTimer(th)
      PROVE  Types'
  BY <1>1, <1>2, <1>5 DEF KeepTimer
<1>6. ASSUME NEW th \in {"main", "engine"}, StartTick(th)
      PROVE  Types'
  BY <1>1, <1>2, <1>6 DEF StartTick
<1>7. CASE StartThread
  BY <1>1, <1>2, <1>7 DEF StartThread
<1>8. CASE Quit
  <2>1. todo' \in [main : MainLists, engine : EngineLists]
    BY <1>8 DEF Quit, MainLists
  <2>2. bus' \in Seq(Events)
    BY <1>8, PostsKeeps DEF Quit, Events
  <2>3. QED
    BY <1>8, <2>1, <2>2 DEF Quit
<1>9. CASE QuitAgain
  <2>1. bus' \in Seq(Events)
    BY <1>9, PostsKeeps DEF QuitAgain, Events
  <2>2. QED
    BY <1>1, <1>9, <2>1 DEF QuitAgain
<1>10. ASSUME NEW t \in DOMAIN timers, TimerElapses(t)
       PROVE  Types'
  BY ZenonT(60), <1>10, OverTimers DEF TimerElapses
<1>11. CASE TakeEvent
  <2>1. bus' \in Seq(Events)
    BY <1>11, HeadTailProperties DEF TakeEvent
  <2>2. Handler(Head(bus)) \in EngineLists
    BY DEF Handler, EngineLists, IdleLists, ScheduleLists, Rearm, Quitting
  <2>3. QED
    BY <1>11, <2>1, <2>2 DEF TakeEvent
<1>12. CASE SetFlag
  BY <1>1, <1>12 DEF SetFlag
<1>13. CASE CancelTick
  BY <1>1, <1>13 DEF CancelTick
<1>14. CASE Join
  BY <1>1, <1>14 DEF Join
<1>15. CASE EngineEnds
  BY <1>1, <1>15 DEF EngineEnds
<1>16. CASE Receive
  BY <1>16 DEF Receive
<1>17. CASE PostRx
  <2>1. bus' \in Seq(Events)
    BY <1>17, PostsKeeps DEF PostRx, Events, QuietEvents
  <2>2. QED
    BY <1>17, <2>1 DEF PostRx
<1>18. CASE ReceiverEnds
  BY <1>18 DEF ReceiverEnds
<1>19. CASE Alarm
  BY <1>19 DEF Alarm
<1>20. CASE OnTimeout
  <2>1. bus' \in Seq(Events)
    BY <1>20, PostsKeeps DEF OnTimeout, Events, QuietEvents
  <2>2. QED
    BY <1>20, <2>1 DEF OnTimeout
<1>21. CASE MonitorEnds
  BY <1>21 DEF MonitorEnds
<1>22. ASSUME NEW t \in DOMAIN timers, TimerPosts(t)
       PROVE  Types'
  <2>1. bus' \in Seq(Events)
    BY <1>22, PostsKeeps DEF TimerPosts, Events, QuietEvents
  <2>2. QED
    BY ZenonT(60), <1>22, <2>1, OverTimers DEF TimerPosts
<1>23. CASE TickFires
  <2>1. bus' \in Seq(Events)
    BY <1>23, PostsKeeps DEF TickFires, Events, QuietEvents
  <2>2. QED
    BY <1>23, <2>1 DEF TickFires
<1>24. CASE UNCHANGED vars
  BY <1>24 DEF vars
<1>25. QED
  BY <1>3, <1>4, <1>5, <1>6, <1>7, <1>8, <1>9, <1>10, <1>11, <1>12, <1>13, <1>14, <1>15, <1>16,
     <1>17, <1>18, <1>19, <1>20, <1>21, <1>22, <1>23, <1>24
     DEF Next, Statement, Others, Done

\* _stopping is set first, and nothing of the engine's comes after the end.
LEMMA StagesStep ==
  ASSUME Types, Stages, [Next]_vars
  PROVE  Stages'
<1> USE DEF Stages
<1>1. todo \in [main : MainLists, engine : EngineLists]
  BY DEF Types
<1>2. ASSUME NEW s, At("main", s)
      PROVE  /\ todo'.engine = todo.engine
             /\ todo'.main \in {Start, Boot1} => todo.main = Start
  <2>1. todo.main \in MainLists /\ todo.main # <<>> /\ todo'.main = Tail(todo.main)
    BY <1>1, <1>2 DEF At
  <2>2. ASSUME todo.main # Start
        PROVE  todo'.main \notin {Start, Boot1}
    <3>1. todo'.main \in {Boot2, Boot3, Boot4, Boot5, Boot6, AtConsole, Joining, <<>>}
      BY <2>1, <2>2, MainTails DEF MainLists, BootLists
    <3>2. QED
      BY <3>1, MainKinds DEF BootLists
  <2>3. QED
    BY <1>1, <1>2, <2>2, MainAt
<1>3. ASSUME NEW s, At("engine", s), s \notin {"stopping", "end"}
      PROVE  /\ todo'.main = todo.main
             /\ status.engine = "on"
             /\ todo'.engine \in DownLists <=> todo.engine \in DownLists
  <2>1. todo'.main = todo.main /\ todo.engine # <<>> /\ todo'.engine = Tail(todo.engine)
    BY <1>1, <1>3, EngineAt DEF At
  <2>2. todo.engine \in EngineLists \ {<<>>, Quitting, Down7}
    BY <1>1, <1>3, EngineHeads DEF At
  <2>3. CASE todo.engine \in DownLists
    BY <2>1, <2>2, <2>3, EngineTails DEF DownLists, NoTimerLists
  <2>4. CASE todo.engine \notin DownLists
    <3>1. todo'.engine \in {<<>>} \cup ScheduleLists
      BY <2>1, <2>2, <2>4, EngineTails DEF EngineLists, IdleLists, ScheduleLists
    <3>2. QED
      BY <2>1, <2>4, <3>1, EngineKinds DEF IdleLists
  <2>5. QED
    BY <2>1, <2>3, <2>4
<1>4. ASSUME NEW s, At("main", s), UNCHANGED <<status, flags>>
      PROVE  Stages'
  BY <1>2, <1>4 DEF Leaving
<1>5. ASSUME NEW s, At("engine", s), s \notin {"stopping", "end"}, UNCHANGED <<status, flags>>
      PROVE  Stages'
  BY <1>3, <1>5 DEF Leaving
<1>6. ASSUME NEW th \in {"main", "engine"},
             CancelTimer(th) \/ StartTimer(th) \/ KeepTimer(th) \/ StartTick(th)
      PROVE  Stages'
  BY <1>4, <1>5, <1>6 DEF CancelTimer, StartTimer, KeepTimer, StartTick
<1>7. CASE StartThread
  <2>1. CASE At("main", "start_receiver") /\ status' = [status EXCEPT !.receiver = "recvfrom"]
    BY <1>2, <1>7, <2>1 DEF StartThread, Leaving, Types
  <2>2. CASE At("main", "start_engine") /\ status' = [status EXCEPT !.engine = "on"]
    <3>1. todo.main = Boot1 /\ todo'.main = Boot2 /\ todo'.engine = todo.engine
      BY <1>1, <2>2, MainAt
    <3>2. status.engine = "off" /\ todo.engine = <<>> /\ status'.engine = "on"
      BY <2>2, <3>1 DEF Types
    <3>3. QED
      BY <1>7, <3>1, <3>2, MainKinds DEF StartThread, Leaving
  <2>3. CASE At("main", "start_monitor") /\ status' = [status EXCEPT !.monitor = "loop"]
    BY <1>2, <1>7, <2>3 DEF StartThread, Leaving, Types
  <2>4. QED
    BY <1>7, <2>1, <2>2, <2>3 DEF StartThread
<1>8. CASE Quit
  <2>1. todo'.main = Close /\ todo'.engine = todo.engine
    BY <1>1, <1>8 DEF Quit
  <2>2. QED
    BY <1>8, <2>1, MainKinds DEF Quit, Leaving, BootLists
<1>9. CASE QuitAgain
  BY <1>4, <1>9 DEF QuitAgain
<1>10. CASE TakeEvent
  <2>1. todo'.main = todo.main /\ todo'.engine = Handler(Head(bus))
    BY <1>1, <1>10 DEF TakeEvent
  <2>2. Handler(Head(bus)) \in IdleLists \cup ScheduleLists \cup {Quitting}
    BY DEF Handler, IdleLists, ScheduleLists, Rearm, Quitting
  <2>3. todo.engine \notin DownLists
    BY <1>10, EngineKinds DEF TakeEvent, IdleLists
  <2>4. QED
    BY <1>10, <2>1, <2>2, <2>3, EngineKinds DEF TakeEvent, Leaving
<1>11. CASE SetFlag
  <2>1. CASE At("engine", "stopping") /\ flags' = [flags EXCEPT !.stopping = TRUE]
    <3>1. todo'.engine = Shutdown /\ todo'.main = todo.main /\ todo.engine # <<>>
      BY <1>1, <2>1, EngineAt DEF At
    <3>2. flags'.stopping
      BY <2>1 DEF Types
    <3>3. QED
      BY <1>11, <2>1, <3>1, <3>2 DEF SetFlag, Leaving, DownLists
  <2>2. CASE At("engine", "stop_monitor") /\ flags' = [flags EXCEPT !.monitor = TRUE]
    <3>1. todo.engine \in DownLists
      BY <1>1, <2>2, EngineAt DEF DownLists, NoTimerLists
    <3>2. flags'.stopping = flags.stopping
      BY <2>2 DEF Types
    <3>3. QED
      BY <1>3, <1>11, <2>2, <3>1, <3>2 DEF SetFlag, Leaving
  <2>3. CASE At("engine", "stop_transport") /\ flags' = [flags EXCEPT !.transport = TRUE]
    <3>1. todo.engine \in DownLists
      BY <1>1, <2>3, EngineAt DEF DownLists, NoTimerLists
    <3>2. flags'.stopping = flags.stopping
      BY <2>3 DEF Types
    <3>3. QED
      BY <1>3, <1>11, <2>3, <3>1, <3>2 DEF SetFlag, Leaving
  <2>4. QED
    BY <1>11, <2>1, <2>2, <2>3 DEF SetFlag
<1>12. CASE CancelTick
  BY <1>5, <1>12 DEF CancelTick
<1>13. CASE Join
  BY <1>4, <1>5, <1>13 DEF Join
<1>14. CASE EngineEnds
  <2>1. /\ todo.engine = Down7
        /\ todo'.engine = <<>>
        /\ todo'.main = todo.main
        /\ status.engine = "on"
    BY <1>1, <1>14, EngineAt DEF EngineEnds, At
  <2>2. flags.stopping
    BY <2>1 DEF Leaving, DownLists, NoTimerLists
  <2>3. status'.engine = "ended" /\ flags' = flags
    BY <1>14 DEF EngineEnds, Types
  <2>4. todo'.main \notin {Start, Boot1}
    BY <2>1
  <2>5. QED
    BY <2>1, <2>2, <2>3, <2>4 DEF Leaving
<1>15. CASE Receive \/ PostRx \/ ReceiverEnds \/ Alarm \/ OnTimeout \/ MonitorEnds
  <2>1. status'.engine = status.engine /\ UNCHANGED <<todo, flags>>
    BY <1>15 DEF Receive, PostRx, ReceiverEnds, Alarm, OnTimeout, MonitorEnds, Types
  <2>2. QED
    BY <2>1 DEF Leaving
<1>16. CASE TickFires \/ UNCHANGED vars
  BY <1>16 DEF TickFires, vars, Leaving
<1>17. ASSUME NEW t \in DOMAIN timers, TimerElapses(t) \/ TimerPosts(t)
       PROVE  Stages'
  BY <1>17 DEF TimerElapses, TimerPosts, Leaving
<1>18. QED
  BY <1>6, <1>7, <1>8, <1>9, <1>10, <1>11, <1>12, <1>13, <1>14, <1>15, <1>16, <1>17
     DEF Next, Statement, Others, Done

\* The threads are consistent from the start.
LEMMA ThreadsInit ==
  ASSUME Init
  PROVE  ThreadsInv
<1>1. timers \in Seq(TimerStates) /\ Len(timers) = 0 /\ bus \in Seq(Events)
  BY EmptySeq DEF Init
<1>2. todo = [main |-> Start, engine |-> <<>>] /\ todo \in [main : MainLists, engine : EngineLists]
  BY DEF Init, MainLists, BootLists, EngineLists, IdleLists
<1>3. /\ flags \in [stopping : BOOLEAN, monitor : BOOLEAN, transport : BOOLEAN]
      /\ ~flags.stopping /\ ~flags.monitor /\ ~flags.transport
  BY DEF Init
<1>4. Types
  <2>1. kept = 0 /\ made = [main |-> 0, engine |-> 0] /\ tick = FALSE
    BY DEF Init
  <2>2. status = [engine |-> "off", receiver |-> "off", monitor |-> "off"]
    BY DEF Init
  <2>3. made \in [main : 0 .. Len(timers), engine : 0 .. Len(timers)] /\ kept \in 0 .. Len(timers)
    BY <1>1, <2>1
  <2>4. QED
    BY <1>1, <1>2, <1>3, <2>1, <2>2, <2>3 DEF Types
<1>5. todo.engine \notin DownLists
  BY <1>2, EngineKinds DEF IdleLists
<1>6. status.engine = "off"
  BY DEF Init
<1>7. Stages
  BY <1>2, <1>3, <1>5, <1>6 DEF Stages, Leaving
<1>8. QED
  BY <1>4, <1>7 DEF ThreadsInv

-----------------------------------------------------------------------------
\* start() is over before a user quits

\* While start() runs the engine handles no CMD_QUIT.
LEMMA BootStep ==
  ASSUME ThreadsInv, BootInv, [Next]_vars
  PROVE  BootInv'
<1> SUFFICES ASSUME todo'.main \in BootLists
             PROVE  BootInv'
  BY DEF BootInv
<1>1. todo \in [main : MainLists, engine : EngineLists]
  BY DEF ThreadsInv, Types
<1>2. ASSUME NEW s, At("main", s)
      PROVE  /\ todo.main \in BootLists /\ todo'.engine = todo.engine
             /\ s \notin {"quit", "join_engine"}
  <2>1. todo.main \in MainLists /\ todo.main # <<>> /\ todo'.main = Tail(todo.main)
    BY <1>1, <1>2 DEF At
  <2>2. todo.main \notin {AtConsole, Close, Joining}
    BY <2>1, MainTails, MainKinds
  <2>3. QED
    BY <1>1, <1>2, <2>1, <2>2, MainAt DEF MainLists
<1>3. todo.main \in BootLists
  <2>1. ASSUME NEW s, At("engine", s)
        PROVE  todo'.main = todo.main
    BY <1>1, <2>1, EngineAt
  <2>2. ~Quit
    BY <1>1, MainKinds DEF Quit
  <2>3. TakeEvent => todo'.main = todo.main
    BY <1>1 DEF TakeEvent
  <2>4. QED
    BY <1>2, <2>1, <2>2, <2>3
       DEF Next, Statement, Others, Done, CancelTimer, StartTimer, KeepTimer, StartTick, StartThread,
           QuitAgain, SetFlag, CancelTick, Join, EngineEnds, Receive, PostRx, ReceiverEnds, Alarm,
           OnTimeout, MonitorEnds, TimerElapses, TimerPosts, TickFires, vars
<1>4. /\ status.engine # "ended"
      /\ todo.engine \in IdleLists \cup ScheduleLists
      /\ bus \in Seq(QuietEvents)
  BY <1>3 DEF BootInv
<1>5. ASSUME NEW s, At("engine", s)
      PROVE  /\ s \in {"cancel_timer", "start_timer", "keep_timer", "start_tick"}
             /\ todo'.engine \in IdleLists \cup ScheduleLists
  <2>1. todo.engine \in {Rearm} \cup ScheduleLists
    BY <1>4, <1>5 DEF At, IdleLists
  <2>2. Head(todo.engine) = s /\ todo'.engine = Tail(todo.engine)
    BY <1>1, <1>5 DEF At
  <2>3. s \in {"cancel_timer", "start_timer", "keep_timer", "start_tick"}
    BY <2>1, <2>2, EngineHeads DEF ScheduleLists
  <2>4. todo'.engine \in {Schedule2, Schedule3, <<>>}
    BY <2>1, <2>2, EngineTails DEF ScheduleLists
  <2>5. QED
    BY <2>3, <2>4 DEF IdleLists, ScheduleLists
<1>6. ASSUME NEW e \in QuietEvents, Posts(e)
      PROVE  bus' \in Seq(QuietEvents)
  BY <1>4, <1>6, PostsKeeps
<1>7. ASSUME NEW th \in {"main", "engine"},
             CancelTimer(th) \/ StartTimer(th) \/ KeepTimer(th) \/ StartTick(th)
      PROVE  BootInv'
  BY <1>2, <1>4, <1>5, <1>7 DEF BootInv, CancelTimer, StartTimer, KeepTimer, StartTick
<1>8. CASE StartThread
  BY <1>2, <1>4, <1>8 DEF BootInv, StartThread, ThreadsInv, Types
<1>9. ~Quit /\ ~QuitAgain /\ ~SetFlag /\ ~CancelTick /\ ~Join /\ ~EngineEnds
  BY <1>2, <1>3, <1>5, MainKinds
     DEF Quit, QuitAgain, SetFlag, CancelTick, Join, EngineEnds, AtConsole
<1>10. CASE TakeEvent
  <2>1. bus' \in Seq(QuietEvents) /\ Head(bus) \in QuietEvents
    BY <1>4, <1>10, HeadTailProperties DEF TakeEvent
  <2>2. Handler(Head(bus)) \in IdleLists \cup ScheduleLists
    BY <2>1 DEF Handler, QuietEvents, IdleLists, ScheduleLists, Rearm
  <2>3. QED
    BY <1>1, <1>4, <1>10, <2>1, <2>2 DEF BootInv, TakeEvent
<1>11. CASE Receive \/ ReceiverEnds \/ Alarm \/ MonitorEnds
  BY <1>4, <1>11 DEF BootInv, Receive, ReceiverEnds, Alarm, MonitorEnds, ThreadsInv, Types
<1>12. CASE PostRx \/ OnTimeout
  <2>1. bus' \in Seq(QuietEvents)
    BY <1>6, <1>12 DEF PostRx, OnTimeout, QuietEvents
  <2>2. QED
    BY <1>4, <1>12, <2>1 DEF BootInv, PostRx, OnTimeout, ThreadsInv, Types
<1>13. ASSUME NEW t \in DOMAIN timers, TimerElapses(t) \/ TimerPosts(t)
       PROVE  BootInv'
  <2>1. bus' \in Seq(QuietEvents)
    BY <1>4, <1>6, <1>13 DEF TimerElapses, TimerPosts, QuietEvents
  <2>2. QED
    BY <1>4, <1>13, <2>1 DEF BootInv, TimerElapses, TimerPosts
<1>14. CASE TickFires
  <2>1. bus' \in Seq(QuietEvents)
    BY <1>6, <1>14 DEF TickFires, QuietEvents
  <2>2. QED
    BY <1>4, <1>14, <2>1 DEF BootInv, TickFires
<1>15. CASE UNCHANGED vars
  BY <1>4, <1>15 DEF BootInv, vars
<1>16. QED
  BY <1>7, <1>8, <1>9, <1>10, <1>11, <1>12, <1>13, <1>14, <1>15 DEF Next, Statement, Others, Done

-----------------------------------------------------------------------------
\* The timers that are running

\* What the steps of a timer do to those that are running.
LEMMA CancelRunning ==
  ASSUME timers \in Seq(TimerStates), NEW th, CancelTimer(th)
  PROVE  Running' = Running \ {kept}
<1>1. \A t \in DOMAIN timers :
        timers'[t] = IF t = kept /\ timers[t] = "running" THEN "cancelled" ELSE timers[t]
  BY CancelTimers
<1>2. DOMAIN timers' = DOMAIN timers
  BY CancelTimers
<1>3. QED
  BY <1>1, <1>2 DEF Running

LEMMA StartRunning ==
  ASSUME timers \in Seq(TimerStates), NEW th, StartTimer(th)
  PROVE  Running' = Running \cup {Len(timers) + 1}
<1>1. DOMAIN timers = 1 .. Len(timers) /\ Len(timers) \in Nat
  BY LenProperties
<1>2. DOMAIN timers' = DOMAIN timers \cup {Len(timers) + 1} /\ Len(timers) + 1 \notin DOMAIN timers
  <2>1. DOMAIN timers' = 1 .. Len(timers) + 1
    BY StartTimers
  <2>2. QED
    BY <1>1, <2>1
<1>3. QED
  BY <1>2, StartTimers DEF Running

LEMMA OverRunning ==
  ASSUME timers \in Seq(TimerStates), NEW t \in DOMAIN timers, TimerElapses(t) \/ TimerPosts(t)
  PROVE  Running' \subseteq Running
  BY OverTimers DEF Running

\* A step of _schedule_first_token_eval, or of the shutdown.
Renews == \E th \in {"main", "engine"} : CancelTimer(th) \/ StartTimer(th) \/ KeepTimer(th)

\* A step that neither starts, cancels nor keeps a timer leaves the threads
\* where they are in _schedule_first_token_eval; a timer's time may be over.
Calm ==
  /\ Running' \subseteq Running /\ UNCHANGED <<kept, made>>
  /\ todo'.main \in BeforeTimer => todo.main \in BeforeTimer
  /\ todo'.main = Boot3 <=> todo.main = Boot3
  /\ todo'.main = Boot4 <=> todo.main = Boot4
  /\ todo'.engine = Schedule2 <=> todo.engine = Schedule2
  /\ todo'.engine = Schedule3 <=> todo.engine = Schedule3
  /\ NoSlot' <=> NoSlot
  /\ \/ UNCHANGED timers
     \/ \E t \in DOMAIN timers : TimerElapses(t) \/ TimerPosts(t)

LEMMA StepKinds ==
  ASSUME ThreadsInv, [Next]_vars
  PROVE  Renews \/ Calm
<1>1. todo \in [main : MainLists, engine : EngineLists] /\ timers \in Seq(TimerStates)
  BY DEF ThreadsInv, Types
<1>2. UNCHANGED timers => Running' \subseteq Running
  BY DEF Running
<1>3. ASSUME NEW s, At("main", s), s \notin {"cancel_timer", "start_timer", "keep_timer"}
      PROVE  /\ todo'.main \in BeforeTimer => todo.main \in BeforeTimer
             /\ todo'.main = Boot3 <=> todo.main = Boot3
             /\ todo'.main = Boot4 <=> todo.main = Boot4
             /\ todo'.engine = todo.engine
  <2>1. todo.main \in MainLists \ {<<>>, Boot2, Boot3, Boot4} /\ todo'.main = Tail(todo.main)
    BY <1>1, <1>3, MainHeads DEF At
  <2>2. \/ todo.main \in {Start, Boot1} /\ todo'.main \in {Boot1, Boot2}
        \/ todo.main \in {Boot5, Boot6, AtConsole, Close, Joining}
           /\ todo'.main \in {Boot6, AtConsole, Joining, <<>>}
    BY <2>1, MainTails DEF MainLists, BootLists
  <2>3. todo.main # Boot3 /\ todo'.main # Boot3 /\ todo.main # Boot4 /\ todo'.main # Boot4
    BY <2>1, <2>2, RenewalKinds DEF BeforeTimer
  <2>4. todo'.main \in BeforeTimer => todo.main \in BeforeTimer
    BY <2>2, RenewalKinds DEF BeforeTimer
  <2>5. QED
    BY <1>1, <1>3, <2>3, <2>4, MainAt
<1>4. ASSUME NEW s, At("engine", s), s \notin {"cancel_timer", "start_timer", "keep_timer", "end"}
      PROVE  /\ todo'.main = todo.main
             /\ todo'.engine = Schedule2 <=> todo.engine = Schedule2
             /\ todo'.engine = Schedule3 <=> todo.engine = Schedule3
             /\ todo'.engine \in NoTimerLists <=> todo.engine \in NoTimerLists
  <2>1. todo.engine \in EngineLists \ ({<<>>, Shutdown, Down7} \cup ScheduleLists)
        /\ todo'.engine = Tail(todo.engine)
    BY <1>1, <1>4, EngineHeads DEF At, ScheduleLists
  <2>2. \/ todo.engine \in {Rearm, Quitting} /\ todo'.engine \in {<<>>, Shutdown}
        \/ todo.engine \in NoTimerLists /\ todo'.engine \in NoTimerLists
    BY <2>1, EngineTails DEF EngineLists, IdleLists, DownLists, NoTimerLists
  <2>3. todo.engine # Schedule2 /\ todo'.engine # Schedule2
    BY <2>2, RenewalKinds DEF IdleLists, DownLists
  <2>4. todo.engine # Schedule3 /\ todo'.engine # Schedule3
    BY <2>2, RenewalKinds DEF IdleLists, DownLists
  <2>5. todo.engine \in {Rearm, Quitting} =>
          todo.engine \notin NoTimerLists /\ todo'.engine \notin NoTimerLists
    BY <2>2, EngineKinds DEF IdleLists, DownLists
  <2>6. QED
    BY <1>1, <1>4, <2>2, <2>3, <2>4, <2>5, EngineAt
<1>5. ASSUME NEW s, At("main", s), s \notin {"cancel_timer", "start_timer", "keep_timer"},
             UNCHANGED <<timers, kept, made>>, status'.engine = "ended" <=> status.engine = "ended"
      PROVE  Calm
  BY <1>2, <1>3, <1>5 DEF NoSlot, Calm
<1>6. ASSUME NEW s, At("engine", s), s \notin {"cancel_timer", "start_timer", "keep_timer", "end"},
             UNCHANGED <<timers, kept, made, status>>
      PROVE  Calm
  BY <1>2, <1>4, <1>6 DEF NoSlot, Calm
<1>7. ASSUME NEW th \in {"main", "engine"}, StartTick(th)
      PROVE  Calm
  BY <1>5, <1>6, <1>7 DEF StartTick
<1>8. CASE StartThread
  <2>1. \E s \in {"start_receiver", "start_engine", "start_monitor"} : At("main", s)
    BY <1>8 DEF StartThread
  <2>2. status'.engine = "ended" <=> status.engine = "ended"
    <3>1. At("main", "start_engine") => status.engine = "off"
      BY <1>1, MainAt DEF ThreadsInv, Stages
    <3>2. QED
      BY <1>8, <3>1 DEF StartThread, ThreadsInv, Types
  <2>3. QED
    BY <1>5, <1>8, <2>1, <2>2 DEF StartThread
<1>9. CASE QuitAgain
  BY <1>5, <1>9 DEF QuitAgain
<1>10. CASE SetFlag
  BY <1>6, <1>10 DEF SetFlag
<1>11. CASE CancelTick
  BY <1>6, <1>11 DEF CancelTick
<1>12. CASE Join
  BY <1>5, <1>6, <1>12 DEF Join
<1>13. CASE EngineEnds
  <2>1. todo.engine = Down7 /\ todo'.engine = <<>> /\ todo'.main = todo.main
    BY <1>1, <1>13, EngineAt DEF EngineEnds
  <2>2. NoSlot /\ NoSlot'
    BY <1>13, <2>1 DEF NoSlot, NoTimerLists, EngineEnds, ThreadsInv, Types
  <2>3. todo.engine \notin {Schedule2, Schedule3} /\ todo'.engine \notin {Schedule2, Schedule3}
    BY <2>1, RenewalKinds DEF IdleLists, DownLists, NoTimerLists
  <2>4. QED
    BY <1>2, <1>13, <2>1, <2>2, <2>3 DEF EngineEnds, Calm
<1>14. CASE Quit
  <2>1. todo.main = AtConsole /\ todo'.main = Close /\ todo'.engine = todo.engine
    BY <1>1, <1>14 DEF Quit, AtConsole
  <2>2. QED
    BY <1>2, <1>14, <2>1, RenewalKinds DEF Quit, NoSlot, Calm
<1>15. CASE TakeEvent
  <2>1. todo'.main = todo.main /\ todo.engine = <<>> /\ todo'.engine = Handler(Head(bus))
    BY <1>1, <1>15 DEF TakeEvent
  <2>2. Handler(Head(bus)) \in IdleLists \cup {ScheduleFirstTokenEval, Quitting}
    BY DEF Handler, IdleLists, Rearm, Quitting
  <2>3. todo.engine \notin {Schedule2, Schedule3} /\ todo'.engine \notin {Schedule2, Schedule3}
    BY <2>1, <2>2, RenewalKinds DEF IdleLists
  <2>4. todo.engine \notin NoTimerLists /\ todo'.engine \notin NoTimerLists
    BY <2>1, <2>2, EngineKinds DEF IdleLists, ScheduleLists, DownLists
  <2>5. QED
    BY <1>2, <1>15, <2>1, <2>3, <2>4 DEF TakeEvent, NoSlot, Calm
<1>16. CASE Receive \/ PostRx \/ ReceiverEnds \/ Alarm \/ OnTimeout \/ MonitorEnds
  <2>1. status'.engine = status.engine /\ UNCHANGED <<todo, timers, kept, made>>
    BY <1>16 DEF Receive, PostRx, ReceiverEnds, Alarm, OnTimeout, MonitorEnds, ThreadsInv, Types
  <2>2. QED
    BY <1>2, <2>1 DEF NoSlot, Calm
<1>17. ASSUME NEW t \in DOMAIN timers, TimerElapses(t) \/ TimerPosts(t)
       PROVE  Calm
  <2>1. UNCHANGED <<status, todo, kept, made>>
    BY <1>17 DEF TimerElapses, TimerPosts
  <2>2. Running' \subseteq Running
    BY <1>1, <1>17, OverRunning
  <2>3. QED
    BY <1>17, <2>1, <2>2 DEF NoSlot, Calm
<1>18. CASE TickFires \/ UNCHANGED vars
  BY <1>2, <1>18 DEF TickFires, vars, NoSlot, Calm
<1>19. Statement => Renews \/ Calm
  BY <1>7, <1>8, <1>9, <1>10, <1>11, <1>12, <1>13, <1>15 DEF Statement, Renews
<1>20. Others => Renews \/ Calm
  BY <1>16, <1>17 DEF Others
<1>21. QED
  BY <1>14, <1>16, <1>18, <1>19, <1>20 DEF Next, Done

\* The timer cancelled last is one that is being replaced.
LEMMA KeptStep ==
  ASSUME ThreadsInv, KeptInv, [Next]_vars
  PROVE  KeptInv'
<1>1. todo \in [main : MainLists, engine : EngineLists] /\ timers \in Seq(TimerStates)
  BY DEF ThreadsInv, Types
<1>2. flags.stopping => flags'.stopping
  BY DEF Next, Statement, Others, Done, CancelTimer, StartTimer, KeepTimer, StartTick, StartThread,
         Quit, QuitAgain, TakeEvent, SetFlag, CancelTick, Join, EngineEnds, Receive, PostRx,
         ReceiverEnds, Alarm, OnTimeout, MonitorEnds, TimerElapses, TimerPosts, TickFires, vars,
         ThreadsInv, Types
<1>3. ASSUME NEW th \in {"main", "engine"}, CancelTimer(th)
      PROVE  KeptInv'
  <2>1. CASE th = "main"
    BY <1>1, <1>3, <2>1, MainAt DEF CancelTimer, KeptInv
  <2>2. CASE th = "engine"
    <3>1. todo'.engine = Schedule2 \/ todo.engine = Shutdown
      BY <1>1, <1>3, <2>2, EngineAt DEF CancelTimer
    <3>2. todo.engine = Shutdown => flags.stopping
      BY DEF ThreadsInv, Stages, Leaving, DownLists
    <3>3. QED
      BY <1>2, <3>1, <3>2 DEF KeptInv
  <2>3. QED
    BY <1>3, <2>1, <2>2
<1>4. ASSUME NEW th \in {"main", "engine"}, StartTimer(th)
      PROVE  KeptInv'
  BY <1>1, <1>4, StartTimers DEF KeptInv
<1>5. ASSUME NEW th \in {"main", "engine"}, KeepTimer(th)
      PROVE  KeptInv'
  <2>1. todo.main = Boot3 => todo'.main = Boot3
    BY <1>1, <1>5, MainAt, EngineAt, RenewalKinds DEF KeepTimer
  <2>2. todo.engine = Schedule2 => todo'.engine = Schedule2
    BY <1>1, <1>5, MainAt, EngineAt, RenewalKinds DEF KeepTimer
  <2>3. QED
    BY <1>2, <1>5, <2>1, <2>2 DEF KeepTimer, KeptInv
<1>6. ASSUME todo'.main = Boot3 <=> todo.main = Boot3,
             todo'.engine = Schedule2 <=> todo.engine = Schedule2,
             \/ UNCHANGED timers
             \/ \E t \in DOMAIN timers : TimerElapses(t) \/ TimerPosts(t)
      PROVE  KeptInv'
  <2>1. ASSUME NEW t \in DOMAIN timers, TimerElapses(t) \/ TimerPosts(t),
               timers' # <<>>, timers'[Len(timers')] = "cancelled"
        PROVE  timers # <<>> /\ timers[Len(timers)] = "cancelled"
    <3>1. Len(timers') = Len(timers) /\ DOMAIN timers = 1 .. Len(timers) /\ Len(timers) \in Nat
      BY <1>1, <2>1, OverTimers, LenProperties
    <3>2. Len(timers) \in DOMAIN timers
      BY <2>1, <3>1
    <3>3. Len(timers) # t
      BY <1>1, <2>1, <3>1, OverTimers
    <3>4. timers'[Len(timers)] = timers[Len(timers)]
      BY <1>1, <2>1, <3>2, <3>3, OverTimers
    <3>5. QED
      BY <2>1, <3>1, <3>2, <3>4
  <2>2. QED
    BY <1>2, <1>6, <2>1 DEF KeptInv
<1>7. QED
  BY <1>3, <1>4, <1>5, <1>6, StepKinds DEF Renews, Calm

\* The engine knows of all timers but one: main() starts only one.
LEMMA TimersStep ==
  ASSUME ThreadsInv, TimersInv, [Next]_vars
  PROVE  TimersInv'
<1>1. todo \in [main : MainLists, engine : EngineLists] /\ timers \in Seq(TimerStates)
      /\ made \in [main : 0 .. Len(timers), engine : 0 .. Len(timers)]
  BY DEF ThreadsInv, Types
<1>2. PICK x : Stray(x)
  BY DEF TimersInv
<1>3. CASE CancelTimer("main")
  <2>1. todo.main = Boot2 /\ todo'.main = Boot3 /\ todo'.engine = todo.engine
    BY <1>1, <1>3, MainAt DEF CancelTimer
  <2>2. Running' \subseteq Running /\ Slot' = Slot
    BY <1>1, <1>3, <2>1, CancelRunning DEF CancelTimer, Slot, NoSlot
  <2>3. Boot3 # Boot4 /\ Boot2 \in BeforeTimer
    BY RenewalKinds DEF BeforeTimer
  <2>4. Stray(x)'
    BY <1>2, <2>1, <2>2, <2>3 DEF Stray
  <2>5. QED
    BY <2>4 DEF TimersInv
<1>4. CASE CancelTimer("engine")
  <2>1. todo.engine \in {ScheduleFirstTokenEval, Shutdown} /\ todo'.engine \in {Schedule2, Down2}
        /\ todo'.main = todo.main
    BY <1>1, <1>4, EngineAt DEF CancelTimer
  <2>2. todo.engine # Schedule3 /\ todo'.engine # Schedule3
    BY <2>1, RenewalKinds DEF DownLists, NoTimerLists
  <2>3. Slot' = {}
    BY <2>1, <2>2 DEF Slot, NoSlot, NoTimerLists
  <2>4. Slot \subseteq {kept}
    BY <2>2 DEF Slot
  <2>5. Running' = Running \ {kept} /\ made' = made
    BY <1>1, <1>4, CancelRunning DEF CancelTimer
  <2>6. Stray(x)'
    BY <1>2, <2>1, <2>3, <2>4, <2>5 DEF Stray
  <2>7. QED
    BY <2>6 DEF TimersInv
<1>5. CASE StartTimer("main")
  <2>1. todo.main = Boot3 /\ todo'.main = Boot4 /\ todo'.engine = todo.engine
    BY <1>1, <1>5, MainAt DEF StartTimer
  <2>2. made'.main = Len(timers) + 1 /\ made'.engine = made.engine
    BY <1>1, <1>5 DEF StartTimer
  <2>3. Slot' = Slot
    BY <1>5, <2>1, <2>2 DEF StartTimer, Slot, NoSlot
  <2>4. Running' = Running \cup {Len(timers) + 1} /\ Running \subseteq Slot
    BY <1>1, <1>2, <1>5, <2>1, StartRunning DEF Stray, BeforeTimer
  <2>5. Boot4 \notin BeforeTimer
    BY RenewalKinds
  <2>6. Stray(made.main)'
    BY <2>1, <2>2, <2>3, <2>4, <2>5 DEF Stray
  <2>7. QED
    BY <2>6 DEF TimersInv
<1>6. CASE StartTimer("engine")
  <2>1. todo.engine = Schedule2 /\ todo'.engine = Schedule3 /\ todo'.main = todo.main
    BY <1>1, <1>6, EngineAt DEF StartTimer
  <2>2. made'.main = made.main /\ made'.engine = Len(timers) + 1
    BY <1>1, <1>6 DEF StartTimer
  <2>3. Slot = {} /\ Slot' = {Len(timers) + 1}
    BY <2>1, <2>2, RenewalKinds DEF Slot, NoSlot
  <2>4. Running' = Running \cup {Len(timers) + 1}
    BY <1>1, <1>6, StartRunning
  <2>5. Stray(x)'
    BY <1>2, <2>1, <2>2, <2>3, <2>4 DEF Stray
  <2>6. QED
    BY <2>5 DEF TimersInv
<1>7. CASE KeepTimer("main")
  <2>1. todo.main = Boot4 /\ todo'.main = Boot5 /\ todo'.engine = todo.engine
    BY <1>1, <1>7, MainAt DEF KeepTimer
  <2>2. kept' = made.main /\ x = made.main /\ UNCHANGED <<timers, made, status>>
    BY <1>2, <1>7, <2>1 DEF KeepTimer, Stray
  <2>3. Running' = Running /\ Running \subseteq {made.main} \cup Slot
    BY <1>2, <2>2 DEF Stray, Running
  <2>4. Boot5 \notin BeforeTimer /\ Boot5 # Boot4
    BY RenewalKinds
  <2>5. CASE Slot = {kept} /\ Slot' = {made.main}
    <3>1. \E y : Running' \subseteq {y} \cup Slot'
      BY <2>3, <2>5
    <3>2. QED
      BY <2>1, <2>4, <3>1 DEF TimersInv, Stray
  <2>6. CASE Slot' = Slot
    BY <2>1, <2>3, <2>4, <2>6 DEF TimersInv, Stray
  <2>7. QED
    BY <2>1, <2>2, <2>5, <2>6 DEF Slot, NoSlot
<1>8. CASE KeepTimer("engine")
  <2>1. todo.engine = Schedule3 /\ todo'.engine = <<>> /\ todo'.main = todo.main
    BY <1>1, <1>8, EngineAt DEF KeepTimer
  <2>2. kept' = made.engine /\ UNCHANGED <<timers, made, status>>
    BY <1>8 DEF KeepTimer
  <2>3. status.engine # "ended"
    BY <2>1, RenewalKinds DEF ThreadsInv, Stages, IdleLists
  <2>4. <<>> \notin {Schedule2, Schedule3} \cup NoTimerLists
    BY RenewalKinds, EngineKinds DEF IdleLists, DownLists
  <2>5. Slot = {made.engine} /\ Slot' = {made.engine}
    BY <2>1, <2>2, <2>3, <2>4 DEF Slot, NoSlot
  <2>6. Running' = Running
    BY <2>2 DEF Running
  <2>7. Stray(x)'
    BY <1>2, <2>1, <2>2, <2>5, <2>6 DEF Stray
  <2>8. QED
    BY <2>7 DEF TimersInv
<1>9. ASSUME Running' \subseteq Running, UNCHANGED <<kept, made>>,
             todo'.main \in BeforeTimer => todo.main \in BeforeTimer,
             todo'.main = Boot4 <=> todo.main = Boot4,
             todo'.engine = Schedule3 <=> todo.engine = Schedule3,
             NoSlot' <=> NoSlot
      PROVE  TimersInv'
  <2>1. Slot' = Slot
    BY <1>9 DEF Slot
  <2>2. Stray(x)'
    BY <1>2, <1>9, <2>1 DEF Stray
  <2>3. QED
    BY <2>2 DEF TimersInv
<1>10. QED
  BY <1>3, <1>4, <1>5, <1>6, <1>7, <1>8, <1>9, StepKinds DEF Renews, Calm

-----------------------------------------------------------------------------
\* The shutdown

\* How far a shutdown has come, statement by statement.
LEMMA ShutdownAt ==
  ASSUME ThreadsInv, NEW s, At("engine", s)
  PROVE  /\ todo'.engine \in NoTimerLists => s = "cancel_timer" \/ todo.engine \in NoTimerLists
         /\ todo'.engine \in NoTickLists => s = "cancel_tick" \/ todo.engine \in NoTickLists
         /\ todo'.engine \in NoMonitorLists => s = "stop_monitor" \/ todo.engine \in NoMonitorLists
         /\ todo'.engine \in NoTransportLists =>
              s = "stop_transport" \/ todo.engine \in NoTransportLists
         /\ s = "end" => todo.engine \in NoTransportLists
         /\ s \in {"start_timer", "keep_timer", "start_tick"} => todo'.engine \notin DownLists
         /\ status.engine # "ended"
<1>1. todo \in [main : MainLists, engine : EngineLists]
  BY DEF ThreadsInv, Types
<1>2. /\ todo.engine \in EngineLists \ {<<>>} /\ Head(todo.engine) = s
      /\ todo'.engine = Tail(todo.engine) /\ status.engine # "ended"
  BY <1>1 DEF At, ThreadsInv, Stages
<1>3. CASE todo.engine \in {Rearm, Quitting} \cup ScheduleLists
  <2>1. todo'.engine \in {<<>>, Schedule2, Schedule3, Shutdown}
    BY <1>2, <1>3, EngineTails DEF ScheduleLists
  <2>2. todo'.engine \notin NoTimerLists
    BY <2>1, EngineKinds DEF IdleLists, ScheduleLists, DownLists
  <2>3. s \in {"start_timer", "keep_timer", "start_tick"} => todo'.engine \notin DownLists
    BY <1>1, EngineAt, EngineKinds DEF IdleLists, ScheduleLists
  <2>4. s # "end"
    BY <1>2, <1>3, EngineHeads DEF ScheduleLists
  <2>5. QED
    BY <1>2, <2>2, <2>3, <2>4, EngineKinds
<1>4. CASE todo.engine \in DownLists
  <2>1. s \notin {"start_timer", "keep_timer", "start_tick"}
    BY <1>2, <1>4, EngineHeads DEF DownLists, NoTimerLists
  <2>2. todo.engine \in NoTimerLists \/ s = "cancel_timer"
    BY <1>2, <1>4, EngineHeads DEF DownLists
  <2>3. todo'.engine \in NoTickLists => s = "cancel_tick" \/ todo.engine \in NoTickLists
    <3>1. CASE todo.engine = Shutdown
      BY <1>2, <3>1, EngineTails, EngineKinds
    <3>2. CASE todo.engine \in {Down2} \cup NoTickLists
      BY <1>2, <3>2, EngineHeads
    <3>3. QED
      BY <1>4, <3>1, <3>2 DEF DownLists, NoTimerLists, NoTickLists
  <2>4. todo'.engine \in NoMonitorLists => s = "stop_monitor" \/ todo.engine \in NoMonitorLists
    <3>1. CASE todo.engine \in {Shutdown, Down2}
      <4>1. todo'.engine \in {Down2, Down3}
        BY <1>2, <3>1, EngineTails
      <4>2. QED
        BY <4>1, EngineKinds
    <3>2. CASE todo.engine \in {Down3} \cup NoMonitorLists
      BY <1>2, <3>2, EngineHeads
    <3>3. QED
      BY <1>4, <3>1, <3>2 DEF DownLists, NoTimerLists, NoMonitorLists
  <2>5. todo'.engine \in NoTransportLists => s = "stop_transport" \/ todo.engine \in NoTransportLists
    <3>1. CASE todo.engine \in {Shutdown, Down2, Down3, Down4}
      <4>1. todo'.engine \in {Down2, Down3, Down4, Down5}
        BY <1>2, <3>1, EngineTails
      <4>2. QED
        BY <4>1, EngineKinds
    <3>2. CASE todo.engine \in {Down5} \cup NoTransportLists
      BY <1>2, <3>2, EngineHeads
    <3>3. QED
      BY <1>4, <3>1, <3>2 DEF DownLists, NoTimerLists, NoTransportLists
  <2>6. s = "end" => todo.engine \in NoTransportLists
    BY <1>1, EngineAt DEF NoTransportLists
  <2>7. QED
    BY <1>2, <2>1, <2>2, <2>3, <2>4, <2>5, <2>6
<1>5. QED
  BY <1>2, <1>3, <1>4 DEF EngineLists, IdleLists

\* Main and engine do not meet in a shutdown while start() runs.
LEMMA BootRuns ==
  ASSUME ThreadsInv, BootInv, todo.main \in BootLists
  PROVE  todo.engine \notin DownLists /\ status.engine # "ended"
  BY EngineKinds DEF BootInv

\* A step that starts nothing, and that does not take the shutdown further.
LEMMA ShutdownSame ==
  ASSUME ShutdownInv, UNCHANGED kept,
         status'.engine = "ended" => status.engine = "ended",
         flags.monitor => flags'.monitor, flags.transport => flags'.transport,
         todo'.engine = todo.engine \/ todo'.engine \notin DownLists,
         Running' \subseteq Running, tick' => tick
  PROVE  ShutdownInv'
  BY EngineKinds DEF ShutdownInv, DownLists

\* What is off while the engine shuts down stays off.
LEMMA ShutdownStep ==
  ASSUME ThreadsInv, BootInv, ShutdownInv, [Next]_vars
  PROVE  ShutdownInv'
<1>1. todo \in [main : MainLists, engine : EngineLists] /\ timers \in Seq(TimerStates)
  BY DEF ThreadsInv, Types
<1>2. NoTimerLists \cup NoTickLists \cup NoMonitorLists \cup NoTransportLists \subseteq DownLists
  BY EngineKinds DEF DownLists
<1>3. ASSUME NEW s, At("main", s), s \in {"cancel_timer", "start_timer", "keep_timer", "start_tick",
                                           "start_receiver", "start_engine", "start_monitor"},
             status'.engine # "ended"
      PROVE  ShutdownInv'
  <2>1. todo.main \in BootLists /\ todo'.engine = todo.engine
    BY <1>1, <1>3, MainAt DEF BootLists
  <2>2. todo'.engine \notin DownLists
    BY <2>1, BootRuns
  <2>3. QED
    BY <1>2, <1>3, <2>2 DEF ShutdownInv
<1>4. ASSUME NEW s, At("engine", s), s \in {"start_timer", "keep_timer", "start_tick"},
             UNCHANGED status
      PROVE  ShutdownInv'
  BY <1>2, <1>4, ShutdownAt DEF ShutdownInv
<1>5. ASSUME NEW th \in {"main", "engine"}, CancelTimer(th)
      PROVE  ShutdownInv'
  <2>1. Running' = Running \ {kept}
    BY <1>1, <1>5, CancelRunning
  <2>2. CASE th = "main"
    <3>1. status'.engine # "ended"
      BY <1>1, <1>5, <2>2, MainAt, BootRuns DEF CancelTimer, BootLists
    <3>2. QED
      BY <1>3, <1>5, <2>2, <3>1 DEF CancelTimer
  <2>3. CASE th = "engine"
    BY <1>5, <2>1, <2>3, ShutdownAt DEF CancelTimer, ShutdownInv
  <2>4. QED
    BY <2>2, <2>3
<1>6. ASSUME NEW th \in {"main", "engine"}, StartTimer(th) \/ KeepTimer(th) \/ StartTick(th)
      PROVE  ShutdownInv'
  <2>1. CASE th = "main"
    <3>1. status'.engine # "ended"
      BY <1>1, <1>6, <2>1, MainAt, BootRuns DEF StartTimer, KeepTimer, StartTick, BootLists
    <3>2. QED
      BY <1>3, <1>6, <2>1, <3>1 DEF StartTimer, KeepTimer, StartTick
  <2>2. CASE th = "engine"
    BY <1>4, <1>6, <2>2 DEF StartTimer, KeepTimer, StartTick
  <2>3. QED
    BY <2>1, <2>2
<1>7. CASE StartThread
  <2>1. status'.engine # "ended"
    BY <1>1, <1>7, MainAt, BootRuns DEF StartThread, BootLists, ThreadsInv, Types
  <2>2. QED
    BY <1>3, <1>7, <2>1 DEF StartThread
<1>8. UNCHANGED timers => Running' \subseteq Running
  BY DEF Running
<1>9. CASE Quit \/ QuitAgain
  <2>1. todo'.engine = todo.engine /\ UNCHANGED <<status, timers, kept, tick, flags>>
    BY <1>1, <1>9, MainAt DEF Quit, QuitAgain
  <2>2. QED
    BY <1>8, <2>1, ShutdownSame
<1>10. CASE TakeEvent
  <2>1. todo'.engine = Handler(Head(bus)) /\ UNCHANGED <<status, timers, kept, tick, flags>>
    BY <1>1, <1>10 DEF TakeEvent
  <2>2. Handler(Head(bus)) \in IdleLists \cup ScheduleLists \cup {Quitting}
    BY DEF Handler, IdleLists, ScheduleLists, Rearm, Quitting
  <2>3. todo'.engine \notin DownLists
    BY <2>1, <2>2, EngineKinds
  <2>4. QED
    BY <1>8, <2>1, <2>3, ShutdownSame
<1>11. CASE SetFlag
  <2>1. /\ flags.monitor => flags'.monitor
        /\ flags.transport => flags'.transport
        /\ At("engine", "stop_monitor") => flags'.monitor \/ todo.engine # Down3
        /\ At("engine", "stop_transport") => flags'.transport \/ todo.engine # Down5
    <3>1. At("engine", "stop_monitor") => ~At("engine", "stopping") /\ ~At("engine", "stop_transport")
      BY DEF At
    <3>2. At("engine", "stop_transport") => ~At("engine", "stopping") /\ ~At("engine", "stop_monitor")
      BY DEF At
    <3>3. QED
      BY <1>11, <3>1, <3>2 DEF SetFlag, ThreadsInv, Types
  <2>2. Running' = Running /\ UNCHANGED <<status, kept, tick>>
    BY <1>11 DEF SetFlag, Running
  <2>3. ASSUME NEW s \in {"stopping", "stop_monitor", "stop_transport"}, At("engine", s)
        PROVE  ShutdownInv'
    <3>1. /\ s = "stop_monitor" => flags'.monitor
          /\ s = "stop_transport" => flags'.transport
      BY <1>1, <2>1, <2>3, EngineAt
    <3>2. QED
      BY <2>1, <2>2, <2>3, <3>1, ShutdownAt DEF ShutdownInv
  <2>4. QED
    BY <1>11, <2>3 DEF SetFlag
<1>12. CASE CancelTick
  <2>1. Running' = Running /\ UNCHANGED <<status, kept, flags>> /\ ~tick'
    BY <1>12 DEF CancelTick, Running
  <2>2. QED
    BY <1>12, <2>1, ShutdownAt DEF CancelTick, ShutdownInv
<1>13. CASE Join
  <2>1. Running' \subseteq Running /\ UNCHANGED <<status, kept, tick, flags>>
    BY <1>8, <1>13 DEF Join
  <2>2. CASE At("main", "join_engine")
    BY <1>1, <2>1, <2>2, MainAt, ShutdownSame
  <2>3. ASSUME NEW s \in {"join_monitor", "join_receiver"}, At("engine", s)
        PROVE  ShutdownInv'
    BY <2>1, <2>3, ShutdownAt DEF ShutdownInv
  <2>4. QED
    BY <1>13, <2>2, <2>3 DEF Join
<1>14. CASE EngineEnds
  <2>1. todo.engine \in NoTransportLists /\ UNCHANGED <<timers, kept, tick, flags>>
    BY <1>14, ShutdownAt DEF EngineEnds
  <2>2. kept \notin Running /\ ~tick /\ flags.monitor /\ flags.transport
    BY <2>1, EngineKinds DEF ShutdownInv
  <2>3. QED
    BY <1>8, <2>1, <2>2 DEF ShutdownInv
<1>15. CASE Receive \/ PostRx \/ ReceiverEnds \/ Alarm \/ OnTimeout \/ MonitorEnds
  <2>1. status'.engine = status.engine /\ UNCHANGED <<todo, timers, kept, tick, flags>>
    BY <1>15 DEF Receive, PostRx, ReceiverEnds, Alarm, OnTimeout, MonitorEnds, ThreadsInv, Types
  <2>2. QED
    BY <1>8, <2>1, ShutdownSame
<1>16. ASSUME NEW t \in DOMAIN timers, TimerElapses(t) \/ TimerPosts(t)
       PROVE  ShutdownInv'
  <2>1. Running' \subseteq Running
    BY <1>1, <1>16, OverRunning
  <2>2. UNCHANGED <<todo, status, kept, tick, flags>>
    BY <1>16 DEF TimerElapses, TimerPosts
  <2>3. QED
    BY <2>1, <2>2, ShutdownSame
<1>17. CASE TickFires \/ UNCHANGED vars
  <2>1. UNCHANGED <<todo, status, timers, kept, flags>> /\ (tick' => tick)
    BY <1>17 DEF TickFires, vars
  <2>2. QED
    BY <1>8, <2>1, ShutdownSame
<1>18. Statement => ShutdownInv'
  BY <1>5, <1>6, <1>7, <1>9, <1>10, <1>11, <1>12, <1>13, <1>14 DEF Statement
<1>19. Others => ShutdownInv'
  BY <1>15, <1>16 DEF Others
<1>20. QED
  BY <1>9, <1>15, <1>17, <1>18, <1>19 DEF Next, Done

-----------------------------------------------------------------------------
\* Theorems

\* Init => LifeInv, and every step keeps it.
THEOREM LifeInvariant == Spec => []LifeInv
<1>1. Init => LifeInv
  <2> SUFFICES ASSUME Init PROVE LifeInv
    OBVIOUS
  <2>1. todo.main = Start /\ todo.engine = <<>> /\ status.engine = "off"
    BY DEF Init
  <2>2. timers = <<>> /\ bus = <<>> /\ bus \in Seq(QuietEvents)
    BY EmptySeq DEF Init
  <2>3. Running = {}
    BY <2>2 DEF Running
  <2>4. Start # Boot4
    BY RenewalKinds DEF BeforeTimer
  <2>5. <<>> \notin DownLists
    BY EngineKinds DEF IdleLists
  <2>6. BootInv
    BY <2>1, <2>2 DEF BootInv, IdleLists
  <2>7. KeptInv
    BY <2>2 DEF KeptInv
  <2>8. TimersInv
    BY <2>1, <2>3, <2>4 DEF TimersInv, Stray
  <2>9. ShutdownInv
    BY <2>1, <2>5, EngineKinds DEF ShutdownInv, DownLists
  <2>10. QED
    BY <2>6, <2>7, <2>8, <2>9, ThreadsInit DEF LifeInv
<1>2. LifeInv /\ [Next]_vars => LifeInv'
  BY TypesStep, StagesStep, BootStep, KeptStep, TimersStep, ShutdownStep DEF LifeInv, ThreadsInv
<1>3. QED
  BY <1>1, <1>2, PTL DEF Spec

\* The threads, the timers and the flags keep their types, and no thread is
\* told to stop before post() is closed (_shutdown).
THEOREM LifecycleTypes == Spec => []TypeOK
<1>1. LifeInv => TypeOK
  <2> SUFFICES ASSUME LifeInv PROVE TypeOK
    OBVIOUS
  <2>1. \A t \in DOMAIN timers : timers[t] \in TimerStates
    BY LenProperties, ElementOfSeq DEF LifeInv, ThreadsInv, Types
  <2>2. QED
    BY <2>1 DEF TypeOK, LifeInv, ThreadsInv, Types, Stages, TimerStates
<1>2. QED
  BY <1>1, LifeInvariant, PTL

\* A set within a pair, and one within a singleton, are as small.
LEMMA AtMostTwo ==
  ASSUME NEW S, NEW x, NEW y, S \subseteq {x, y}
  PROVE  Cardinality(S) <= 2 /\ (S \subseteq {x} => Cardinality(S) <= 1)
<1>1. IsFiniteSet({x}) /\ Cardinality({x}) = 1
  BY FS_Singleton
<1>2. IsFiniteSet({x} \cup {y}) /\ Cardinality({x} \cup {y}) <= 2
  BY <1>1, FS_AddElement
<1>3. S \in SUBSET ({x} \cup {y})
  OBVIOUS
<1>4. IsFiniteSet(S) /\ Cardinality(S) <= Cardinality({x} \cup {y})
  BY <1>2, <1>3, FS_Subset
<1>5. S \subseteq {x} => Cardinality(S) <= Cardinality({x})
  BY <1>1, FS_Subset
<1>6. Cardinality(S) \in Nat /\ Cardinality({x} \cup {y}) \in Nat
  BY <1>2, <1>4, FS_CardinalityType
<1>7. QED
  BY <1>1, <1>2, <1>4, <1>5, <1>6

\* However start() and the engine race for _first_token_timer, two timers at
\* most wait to fire: the one the engine knows of and the one main() started.
THEOREM TwoTimers == Spec => []TwoTimersAtMost
<1>1. LifeInv => TwoTimersAtMost
  <2> SUFFICES ASSUME LifeInv PROVE TwoTimersAtMost
    OBVIOUS
  <2>1. PICK x : Running \subseteq {x} \cup Slot
    BY DEF LifeInv, TimersInv, Stray
  <2>2. PICK y : Slot \subseteq {y}
    BY DEF Slot
  <2>3. QED
    BY <2>1, <2>2, AtMostTwo DEF TwoTimersAtMost
<1>2. QED
  BY <1>1, LifeInvariant, PTL

\* _schedule_first_token_eval loses no evaluation: whatever the interleaving
\* of main thread, engine and timers, the timer started last is cancelled only
\* to start another, or to shut down.
THEOREM NoEvaluationLost == Spec => []EvaluationKept
<1>1. LifeInv => EvaluationKept
  <2> SUFFICES ASSUME LifeInv, timers # <<>>, timers[Len(timers)] = "cancelled", ~flags.stopping
               PROVE  \E th \in {"main", "engine"} :
                        todo[th] # <<>> /\ Head(todo[th]) = "start_timer"
    BY DEF EvaluationKept
  <2>1. todo.main = Boot3 \/ todo.engine = Schedule2
    BY DEF LifeInv, KeptInv
  <2>2. Boot3 # <<>> /\ Head(Boot3) = "start_timer" /\ Schedule2 # <<>>
        /\ Head(Schedule2) = "start_timer"
    BY RenewalKinds, MainHeads, EngineHeads DEF IdleLists
  <2>3. QED
    BY <2>1, <2>2
<1>2. QED
  BY <1>1, LifeInvariant, PTL

\* After _shutdown all threads have been told to stop, the timers it can reach
\* are cancelled, and at most the one the race has hidden still runs.
THEOREM ShutdownIsComplete == Spec => []NothingLeftRunning
<1>1. LifeInv => NothingLeftRunning
  <2> SUFFICES ASSUME LifeInv, status.engine = "ended"
               PROVE  /\ flags.stopping /\ flags.monitor /\ flags.transport
                      /\ ~tick
                      /\ kept \notin Running
                      /\ Cardinality(Running) <= 1
    BY DEF NothingLeftRunning
  <2>1. flags.stopping
    BY DEF LifeInv, ThreadsInv, Stages, Leaving
  <2>2. ~tick /\ kept \notin Running /\ flags.monitor /\ flags.transport
    BY DEF LifeInv, ShutdownInv
  <2>3. todo.engine # Schedule3
    BY RenewalKinds DEF LifeInv, ThreadsInv, Stages, IdleLists
  <2>4. \E x : Running \subseteq {x}
    BY <2>3 DEF LifeInv, TimersInv, Stray, Slot, NoSlot
  <2>5. QED
    BY <2>1, <2>2, <2>4, AtMostTwo
<1>2. QED
  BY <1>1, LifeInvariant, PTL
=============================================================================
