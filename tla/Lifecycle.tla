----------------------------- MODULE Lifecycle -----------------------------
(***************************************************************************)
(* The threads of one node from Node.start() to the end of main(): the     *)
(* main thread, the engine, the receiver, the monitor and the timers of    *)
(* the first-token evaluation, statement by statement where they share     *)
(* something.  What handlers do to the token is in the other modules; here *)
(* a handler is what it does to the timers.                                *)
(*                                                                         *)
(* The process ends with main(): all other threads are daemons.  Every     *)
(* join has a timeout: it may give up on a thread that still runs.  The    *)
(* timers of the token and of the DISCOVERs, which nobody cancels, are     *)
(* left out: post() ignores them after the shutdown.                       *)
(***************************************************************************)
EXTENDS Naturals, Sequences, FiniteSets

CONSTANTS
  MaxNews,     \* bound: new members that announce themselves
  MaxTicks,    \* bound: periodic rounds of presence
  MaxAlarms    \* bound: timeouts the monitor declares

ASSUME LifeBounds == {MaxNews, MaxTicks, MaxAlarms} \subseteq Nat

VARIABLES
  status,  \* the engine, the receiver and the monitor: where each thread is
  todo,    \* the statements left of main() and of the engine's handler
  bus,     \* the events posted
  timers,  \* the first-token timers, in the order they were started
  kept,    \* _first_token_timer: its place in timers, 0 for None
  made,    \* the timer the main thread and the engine have just started
  tick,    \* whether _discovery_timer is running
  flags,   \* _stopping, and the stop flags of monitor and transport
  budget   \* what may still happen

vars == <<status, todo, bus, timers, kept, made, tick, flags, budget>>

-----------------------------------------------------------------------------
\* What the threads execute

\* Mutant: a new timer is started beside the old one.
ScheduleFirstTokenEvalBeside == <<"start_timer", "keep_timer">>

\* Mutant: the timer is cancelled after the new one has been kept.
ScheduleFirstTokenEvalLate == <<"start_timer", "keep_timer", "cancel_timer">>

\* _schedule_first_token_eval: cancel the timer that is kept, start another
\* one, keep it.
ScheduleFirstTokenEval == <<"cancel_timer", "start_timer", "keep_timer">>

\* Node.start(), then the console of main()
Start ==
  <<"start_receiver", "start_engine">> \o ScheduleFirstTokenEval
    \o <<"start_tick", "start_monitor", "console">>

\* Node.close(), when the console returns
Close == <<"quit", "join_engine">>

\* Mutant: the shutdown leaves the timers to run.
ShutdownKeepsTimers ==
  <<"stop_monitor", "join_monitor", "stop_transport", "join_receiver", "end">>

\* _shutdown, with TokenMonitor.stop and Transport.close
Shutdown ==
  <<"cancel_timer", "cancel_tick", "stop_monitor", "join_monitor", "stop_transport",
    "join_receiver", "end">>

\* Mutant: the shutdown forgets the flag that closes the bus.
HandlerOpenBus(event) ==
  CASE event = "RX_NEW" -> ScheduleFirstTokenEval
    [] event = "DISCOVERY_TICK" -> <<"start_tick">>
    [] event = "CMD_QUIT" -> Shutdown
    [] OTHER -> <<>>

\* The handler of an event.
Handler(event) ==
  CASE event = "RX_NEW" -> ScheduleFirstTokenEval
    [] event = "DISCOVERY_TICK" -> <<"start_tick">>
    [] event = "CMD_QUIT" -> <<"stopping">> \o Shutdown
    [] OTHER -> <<>>

\* Node.post
Posts(event) == bus' = IF flags.stopping THEN bus ELSE Append(bus, event)

-----------------------------------------------------------------------------
Init ==
  /\ status = [engine |-> "off", receiver |-> "off", monitor |-> "off"]
  /\ todo = [main |-> Start, engine |-> <<>>]
  /\ bus = <<>>
  /\ timers = <<>>
  /\ kept = 0
  /\ made = [main |-> 0, engine |-> 0]
  /\ tick = FALSE
  /\ flags = [stopping |-> FALSE, monitor |-> FALSE, transport |-> FALSE]
  /\ budget = [news |-> MaxNews, ticks |-> MaxTicks, alarms |-> MaxAlarms]

-----------------------------------------------------------------------------
\* Statements of a thread th, the main thread or the engine

\* Thread th executes `statement' and goes on.
At(th, statement) ==
  /\ todo[th] # <<>>
  /\ Head(todo[th]) = statement
  /\ todo' = [todo EXCEPT ![th] = Tail(@)]

\* Timer.cancel: a timer that has looked at its flag is not stopped any more.
CancelTimer(th) ==
  /\ At(th, "cancel_timer")
  /\ timers' = [t \in DOMAIN timers |->
                  IF t = kept /\ timers[t] = "running" THEN "cancelled" ELSE timers[t]]
  /\ UNCHANGED <<status, bus, kept, made, tick, flags, budget>>

StartTimer(th) ==
  /\ At(th, "start_timer")
  /\ timers' = Append(timers, "running")
  /\ made' = [made EXCEPT ![th] = Len(timers) + 1]
  /\ UNCHANGED <<status, bus, kept, tick, flags, budget>>

KeepTimer(th) ==
  /\ At(th, "keep_timer")
  /\ kept' = made[th]
  /\ UNCHANGED <<status, bus, timers, made, tick, flags, budget>>

\* _schedule_discovery_tick
StartTick(th) ==
  /\ At(th, "start_tick")
  /\ tick' = (tick \/ ~flags.stopping)
  /\ UNCHANGED <<status, bus, timers, kept, made, flags, budget>>

StartThread ==
  /\ \/ At("main", "start_receiver") /\ status' = [status EXCEPT !.receiver = "recvfrom"]
     \/ At("main", "start_engine") /\ status' = [status EXCEPT !.engine = "on"]
     \/ At("main", "start_monitor") /\ status' = [status EXCEPT !.monitor = "loop"]
  /\ UNCHANGED <<bus, timers, kept, made, tick, flags, budget>>

\* Console.run: the user quits.
Quit ==
  /\ todo.main = <<"console">>
  /\ todo' = [todo EXCEPT !.main = Close]
  /\ Posts("CMD_QUIT")
  /\ UNCHANGED <<status, timers, kept, made, tick, flags, budget>>

\* close() asks again.
QuitAgain ==
  /\ At("main", "quit")
  /\ Posts("CMD_QUIT")
  /\ UNCHANGED <<status, timers, kept, made, tick, flags, budget>>

\* _engine_loop
TakeEvent ==
  /\ status.engine = "on"
  /\ todo.engine = <<>>
  /\ bus # <<>>
  /\ bus' = Tail(bus)
  /\ todo' = [todo EXCEPT !.engine = Handler(Head(bus))]
  /\ UNCHANGED <<status, timers, kept, made, tick, flags, budget>>

SetFlag ==
  /\ \/ At("engine", "stopping") /\ flags' = [flags EXCEPT !.stopping = TRUE]
     \/ At("engine", "stop_monitor") /\ flags' = [flags EXCEPT !.monitor = TRUE]
     \/ At("engine", "stop_transport") /\ flags' = [flags EXCEPT !.transport = TRUE]
  /\ UNCHANGED <<status, bus, timers, kept, made, tick, budget>>

CancelTick ==
  /\ At("engine", "cancel_tick")
  /\ tick' = FALSE
  /\ UNCHANGED <<status, bus, timers, kept, made, flags, budget>>

\* Thread.join with a timeout, in close(), in TokenMonitor.stop and in
\* Transport.close: it returns when the thread has ended or time is up.
Join ==
  /\ At("main", "join_engine") \/ At("engine", "join_monitor") \/ At("engine", "join_receiver")
  /\ UNCHANGED <<status, bus, timers, kept, made, tick, flags, budget>>

EngineEnds ==
  /\ At("engine", "end")
  /\ status' = [status EXCEPT !.engine = "ended"]
  /\ UNCHANGED <<bus, timers, kept, made, tick, flags, budget>>

-----------------------------------------------------------------------------
\* The other threads

\* A new member announces itself, as soon as the receiver runs; the receiver
\* posts it, and then looks at its stop flag.
Receive ==
  /\ status.receiver = "recvfrom"
  /\ budget.news > 0
  /\ status' = [status EXCEPT !.receiver = "post"]
  /\ budget' = [budget EXCEPT !.news = @ - 1]
  /\ UNCHANGED <<todo, bus, timers, kept, made, tick, flags>>

PostRx ==
  /\ status.receiver = "post"
  /\ Posts("RX_NEW")
  /\ status' = [status EXCEPT !.receiver = IF flags.transport THEN "ended" ELSE "recvfrom"]
  /\ UNCHANGED <<todo, timers, kept, made, tick, flags, budget>>

\* recvfrom fails on the closed socket, at once on Windows; on Linux one that
\* is blocked already need not.
ReceiverEnds ==
  /\ status.receiver = "recvfrom"
  /\ flags.transport
  /\ status' = [status EXCEPT !.receiver = "ended"]
  /\ UNCHANGED <<todo, bus, timers, kept, made, tick, flags, budget>>

\* _loop declares a timeout; on_timeout posts it without the lock.
Alarm ==
  /\ status.monitor = "loop"
  /\ ~flags.monitor
  /\ budget.alarms > 0
  /\ status' = [status EXCEPT !.monitor = "fire"]
  /\ budget' = [budget EXCEPT !.alarms = @ - 1]
  /\ UNCHANGED <<todo, bus, timers, kept, made, tick, flags>>

OnTimeout ==
  /\ status.monitor = "fire"
  /\ Posts("MON_TOKEN_TIMEOUT")
  /\ status' = [status EXCEPT !.monitor = "loop"]
  /\ UNCHANGED <<todo, timers, kept, made, tick, flags, budget>>

MonitorEnds ==
  /\ status.monitor = "loop"
  /\ flags.monitor
  /\ status' = [status EXCEPT !.monitor = "ended"]
  /\ UNCHANGED <<todo, bus, timers, kept, made, tick, flags, budget>>

\* threading.Timer: when its time is over it looks at its flag, then posts.
TimerElapses(t) ==
  /\ timers[t] = "running"
  /\ timers' = [timers EXCEPT ![t] = "posting"]
  /\ UNCHANGED <<status, todo, bus, kept, made, tick, flags, budget>>

TimerPosts(t) ==
  /\ timers[t] = "posting"
  /\ timers' = [timers EXCEPT ![t] = "fired"]
  /\ Posts("EVAL_FIRST_TOKEN")
  /\ UNCHANGED <<status, todo, kept, made, tick, flags, budget>>

\* In one step: this timer is cancelled only by the shutdown, after which
\* posts are refused.
TickFires ==
  /\ tick
  /\ budget.ticks > 0
  /\ tick' = FALSE
  /\ budget' = [budget EXCEPT !.ticks = @ - 1]
  /\ Posts("DISCOVERY_TICK")
  /\ UNCHANGED <<status, todo, timers, kept, made, flags>>

-----------------------------------------------------------------------------
Statement ==
  \/ \E th \in {"main", "engine"} :
       CancelTimer(th) \/ StartTimer(th) \/ KeepTimer(th) \/ StartTick(th)
  \/ StartThread \/ QuitAgain \/ TakeEvent \/ SetFlag \/ CancelTick \/ Join \/ EngineEnds

Others ==
  \/ PostRx \/ OnTimeout \/ MonitorEnds
  \/ \E t \in DOMAIN timers : TimerElapses(t) \/ TimerPosts(t)

\* The process ends with the main thread.
Done == todo.main = <<>> /\ UNCHANGED vars

Next ==
  \/ todo.main # <<>> /\ (Statement \/ Others)
  \/ todo.main # <<>> /\ (Quit \/ Receive \/ ReceiverEnds \/ Alarm \/ TickFires)
  \/ Done

Spec == Init /\ [][Next]_vars

\* Every thread runs; users need not quit, nor members appear.
FairSpec == Spec /\ WF_vars(todo.main # <<>> /\ (Statement \/ Others))

-----------------------------------------------------------------------------
\* Properties

\* The types of the threads, the timers and the flags.
TypeOK ==
  /\ status \in [engine : {"off", "on", "ended"},
                 receiver : {"off", "recvfrom", "post", "ended"},
                 monitor : {"off", "loop", "fire", "ended"}]
  /\ kept \in 0 .. Len(timers)
  /\ \A t \in DOMAIN timers : timers[t] \in {"running", "cancelled", "posting", "fired"}
  /\ made.main \in 0 .. Len(timers) /\ made.engine \in 0 .. Len(timers)
  /\ flags.monitor \/ flags.transport => flags.stopping

\* The first-token timers that can still be cancelled.
Running == {t \in DOMAIN timers : timers[t] = "running"}

\* "So o ultimo timer agendado dispara EVAL_FIRST_TOKEN" is not so: start() and
\* the engine race for _first_token_timer (README, 5).  What they lose is one
\* timer: never are more than two of them waiting to fire.
TwoTimersAtMost == Cardinality(Running) <= 2

\* The timer started last is cancelled only by who is about to start another
\* one, or by the shutdown: the evaluation after the last change of the
\* members is not lost, whoever wins the race.
EvaluationKept ==
  timers # <<>> /\ timers[Len(timers)] = "cancelled" =>
    \/ flags.stopping
    \/ \E th \in {"main", "engine"} : todo[th] # <<>> /\ Head(todo[th]) = "start_timer"

\* When members stop changing, the timer started last has fired and its
\* evaluation has been made, unless the node is closed before.
EvaluationComes ==
  <>[](\/ flags.stopping \/ todo.main = <<>>
       \/ /\ timers # <<>> /\ timers[Len(timers)] = "fired"
          /\ bus = <<>> /\ todo.engine = <<>>)

\* When the engine has shut down, the threads have been told to stop, there is
\* no timer left of what it could cancel, and of the timers it lost sight of
\* there is at most one.  What still runs posts nothing.
NothingLeftRunning ==
  status.engine = "ended" =>
    /\ flags.stopping /\ flags.monitor /\ flags.transport
    /\ ~tick
    /\ kept \notin Running
    /\ Cardinality(Running) <= 1
=============================================================================
