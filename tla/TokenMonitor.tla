---------------------------- MODULE TokenMonitor ----------------------------
(***************************************************************************)
(* The monitor of ring/core/token_control.py as the thread it is, beside   *)
(* the receiver thread and the engine of a machine that is not alone and   *)
(* is the controller, loses the control and regains it.                    *)
(* The other modules take a handler as one step.  Here a handler is the    *)
(* sequence of the statements that touch the monitor, the token, a timer   *)
(* or the network, and the monitor may run between any two of them: its    *)
(* lock makes a single call atomic and no more.                            *)
(*                                                                         *)
(* Instants are ages.  A tick is a while: threads that have something to   *)
(* do may be delayed by MaxLag ticks, and what is away for MaxRound ticks  *)
(* arrives.  A timer of a round that is over is ignored (see OpenNode) and *)
(* is not kept here.                                                       *)
(***************************************************************************)
EXTENDS Integers, Sequences, FiniteSets

CONSTANTS
  TokenTime,     \* token_time, in ticks
  TokenTimeout,  \* token_timeout
  MaxRound,      \* how long a token or DATA is away, at most
  MaxLag,        \* bound: ticks a thread may be delayed
  MaxSends,      \* bound: messages users type
  MaxLoseToken,  \* bound: tokens lost
  MaxLoseData,   \* bound: DATA lost
  MaxRoles       \* bound: machines of a smaller nickname that appear

ASSUME MonitorDurations ==
  {TokenTime, TokenTimeout, MaxRound} \subseteq Nat \ {0} /\ MaxLag \in Nat
ASSUME MonitorBounds == {MaxSends, MaxLoseToken, MaxLoseData, MaxRoles} \subseteq Nat

VARIABLES
  machine,  \* what the engine alone reads and writes
  monitor,  \* the fields of TokenMonitor, shared under its lock
  thread,   \* the monitor's thread: where it is, and what it has read
  todo,     \* the statements left of the handler the engine is in
  bus,      \* the events posted
  rx,       \* the datagram the receiver has noted and not posted yet
  timer,    \* ticks left of the forward timer and the return timer
  ring,     \* the age of the token and the DATA that are away
  lag,      \* ticks since something was last due
  budget    \* what users and the network may still do

vars == <<machine, monitor, thread, todo, bus, rx, timer, ring, lag, budget>>

Off == -1       \* a timer that is not running, or nothing is away
Nothing == "-"  \* the receiver is waiting for a datagram

-----------------------------------------------------------------------------
\* Statements of the handlers

\* _forward_token: the monitor watches again before the silence restarts.
ForwardToken == <<"give", "refresh", "send_token", "note">>

\* _send_data_packet
SendDataPacket == <<"wait", "refresh", "start_return_timer", "send_data", "note">>

\* Mutant: the flag of the wait is cleared once the token is gone.
CompleteDataRoundLate == ForwardToken \o <<"unwait", "refresh">>

\* _complete_data_round
CompleteDataRound == <<"unwait", "refresh">> \o ForwardToken

\* _generate_token, by a controller
GenerateToken == <<"enable", "give", "refresh", "send_token", "note">>

\* The end of _on_rx_token and of _on_timer_forward_token
Transmits(otherwise) == IF machine.queue > 0 THEN SendDataPacket ELSE otherwise

\* The end of _on_rx_data at the origin, for what came back: the head of the
\* queue is dropped, or kept after its first NAK.
DataReturned(nak) ==
  IF nak /\ ~machine.retransmit_used THEN <<"keep">> \o CompleteDataRound
  ELSE <<"drop">> \o CompleteDataRound

\* Mutant: the role is not conferred again when the event is handled.
MonTokenTimeoutStale ==
  IF ~machine.has_token /\ ~machine.waiting THEN <<"count">> \o GenerateToken ELSE <<>>

\* _on_mon_token_timeout
MonTokenTimeout ==
  IF machine.is_controller /\ ~machine.has_token /\ ~machine.waiting
  THEN <<"count">> \o GenerateToken ELSE <<>>

\* _on_rx_token: a second token ends at the controller, and is passed on by
\* the others.
RxTokenHandled ==
  IF ~machine.has_token THEN <<"note", "take", "refresh">> \o Transmits(<<"start_forward_timer">>)
  ELSE IF machine.is_controller THEN <<"note">> ELSE <<"note", "send_token">>

\* The statements of the handler of an event, in the state it starts in; a
\* return is a NAK or not.
Handler(event, nak) ==
  CASE event = "RX_TOKEN" -> RxTokenHandled
    [] event = "RX_DATA" ->
         IF machine.waiting THEN <<"note">> \o DataReturned(nak) ELSE <<"note">>
    [] event = "TIMER_FORWARD_TOKEN" ->
         IF machine.has_token /\ ~machine.waiting THEN Transmits(ForwardToken) ELSE <<>>
    [] event = "TIMER_DATA_RETURN_TIMEOUT" ->
         IF machine.waiting THEN DataReturned(FALSE) ELSE <<>>
    [] event = "MON_TOKEN_TIMEOUT" -> MonTokenTimeout
    [] event = "CMD_SEND" -> <<"enqueue">>
    [] event = "RX_HELLO" -> <<"lose_control", "disable">>
    [] event = "DISCOVERY_TICK" ->
         IF machine.waiting THEN <<>> ELSE <<"gain_control", "note", "enable">>

Posts(event) == bus' = Append(bus, event)

\* Mutant: set_paused keeps a pause that is on.
RefreshMonitorPauseSticks == monitor' = [monitor EXCEPT !.paused = @ \/ machine.has_token]

\* _refresh_monitor_pause with TokenMonitor.set_paused
RefreshMonitorPause ==
  monitor' = [monitor EXCEPT !.paused = machine.has_token \/ machine.waiting]

\* TokenMonitor.note_activity
NoteActivity == monitor' = [monitor EXCEPT !.silence = 0]

\* What a statement does to the machine, and to the world.
MachineAfter(s) ==
  CASE s = "take" -> [machine EXCEPT !.has_token = TRUE]
    [] s = "give" -> [machine EXCEPT !.has_token = FALSE]
    [] s = "wait" -> [machine EXCEPT !.waiting = TRUE]
    [] s = "unwait" -> [machine EXCEPT !.waiting = FALSE]
    [] s = "enqueue" -> [machine EXCEPT !.queue = @ + 1]
    [] s = "drop" -> [machine EXCEPT !.queue = IF @ > 0 THEN @ - 1 ELSE 0,
                                     !.retransmit_used = FALSE]
    [] s = "keep" -> [machine EXCEPT !.retransmit_used = TRUE]
    [] s = "count" -> [machine EXCEPT !.tokens_perdidos = @ + 1]
    [] s = "lose_control" -> [machine EXCEPT !.is_controller = FALSE]
    [] s = "gain_control" -> [machine EXCEPT !.is_controller = TRUE]
    [] OTHER -> machine

TimerAfter(s) ==
  CASE s = "start_forward_timer" -> [timer EXCEPT !.forward = TokenTime]
    [] s = "start_return_timer" -> [timer EXCEPT !.return = TokenTimeout]
    [] s = "unwait" -> [timer EXCEPT !.return = Off]
    [] OTHER -> timer

RingAfter(s) ==
  CASE s = "send_token" -> [ring EXCEPT !.tokens = Append(@, 0)]
    [] s = "send_data" -> [ring EXCEPT !.data = 0]
    [] OTHER -> ring

-----------------------------------------------------------------------------
\* A controller that knows of a token, which is away.
Init ==
  /\ machine = [has_token |-> FALSE, waiting |-> FALSE, queue |-> 0, retransmit_used |-> FALSE,
                is_controller |-> TRUE, tokens_perdidos |-> 0]
  /\ monitor = [silence |-> 0, paused |-> FALSE, enabled |-> TRUE]
  /\ thread = [at |-> "sleep", nap |-> 1, since |-> 0]
  /\ todo = <<>>
  /\ bus = <<>>
  /\ rx = Nothing
  /\ timer = [forward |-> Off, return |-> Off]
  /\ ring = [tokens |-> <<0>>, data |-> Off]
  /\ lag = 0
  /\ budget = [sends |-> MaxSends, tokens |-> MaxLoseToken, data |-> MaxLoseData,
               roles |-> MaxRoles]

-----------------------------------------------------------------------------
\* The receiver thread: on_datagram notes, then posts.

RxToken ==
  /\ rx = Nothing
  /\ ring.tokens # <<>>
  /\ Head(ring.tokens) > 0
  /\ rx' = "RX_TOKEN"
  /\ ring' = [ring EXCEPT !.tokens = Tail(@)]
  /\ NoteActivity
  /\ UNCHANGED <<machine, thread, todo, bus, timer, lag, budget>>

RxData ==
  /\ rx = Nothing
  /\ ring.data > 0
  /\ rx' = "RX_DATA"
  /\ ring' = [ring EXCEPT !.data = Off]
  /\ NoteActivity
  /\ UNCHANGED <<machine, thread, todo, bus, timer, lag, budget>>

PostRx ==
  /\ rx # Nothing
  /\ Posts(rx)
  /\ rx' = Nothing
  /\ UNCHANGED <<machine, monitor, thread, todo, timer, ring, lag, budget>>

-----------------------------------------------------------------------------
\* The engine thread

TakeEvent ==
  /\ todo = <<>>
  /\ bus # <<>>
  /\ bus' = Tail(bus)
  /\ \E nak \in BOOLEAN : todo' = Handler(Head(bus), nak)
  /\ UNCHANGED <<machine, monitor, thread, rx, timer, ring, lag, budget>>

Execute ==
  /\ todo # <<>>
  /\ todo' = Tail(todo)
  /\ LET s == Head(todo)
     IN /\ CASE s = "note" -> NoteActivity
             [] s = "refresh" -> RefreshMonitorPause
             [] s = "enable" -> monitor' = [monitor EXCEPT !.enabled = TRUE]
             [] s = "disable" -> monitor' = [monitor EXCEPT !.enabled = FALSE]
             [] OTHER -> monitor' = monitor
        /\ machine' = MachineAfter(s)
        /\ timer' = TimerAfter(s)
        /\ ring' = RingAfter(s)
  /\ UNCHANGED <<thread, bus, rx, lag, budget>>

\* threading.Timer posts its event.
ForwardTimer ==
  /\ timer.forward = 0
  /\ Posts("TIMER_FORWARD_TOKEN")
  /\ timer' = [timer EXCEPT !.forward = Off]
  /\ UNCHANGED <<machine, monitor, thread, todo, rx, ring, lag, budget>>

ReturnTimer ==
  /\ timer.return = 0
  /\ Posts("TIMER_DATA_RETURN_TIMEOUT")
  /\ timer' = [timer EXCEPT !.return = Off]
  /\ UNCHANGED <<machine, monitor, thread, todo, rx, ring, lag, budget>>

-----------------------------------------------------------------------------
\* The monitor's thread: _loop, with the lock taken and released in Decide.

Wake ==
  /\ thread.at = "sleep"
  /\ thread.nap = 0
  /\ thread' = [at |-> "awake", nap |-> 0, since |-> 0]
  /\ UNCHANGED <<machine, monitor, todo, bus, rx, timer, ring, lag, budget>>

\* `since' is how long ago the thread read the clock.
Fires ==
  monitor.enabled /\ ~monitor.paused /\ monitor.silence - thread.since > TokenTimeout

\* Mutant: the window is not restarted when a timeout is declared.
DecideAgain ==
  /\ thread.at = "awake"
  /\ thread' = IF Fires THEN [thread EXCEPT !.at = "fire"]
               ELSE [at |-> "sleep", nap |-> 1, since |-> 0]
  /\ UNCHANGED <<machine, monitor, todo, bus, rx, timer, ring, lag, budget>>

\* Reading the fields and restarting the window are one critical section.
Decide ==
  /\ thread.at = "awake"
  /\ IF Fires
     THEN /\ thread' = [thread EXCEPT !.at = "fire"]
          /\ monitor' = [monitor EXCEPT !.silence = thread.since]
     ELSE /\ thread' = [at |-> "sleep", nap |-> 1, since |-> 0]
          /\ UNCHANGED monitor
  /\ UNCHANGED <<machine, todo, bus, rx, timer, ring, lag, budget>>

\* on_timeout, outside the lock
OnTimeout ==
  /\ thread.at = "fire"
  /\ Posts("MON_TOKEN_TIMEOUT")
  /\ thread' = [at |-> "sleep", nap |-> 1, since |-> 0]
  /\ UNCHANGED <<machine, monitor, todo, rx, timer, ring, lag, budget>>

-----------------------------------------------------------------------------
\* Users, other machines and the network

CmdSend ==
  /\ budget.sends > 0
  /\ Posts("CMD_SEND")
  /\ budget' = [budget EXCEPT !.sends = @ - 1]
  /\ UNCHANGED <<machine, monitor, thread, todo, rx, timer, ring, lag>>

\* A machine of a smaller nickname appears.  What it does with a token that is
\* lost while it has the control is left out.
SmallerEnters ==
  /\ budget.roles > 0
  /\ Posts("RX_HELLO")
  /\ budget' = [budget EXCEPT !.roles = @ - 1]
  /\ UNCHANGED <<machine, monitor, thread, todo, rx, timer, ring, lag>>

\* The round in which its absence is noticed; there is one timer for rounds.
SmallerExpires ==
  /\ ~machine.is_controller
  /\ \A i \in DOMAIN bus : bus[i] # "DISCOVERY_TICK"
  /\ Posts("DISCOVERY_TICK")
  /\ UNCHANGED <<machine, monitor, thread, todo, rx, timer, ring, lag, budget>>

LoseToken ==
  /\ budget.tokens > 0
  /\ ring.tokens # <<>>
  /\ ring' = [ring EXCEPT !.tokens = Tail(@)]
  /\ budget' = [budget EXCEPT !.tokens = @ - 1]
  /\ UNCHANGED <<machine, monitor, thread, todo, bus, rx, timer, lag>>

LoseData ==
  /\ budget.data > 0
  /\ ring.data # Off
  /\ ring' = [ring EXCEPT !.data = Off]
  /\ budget' = [budget EXCEPT !.data = @ - 1]
  /\ UNCHANGED <<machine, monitor, thread, todo, bus, rx, timer, lag>>

-----------------------------------------------------------------------------
\* Time

\* A thread has something to do, or a datagram has been away long enough.
Due ==
  \/ todo # <<>> \/ bus # <<>> \/ rx # Nothing
  \/ timer.forward = 0 \/ timer.return = 0
  \/ thread.at # "sleep" \/ thread.nap = 0
  \/ ring.data >= MaxRound
  \/ ring.tokens # <<>> /\ Head(ring.tokens) >= MaxRound

Older(age, end) == IF age = Off \/ age >= end THEN age ELSE age + 1
Down(left) == IF left > 0 THEN left - 1 ELSE left

Tick ==
  /\ Due => lag < MaxLag
  /\ lag' = IF Due THEN lag + 1 ELSE 0
  /\ monitor' = [monitor EXCEPT !.silence = Older(@, TokenTimeout + MaxLag + 1)]
  /\ thread' = [thread EXCEPT !.nap = Down(@),
                              !.since = IF thread.at = "sleep" THEN 0 ELSE @ + 1]
  /\ timer' = [forward |-> Down(timer.forward), return |-> Down(timer.return)]
  /\ ring' = [tokens |-> [i \in DOMAIN ring.tokens |-> Older(ring.tokens[i], MaxRound)],
              data |-> Older(ring.data, MaxRound)]
  /\ UNCHANGED <<machine, todo, bus, rx, budget>>

System ==
  \/ RxToken \/ RxData \/ PostRx
  \/ TakeEvent \/ Execute \/ ForwardTimer \/ ReturnTimer
  \/ Wake \/ Decide \/ OnTimeout
  \/ Tick

Next == System \/ CmdSend \/ SmallerEnters \/ SmallerExpires \/ LoseToken \/ LoseData

Spec == Init /\ [][Next]_vars

\* The threads run and time goes on; nothing is assumed of users and losses.
FairSpec == Spec /\ WF_vars(System)

-----------------------------------------------------------------------------
\* Properties

\* The types of what the threads share and of what each keeps.
TypeOK ==
  /\ machine \in [has_token : BOOLEAN, waiting : BOOLEAN, queue : Nat, retransmit_used : BOOLEAN,
                  is_controller : BOOLEAN, tokens_perdidos : Nat]
  /\ monitor \in [silence : Nat, paused : BOOLEAN, enabled : BOOLEAN]
  /\ thread.at \in {"sleep", "awake", "fire"}
  /\ timer.forward \in {Off} \cup 0 .. TokenTime
  /\ timer.return \in {Off} \cup 0 .. TokenTimeout
  /\ machine.waiting => machine.has_token

\* The token is away, here, or being received.
TokenExists ==
  \/ machine.has_token \/ ring.tokens # <<>>
  \/ rx = "RX_TOKEN" \/ \E i \in DOMAIN bus : bus[i] = "RX_TOKEN"

\* "Se passar tempo demais sem ver token nem dados, conclui que o token se
\* perdeu", and "o papel eh conferido novamente": only a controller counts a
\* token lost, however long the timeout has been on the bus, and as long as no
\* DATA has been lost only when there is none.  (The timeout of a lost DATA
\* leaves a race: README, 5.)
NoFalseAlarm ==
  [][machine'.tokens_perdidos > machine.tokens_perdidos =>
       machine.is_controller /\ (budget.data = MaxLoseData => ~TokenExists)]_vars

\* "nunca empilhar varios eventos de timeout no barramento"
OneTimeoutOnBus ==
  Cardinality({i \in DOMAIN bus : bus[i] = "MON_TOKEN_TIMEOUT"})
    + (IF thread.at = "fire" THEN 1 ELSE 0) <= 1

\* A controller that stays one gets the token and passes it on, again and
\* again.
Recovers ==
  <>[]machine.is_controller => []<>(machine.has_token) /\ []<>(~machine.has_token)
=============================================================================
