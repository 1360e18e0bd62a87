------------------------------ MODULE TimedRing ------------------------------
(***************************************************************************)
(* Machines that start, find each other, form a ring, leave and come back, *)
(* with the durations of the code and of the configuration files.  Time is *)
(* discrete, in half seconds (discover_interval); the ages of NodeState    *)
(* grow and every timer is a number of half seconds left.                  *)
(*                                                                         *)
(* The network and the engines are fast: datagrams and events of one       *)
(* instant are handled, in any order, before time passes.  A machine that  *)
(* leaves sends nothing (_shutdown emits no LEAVE), so leaving and         *)
(* crashing are one action, and what is sent to its address is lost.       *)
(* One DISCOVER and the HELLOs that answer it are one step; the machines   *)
(* in `deaf' miss it.  Other datagrams are not lost here (see TokenRing).  *)
(***************************************************************************)
EXTENDS NodeHandlers

CONSTANTS
  Machines,          \* the machines that may take part
  TokenTime,         \* token_time, and the other durations of the
  TokenTimeout,      \* configuration file, in half seconds
  MinTokenInterval,
  DiscoveryWindow,   \* Node.discovery_window, and the other durations of
  PresenceInterval,  \* class Node, in half seconds
  MemberTimeout,
  DataQuietPeriod,   \* 0.75 s: activity is recent up to one half second ago
  Destinos,          \* the destinations users type
  SettledLeaves,     \* whether machines leave only when all up saw the token
  Scenarios          \* bound: what machines, users and the network do

ASSUME TimedMachines == Machines # {} /\ Machines \subseteq Apelido
ASSUME TimedDurations ==
  {TokenTime, TokenTimeout, DiscoveryWindow, PresenceInterval, MemberTimeout,
   DataQuietPeriod} \subseteq Nat \ {0} /\ MinTokenInterval \in Nat
\* The machines that start together at first; then the bounds of a behaviour:
\* starts and restarts, departures, messages users type, tokens they add,
\* DISCOVERs they send, and machines that miss a round of presence.
ASSUME TimedScenarios ==
  Scenarios \subseteq [boot : SUBSET Machines, starts : Nat, leaves : Nat, sends : Nat,
                      injects : Nat, joins : Nat, misses : Nat]
ASSUME TimedChoices == Destinos \subseteq Destino /\ SettledLeaves \in BOOLEAN

VARIABLES
  node,    \* the state of every machine
  up,      \* the machines that are running
  timer,   \* the half seconds left of every timer of every machine
  token,   \* tokens in flight, by the machine they are sent to
  data,    \* DATA in flight
  budget,  \* the scenario, with what is left to happen
  added    \* the tokens users added

vars == <<node, up, timer, token, data, budget, added>>

Off == -1  \* a timer that is not running

-----------------------------------------------------------------------------
\* What is on the ring

Held == {n \in up : node[n].has_token}
InFlight == FoldSet(LAMBDA n, sum : token[n] + sum, 0, Machines)
Tokens == InFlight + Cardinality(Held)

-----------------------------------------------------------------------------
\* Time

\* Timer of the parts of Node that __init__ and start() leave running.  The
\* chain of DISCOVERs has one sent already and one due every half second.
StartedTimers ==
  [forward |-> [e \in 0 .. MaxEpoch |-> <<>>],  \* TIMER_FORWARD_TOKEN, oldest first
   return |-> <<>>,                             \* TIMER_DATA_RETURN_TIMEOUT, by attempt
   eval |-> Off,                                \* EVAL_FIRST_TOKEN
   tick |-> DiscoveryWindow,                    \* DISCOVERY_TICK
   announces |-> DiscoveryWindow - 1,           \* DISCOVERs left in the chain ...
   pulse |-> 1]                                 \* ... and the time to the next one

\* The timers a handler that led to state s has started.  In s, eval_armed
\* tells that the first-token timer was started (again).
Armed(t, s) ==
  [t EXCEPT
     !.forward = [e \in 0 .. MaxEpoch |->
                    CASE s.forward_timers[e] > Len(@[e]) -> Append(@[e], TokenTime)
                      [] s.forward_timers[e] < Len(@[e]) -> Tail(@[e])
                      [] OTHER -> @[e]],
     !.return = [a \in s.return_timers |-> IF a \in DOMAIN @ THEN @[a] ELSE TokenTimeout],
     !.eval = IF s.eval_armed THEN DiscoveryWindow ELSE @]

Down(left) == IF left > 0 THEN left - 1 ELSE left
Sooner(t) ==
  [t EXCEPT !.forward = [e \in 0 .. MaxEpoch |-> [i \in DOMAIN @[e] |-> Down(@[e][i])]],
            !.return = [a \in DOMAIN @ |-> Down(@[a])],
            !.eval = Down(@),
            !.tick = Down(@),
            !.pulse = Down(@)]

\* Ages stop growing where every comparison of the code has been decided.
Grow(age, end) == IF age < end THEN age + 1 ELSE age
Older(s) ==
  [s EXCEPT !.member_last_seen = [m \in Apelido |->
                IF m \in s.members THEN Grow(@[m], MemberTimeout + 1) ELSE @[m]],
            !.last_token_rx = IF @ = NoInstant THEN @ ELSE Grow(@, MinTokenInterval),
            !.last_data_activity = Grow(@, DataQuietPeriod),
            !.mon_silence = Grow(@, TokenTimeout + 1)]

-----------------------------------------------------------------------------
\* A machine has received a HELLO of each of the others in `answers'.
Greeted(s0, answers) == FoldSet(LAMBDA ap, s : OnRxHello(s, ap, FALSE), s0, answers)

\* Presence: machine n has sent a DISCOVER.  Who is up and not deaf answers
\* it with a HELLO, which reaches everybody who is up and not deaf.
Presence(nodes, alive, n, deaf) ==
  LET hears == alive \ deaf
      answers == hears \ {n}
      asked(m) == IF m \in answers THEN OnRxDiscover(nodes[m], n, FALSE) ELSE nodes[m]
  IN [m \in Machines |->
        IF m \in hears THEN Greeted(asked(m), answers \ {m}) ELSE nodes[m]]

\* The machines become `nodes', having consumed `eaten' tokens of machine n
\* and the DATA in `read'; what they sent to a machine that is up is on its
\* way, and their timers run.
Settle(nodes, timers, alive, n, eaten, read) ==
  /\ \A m \in Machines : nodes[m].epoch <= MaxEpoch
  /\ node' = [m \in Machines |-> [nodes[m] EXCEPT !.out = NoOut, !.eval_armed = FALSE]]
  /\ timer' = [m \in Machines |-> Armed(timers[m], nodes[m])]
  /\ up' = alive
  /\ token' = [m \in Machines |->
       IF m \in alive
       THEN token[m] - (IF m = n THEN eaten ELSE 0)
            + Cardinality({k \in Machines : m \in nodes[k].out.token})
       ELSE 0]
  /\ data' = {d \in (data \ read) \cup UNION {nodes[k].out.data : k \in Machines} :
                d.to \in alive}

\* Machine n handles an event and becomes s; its timers become t.
Handles(n, s, t, eaten, read) ==
  Settle([node EXCEPT ![n] = s], [timer EXCEPT ![n] = t], up, n, eaten, read)

\* Machine n becomes s, which includes sending a DISCOVER.
Discovers(n, s, t, alive) ==
  \E deaf \in SUBSET (alive \ {n}) :
    /\ Cardinality(deaf) <= budget.misses
    /\ Settle(Presence([node EXCEPT ![n] = s], alive, n, deaf),
              [timer EXCEPT ![n] = t], alive, n, 0, {})
    /\ budget' = [budget EXCEPT !.misses = @ - Cardinality(deaf)]
    /\ UNCHANGED added

-----------------------------------------------------------------------------
\* Life cycle

\* A machine that is not running, and the state start() gives it: it has
\* never seen DATA (last_data_activity = 0.0 is long ago).
Stopped(n) == [StartedNode(n) EXCEPT !.out = NoOut, !.eval_armed = FALSE]
Fresh(n) == [StartedNode(n) EXCEPT !.last_data_activity = DataQuietPeriod]

\* The machines of `boot' have started in one instant and heard each other.
Booted(n, boot) ==
  [Greeted(Fresh(n), boot \ {n}) EXCEPT !.out = NoOut, !.eval_armed = FALSE]

Init ==
  /\ budget \in Scenarios
  /\ node = [n \in Machines |->
       IF n \in budget.boot THEN Booted(n, budget.boot) ELSE Stopped(n)]
  /\ up = budget.boot
  /\ timer = [n \in Machines |->
       IF n \in budget.boot THEN [StartedTimers EXCEPT !.eval = DiscoveryWindow] ELSE StartedTimers]
  /\ token = [n \in Machines |-> 0]
  /\ data = {}
  /\ added = 0

Start(n) ==
  /\ n \notin up
  /\ budget.starts > 0
  /\ \E deaf \in SUBSET up :
       /\ Cardinality(deaf) <= budget.misses
       /\ Settle(Presence([node EXCEPT ![n] = Fresh(n)], up \cup {n}, n, deaf),
                 timer, up \cup {n}, n, 0, {})
       /\ budget' = [budget EXCEPT !.starts = @ - 1, !.misses = @ - Cardinality(deaf)]
  /\ UNCHANGED added

Leave(n) ==
  /\ n \in up
  /\ budget.leaves > 0
  /\ SettledLeaves => \A m \in up : node[m].observed_activity
  /\ Settle([node EXCEPT ![n] = Stopped(n)], [timer EXCEPT ![n] = StartedTimers],
            up \ {n}, n, 0, {})
  /\ budget' = [budget EXCEPT !.leaves = @ - 1]
  /\ UNCHANGED added

-----------------------------------------------------------------------------
\* Events of machine n

RxToken(n) ==
  /\ token[n] > 0
  /\ Handles(n, OnRxToken(node[n], node[n].last_token_rx < MinTokenInterval, FALSE),
             timer[n], 1, {})
  /\ UNCHANGED <<budget, added>>

RxData(n) ==
  \E d \in data :
    /\ d.to = n
    /\ Handles(n, OnRxData(node[n], d.frame), timer[n], 0, {d})
    /\ UNCHANGED <<budget, added>>

TimerForwardToken(n) ==
  \E ep \in 0 .. MaxEpoch :
    /\ timer[n].forward[ep] # <<>>
    /\ Head(timer[n].forward[ep]) = 0
    /\ Handles(n, OnTimerForwardToken(node[n], ep, FALSE), timer[n], 0, {})
    /\ UNCHANGED <<budget, added>>

TimerDataReturnTimeout(n) ==
  \E attempt \in DOMAIN timer[n].return :
    /\ timer[n].return[attempt] = 0
    /\ Handles(n, OnTimerDataReturnTimeout(node[n], attempt), timer[n], 0, {})
    /\ UNCHANGED <<budget, added>>

\* The silence is longer than token_timeout when it lasts another half
\* second, and perhaps a little longer at token_timeout itself: the code
\* measures what timers and datagrams add to the durations of the model.
MonitorThread(n) ==
  /\ MonitorMayFire(node[n])
  /\ ~node[n].mon_posted
  /\ node[n].mon_silence >= TokenTimeout
  /\ Handles(n, MonitorFires(node[n]), timer[n], 0, {})
  /\ UNCHANGED <<budget, added>>

MonTokenTimeout(n) ==
  /\ node[n].mon_posted
  /\ Handles(n, OnMonTokenTimeout(node[n]), timer[n], 0, {})
  /\ UNCHANGED <<budget, added>>

EvalTimer(n) ==
  /\ timer[n].eval = 0
  /\ Handles(n, EvalTimerFires(node[n]), [timer[n] EXCEPT !.eval = Off], 0, {})
  /\ UNCHANGED <<budget, added>>

EvalFirstToken(n) ==
  /\ node[n].eval_posted
  /\ Handles(n, OnEvalFirstToken(node[n]), timer[n], 0, {})
  /\ UNCHANGED <<budget, added>>

\* As for the monitor, an age equal to member_timeout may go either way.
Overdue(n, age) ==
  {m \in node[n].members \ {n} : node[n].member_last_seen[m] >= age}

DiscoveryTick(n) ==
  /\ timer[n].tick = 0
  /\ \E expired \in {Overdue(n, MemberTimeout), Overdue(n, MemberTimeout + 1)} :
       LET s == OnDiscoveryTick(node[n], node[n].last_data_activity < DataQuietPeriod, expired)
           t == [timer[n] EXCEPT !.tick = PresenceInterval]
       IN IF s.out.presence = {}
          THEN Handles(n, s, t, 0, {}) /\ UNCHANGED <<budget, added>>
          ELSE Discovers(n, s, t, up)

\* The next DISCOVER of _broadcast_discover_repeated.
AnnounceAgain(n) ==
  /\ timer[n].announces > 0
  /\ timer[n].pulse = 0
  /\ Discovers(n, node[n], [timer[n] EXCEPT !.announces = @ - 1, !.pulse = 1], up)

-----------------------------------------------------------------------------
\* Users

CmdSend(n) ==
  /\ n \in up
  /\ budget.sends > 0
  /\ \E destino \in Destinos \ {n}, text \in Text :
       Handles(n, OnCmdSend(node[n], destino, text, budget.sends), timer[n], 0, {})
  /\ budget' = [budget EXCEPT !.sends = @ - 1]
  /\ UNCHANGED added

CmdAddToken(n) ==
  /\ n \in up
  /\ budget.injects > 0
  /\ Handles(n, OnCmdAddToken(node[n]), timer[n], 0, {})
  /\ budget' = [budget EXCEPT !.injects = @ - 1]
  /\ added' = added + 1

CmdJoin(n) ==
  /\ n \in up
  /\ budget.joins > 0
  /\ Settle(Presence(node, up, n, {}), timer, up, n, 0, {})
  /\ budget' = [budget EXCEPT !.joins = @ - 1]
  /\ UNCHANGED added

-----------------------------------------------------------------------------
Events(n) ==
  \/ RxToken(n) \/ RxData(n)
  \/ TimerForwardToken(n) \/ TimerDataReturnTimeout(n)
  \/ MonitorThread(n) \/ MonTokenTimeout(n)
  \/ EvalTimer(n) \/ EvalFirstToken(n)
  \/ DiscoveryTick(n) \/ AnnounceAgain(n)

Users(n) == Start(n) \/ Leave(n) \/ CmdSend(n) \/ CmdAddToken(n) \/ CmdJoin(n)

\* Something is still to be handled at machine n in this instant.
Due(n) ==
  \/ token[n] > 0
  \/ \E d \in data : d.to = n
  \/ \E ep \in 0 .. MaxEpoch : timer[n].forward[ep] # <<>> /\ Head(timer[n].forward[ep]) = 0
  \/ \E a \in DOMAIN timer[n].return : timer[n].return[a] = 0
  \/ MonitorMayFire(node[n]) /\ node[n].mon_silence > TokenTimeout
  \/ node[n].mon_posted \/ node[n].eval_posted
  \/ timer[n].eval = 0 \/ timer[n].tick = 0
  \/ timer[n].announces > 0 /\ timer[n].pulse = 0

Pass ==
  /\ up # {}
  /\ \A n \in up : ~Due(n)
  /\ node' = [n \in Machines |-> IF n \in up THEN Older(node[n]) ELSE node[n]]
  /\ timer' = [n \in Machines |-> IF n \in up THEN Sooner(timer[n]) ELSE timer[n]]
  /\ UNCHANGED <<up, token, data, budget, added>>

System == Pass \/ \E n \in up : Events(n)

Next == System \/ \E n \in Machines : Users(n)

Spec == Init /\ [][Next]_vars

\* While a machine is up its events are handled and time goes on: the
\* engine loop takes every event, and the clock stops for nobody.
TimePasses == []<>(up = {}) \/ []<><<Pass>>_vars

FairSpec == Spec /\ WF_vars(Pass) /\ TimePasses

-----------------------------------------------------------------------------
\* Properties

\* The ring never has more tokens than one and those users added, while
\* machines start at any time, leave and come back (_on_eval_first_token,
\* _on_mon_token_timeout).
AtMostOneToken == Tokens <= 1 + added

\* A token is counted lost only when there is none.
NoFalseAlarm ==
  [][\A n \in Machines :
       node'[n].tokens_perdidos > node[n].tokens_perdidos => Tokens = 0]_vars

\* A token is discarded as a duplicate only while there is another one.
LastTokenKept ==
  [][\A n \in Machines :
       node'[n].tokens_duplicados > node[n].tokens_duplicados => Tokens' > 0]_vars

\* A token that a machine holds will leave it, within token_time, or within
\* token_timeout while its DATA is out: the timer that takes it away is
\* running, whatever members come and go meanwhile.  Only a machine that is
\* alone keeps the token, and it knows that it does (_update_member).
HoldEnds ==
  \A n \in up : node[n].has_token =>
    LET s == node[n] IN
    CASE s.waiting ->
           /\ s.active_data_attempt \in DOMAIN timer[n].return
           /\ timer[n].return[s.active_data_attempt] \in 0 .. TokenTimeout
      [] ~s.waiting /\ ~Alone(s) ->
           \E left \in Range(timer[n].forward[s.epoch]) : left \in 0 .. TokenTime
      [] ~s.waiting /\ Alone(s) -> s.segurando_sozinho

\* The members that machine n keeps if its periodic round comes now, before
\* anybody answers it.
Kept(n) ==
  OnDiscoveryTick(node[n], node[n].last_data_activity < DataQuietPeriod,
                  Overdue(n, MemberTimeout)).members

\* No machine removes from its ring a machine that is up: neither by a DATA
\* that came back untouched (_on_rx_data) nor by expiry (_on_discovery_tick),
\* not even until the answer to its own DISCOVER, which comes in the same step.
LiveStay ==
  [][\A n, m \in up :
       n \in up' /\ m \in node[n].members =>
         m \in node'[n].members /\ (timer[n].tick = 0 => m \in Kept(n))]_vars

\* In the end the machines that are up know each other and nobody else.
Converges == <>[](\A n \in up : node[n].members = up)

\* A machine that stays up, not alone, gets the token again and again.
Recovers ==
  \A n \in Machines :
    <>[](n \in up /\ Cardinality(up) > 1) => []<>(node[n].has_token)

\* Once a ring is formed, the extra tokens users added are gone in the end
\* and one token is left.
OneTokenLeft == <>[](up # {} => Tokens = 1)

\* "Apos a janela de descoberta: a primeira maquina cria o token inicial":
\* machines that stay up, not alone, have a token in the end.
FirstToken ==
  <>[](Cardinality(up) > 1) => <>(\E n \in Machines : node[n].first_token_generated)
=============================================================================
