# A verification of the UDP token ring

The program (`main.py`, `ring/`) simulates a token ring over UDP. Machines have
nicknames, find each other with DISCOVER and HELLO, order themselves
alphabetically and pass a token from successor to successor. A machine with the
token may put one DATA message on the ring; it goes round, is marked ACK or NAK
by its destination, and comes back to its origin, which then passes the token
on. The machine with the smallest nickname is the controller: it generates the
first token, regenerates a lost one and removes duplicates.

This directory holds TLA+ modules that model the program, TLC configurations
that check them, and TLAPS proofs about them. `PROJECT.json` is the index: the
components, the runs, the lines of code every definition stands for, the
hazards, and the theorems.

## 1. Inventory

| Component (source) | State | Operations | What makes it correct |
|---|---|---|---|
| Ring table (`ring/network/discovery.py`) | members | `update`, `remove`, `order`, `successor`, `controller_apelido` | successors form one cycle; a change redirects one machine |
| Token cycle (`ring/core/token_logic.py`) | `has_token`, `epoch`, `last_token_rx`, `expect_token_return`, counters, `waiting`, attempt, fingerprint | receive, hold, forward, generate, inject, regenerate, send DATA, forward timer, return timeout | never two tokens by the program's own doing; never a token stuck; transmits only with the token |
| Engine and handlers (`ring/core/node.py`) | all of the above, `members`, `last_seen`, `segurando_sozinho`, timers, the bus | presence, DATA, periodic discovery, roles, start and shutdown | a return ends its own round only; a live machine is not removed; machines agree on the ring in the end; the first-token evaluation after the last change comes; a shutdown leaves nothing that posts |
| Commands (`ring/core/commands.py`, `ring/ui/console.py`) | `remove_token_pending`, queue | send, gentoken, removetoken, join, quit (status and queue print) | a promised removal happens, and never under DATA that is out |
| Message queue (`ring/core/message_queue.py`) | items with `skip_fault_injection`, `retransmit_used` | enqueue, peek, pop | first in first out; retransmission exactly once |
| Token monitor (`ring/core/token_control.py`) | enabled, paused, last activity; a thread of its own | `note_activity`, `set_paused`, `set_enabled`, `_loop` | paused exactly while the token is here; enabled only on a controller; one timeout per silence |
| Transport (`ring/network/transport.py`) | socket, receiver thread | unicast, broadcast, receive, close | (UDP) may lose, duplicate and reorder; the receiver ends |
| Packets, CRC, faults (`ring/protocol/`) | none | build, parse, `set_controle`, `crc32`, `maybe_corrupt` | what one machine reads the next one reads; a corrupted message gets NAK, an intact one ACK |
| Configuration (`ring/config.py`, `main.py`) | none | parse the two files, choose the mode | a machine knows its own nickname and those of its peers however they are spelled |

How they interact. The receiver thread parses a datagram and posts an event on
the bus; timers (`threading.Timer`), the monitor thread and the console post
events too. One engine thread takes events off the bus and runs each handler to
its end, so the state of a machine has no locks and a handler is one step. The
exceptions are the fields of the monitor, which has a lock of its own, and what
`start()` and `close()` share with the engine. Machines share nothing and
interact by datagrams only.

What is hard here: (1) a timer or a timeout speaks of the past by the time its
event is handled - the code answers with epochs and attempt numbers; (2) late
returns; (3) loss and duplication of the token, and the two detectors that
react to them from the timing alone; (4) a machine that is alone, becomes alone
or stops being alone while it holds the token; (5) every machine decides about
the ring from its own table, and machines come and go without a word; (6) the
monitor's flags are maintained by hand in a dozen places, and its thread runs
between any two of them; (7) timers of two threads around start and shutdown.
`PROJECT.json` lists them at their lines under `hazards`.

## 2. Modules

```
Topology            members, successor, controller (class Ring, closed forms)
  RingTable         the same by sorting, as coded; the table over time
  NodeState         the state of one machine and its helpers
    TokenLogic      token_logic.py
      NodeHandlers  node.py (presence, DATA) and commands.py
        OpenNode    one machine in an arbitrary environment      MCOpenNode
        TokenRing   a formed ring of machines, and the network   MCTokenRing
        TimedRing   machines that start, leave, return; time     MCTimedRing
  RingService       what a formed ring promises (abstract)
Packets             packets.py, symbol by symbol
  Wire              one message round the ring as datagrams      MCWire
  Configuration     config.py, main.py, who hears whom
    Names           two launched machines                    MCNames (with RingTable)
TokenMonitor        the monitor's thread between the engine's statements
Lifecycle           the threads of a node from start() to the end of main()
NodeHandlersProofs  of every helper and handler
  OpenNodeProofs    of one machine
  TokenRingProofs   of any formed ring; of a patient one, and RingService
  TimedRingProofs   of machines that start and leave, with durations
NamesProofs         of any table, and of any files
WireProofs          of any message round any ring
TokenMonitorProofs  of the monitor's thread
LifecycleProofs     of start and shutdown
```

**A handler is a function.** The engine runs a handler to completion, so
`OnRxToken(s, ...)` takes the state of a machine and returns the one after the
handler, and a call in the code is a composition. What the handler sends is
collected in `s.out`; `OpenNode` drops it, `TokenRing` and `TimedRing` put it on
the network. The same definitions are thus used for one machine against
anything and for a ring of machines, and the lemmas about them are proved once.
Only `TokenMonitor` and `Lifecycle` look inside a handler: there it is the
sequence of the statements that touch what threads share.

Correspondence of state: fields of `NodeStates` have the names of the
attributes in the code (`waiting` is `waiting_for_data_return`,
`segurando_sozinho` is `_segurando_sozinho`, `queue` is the `MessageQueue`,
`mon_*` is the `TokenMonitor`). Timers are state too: `forward_timers` counts
the pending TIMER_FORWARD_TOKEN of every epoch (two may be pending in one
epoch), `return_timers` holds the attempts with a pending timeout, `eval_armed`
and `eval_posted` are the first-token timer before and after it has posted its
event - a posted event can no longer be cancelled - and `mon_posted` is the
monitor's event on the bus.

What the data is abstracted to in these modules:
- a nickname is a natural number, the alphabetical order is `<`, and the
  address kept beside a nickname is left out;
- a message is a text and whether `maybe_corrupt` flipped one byte of it; its
  CRC is represented by the text, because CRC-32 detects one changed byte;
- instants are ages. In `OpenNode` and `TokenRing` nothing makes them grow, and
  a comparison of instants is a parameter (`soon`, `recent`, `expired`) that
  goes either way; in `TimedRing` they grow and are compared;
- `no` numbers the messages for the properties; no handler reads it;
- at most one event of the first-token timer and one of the monitor are on the
  bus at a time;
- `_remove_member` called for several expired members is one closed form,
  `RemoveMembers`, which keeps the effect of the intermediate rings on the
  latch `segurando_sozinho`;
- `note_activity` by the receiver thread and by the handler is one step
  (`TokenMonitor` takes them apart);
- a command's destination is valid; `status` and `queue` do not change the
  machine.

### OpenNode: one machine, any environment

Machines of other groups run other programs on the same ring, and UDP may
deliver anything at any time. Here every well-formed datagram may arrive, every
pending timer may expire, the monitor may fire whenever it is enabled and not
paused, users may type anything, and every comparison goes both ways. What
holds here holds for the machine in any ring.

### TokenRing: a formed ring

Machines that know each other, the first token just generated, and a network
that may lose, duplicate and reorder datagrams. A behaviour follows one of
`Scenarios`: the texts users send in order, their possible destinations, which
kinds of faults may happen (`lose`, `duplicate`, and the users' `add` and
`remove`), and how many of them. There are two regimes:
- `Patient = TRUE`: the configured durations fit the ring. The return timeout
  expires only when the DATA is not on the ring any more, the monitor fires
  only when no token and no DATA is, and a lone token does not come back within
  `min_token_interval`. This is an idealisation: no configuration makes it true
  when DATA is lost away from the controller (section 5, 6).
- `Patient = FALSE`: timeouts expire at any time and comparisons go either way.

### RingService: the abstract specification

One token goes round in the order of the ring; it may get lost and the
controller makes a new one; a message leaves a queue only while its machine has
the token, in order, at most one per visit. `TokenRing!ImplementsService` maps
the ring onto it: the holder is the machine that has the token or that the
token in flight is sent to, and `Waiting` are the numbers in the queues. Its
fairness says that the token moves on: every machine gets it again and again.

### TimedRing: membership and time

Machines start, find each other, leave and come back, with the same handlers and
with durations. Time is discrete, in half seconds (`discover_interval`): `Pass`
makes all ages of `NodeState` grow and all timers (`timer`: one list per epoch,
the return timeouts by attempt, the first-token evaluation, the periodic round,
the chain of DISCOVERs) go down, and happens only when no datagram is in flight,
no event is due and no timer stands at zero. So the network and the engines are
fast, and in one instant things happen in any order. An age equal to a limit may
be decided either way where the code compares instants that come from different
threads (`MonitorThread`, `Overdue`).
- A DISCOVER and all the HELLOs that answer it are one step (`Presence`, in which
  `Greeted` handles the HELLOs one by one); the machines of `deaf`, bounded by
  the scenario, miss the whole round.
- Leaving and crashing are the same action: `_shutdown` sends nothing. What is
  in flight to the machine is lost, what it held is gone; `Start` begins with
  a fresh state.
- `Scenarios` say which machines start together, and bound starts, departures,
  messages, added tokens, joins and missed rounds. `SettledLeaves` restricts
  departures to rings in which everybody has seen the token; `timed_no_first`
  shows what happens otherwise.

### Packets, Wire and Configuration: bytes

A datagram is a sequence of symbols: the separator and NUL are symbols, and a
field or a byte the code does not look into is one. `Packets` has the builders,
`split` with a limit, `set_controle` and `parse` with its trailing NUL. `Wire`
sends one message round: the flipped byte, the parser and the answer at every
machine, machines of other groups that append NUL, the comparison at the
origin, the retransmission and the timeout. `Configuration` has the two files as
sequences of lines: the nickname, the four numbers with their ranges, the peers,
the mode, and what a launched machine makes of a presence datagram
(`Hears`: its own echo, the address by mode). `Names` launches two machines with
files of their own, and lets the peers file they share grow line by line.

### TokenMonitor: a thread between the statements

A handler of a machine that is not alone is the list `todo` of the statements
that touch the monitor, the token, a timer or the network, and the monitor's
thread (`Wake`, `Decide` under the lock, `OnTimeout` outside it) and the receiver
(which notes first and posts later) run between any two. Threads that have
something to do lag at most `MaxLag` ticks. The machine is the controller,
loses the control when a smaller nickname appears (`SmallerEnters`), and regains
it when that one expires (`SmallerExpires`), each an event of its own: others
are handled in between, a timeout that was posted before among them, and a
second token may come to a machine that is no controller and passes it on. A return
is a NAK or not (`DataReturned`), and the queue is its length. Left out:
`min_token_interval` and `expect_token_return` (every token that comes to a machine without one is taken,
which only gives the monitor more to do), and a token that the other
controller regenerates meanwhile.

### Lifecycle: start and shutdown

The main thread, the engine, the receiver, the monitor and the first-token
timers, statement by statement; a handler is what it does to timers. Members
announce themselves as soon as the receiver runs, so `start()` in the main thread and the
engine both call `_schedule_first_token_eval` on `_first_token_timer`. A
`threading.Timer` looks at its flag (`TimerElapses`) and then posts
(`TimerPosts`); `cancel()` may come in between. Every `join` has a timeout and
may return while the thread still runs. A closed socket may or may not wake a
blocked `recvfrom`: nothing says that `ReceiverEnds` happens.
The timers of the token and of the DISCOVERs are left out: nobody cancels them,
and `post` ignores them after the shutdown.

## 3. Runs

| Run | Instance | Shows |
|---|---|---|
| `names` | the table with 8 nicknames; two machines, 12 configuration files each, all peers files of up to 2 lines out of 14; 30 655 states | `ClosedFormsAgree`, `OneCycle`, `OneRedirected`, `OwnEchoIgnored`, `PeersHeard` |
| `open_node` | nicknames 1, 2; machine 1 or 2; 1 text, queue of 1, one renewed epoch, three transmissions; 452 480 states | `TypeOK`, `WaitingHoldsToken`, `TokenNotStuck`, `RemovalKept`, `MonitorInStep`, `ActiveIsHead`, `RetransmitOnce` |
| `ring` | machines 1, 2, 3, a nickname nobody has; `Patient`; 2 messages and 1 loss, or 1 message and 1 removal; fairness; 26 579 states | `AtMostOneToken`, `MediumExclusive`, `AtMostOnceDelivery`, `ImplementsService`, `MessagesConclude` |
| `ring_udp` | the same machines, not `Patient`; 2 messages, or 1 message (to a machine, nobody or everybody) and any fault, or 1 message and 2 faults of the network; 772 000 states | `AckMeansDelivered`, `TokenLedger`, `RingIntact` |
| `wire` | 3 machines, one of another group, texts of up to 3 symbols with separators, flips into any byte, 1 loss; 11 793 states | `AckMeansIntact`, `DeliveredUnlessCut`, `OnlyControleChanges`, `ForwardedAsRead` |
| `token_monitor` | 2 messages, 1 lost token, 1 lost DATA, the control lost and regained, lag of 2 ticks, fairness; 1 981 640 states | `TypeOK`, `OneTimeoutOnBus`, `NoFalseAlarm`, `Recovers` |
| `lifecycle` | 2 new members, 1 periodic round, 1 timeout, fairness; 2 961 519 states | `TypeOK`, `TwoTimersAtMost`, `EvaluationKept`, `NothingLeftRunning`, `EvaluationComes` |
| `timed_churn` | up to 3 machines: two late starts, late join and departure, leave and return, missed rounds; fairness; 175 630 states | `AtMostOneToken`, `HoldEnds`, `NoFalseAlarm`, `Converges`, `Recovers` |
| `timed_traffic` | 3 machines: a message, a departure, an added token, a join, two at once; fairness; 121 221 states | `LiveStay`, `OneTokenLeft` |
| `ring_same_text` | 2 messages of the same text | violates `NoMixUp` |
| `timed_no_first` | 3 machines, the first leaves early | violates `FirstToken` |
| `timed_short_round` | 3 staggered starts, `min_token_interval` 2 s | violates `LastTokenKept` |

Why the bounds are enough. In `OpenNode` a second nickname is all a machine can
tell from itself and BROADCAST; machine 1 is always its own controller and
machine 2 gains and loses the control, so both directions of `_recompute_role`
happen. One renewal of the epoch gives a timer of an old epoch to confuse with
the current one, three transmissions give first, retransmission and a later
message. Proofs remove all of these bounds for one machine, and those of
`names`, `wire`, `ring` and `ring_udp` for the properties section 4 lists. In the ring, three
machines are the smallest number with an intermediary between origin and
destination, nickname 4 is the absent destination, and one fault (two in
`ring_udp`) is one more than the program's own steps make; `MaxEpoch` lets every
loss and removal be repaired in `ring`. In the impatient runs `MaxEpoch = 2`
allows one premature regeneration, and a ring that loses the last token stops:
`ring_udp` and
`ring_same_text` do not check for deadlock. In `wire` the message is concluded in the
end, and in `names` the peers file has its last line: these do not either. The
other runs do.

The durations of the `timed_*` runs are those of class `Node` (discovery window
6 s, presence 2 s, member timeout 6 s, quiet period 0,75 s, which in half
seconds is "up to one") and `token_time` 1 s, `timeout_token` 10 s;
`min_token_interval` is 0,5 s in `timed_churn`, where rings of two come and go,
and 2 s in `timed_traffic`, which has a duplicate to detect. They
are chosen so that a round of three is shorter than the timeout and longer than
the interval. `MaxEpoch` is above what any behaviour of these two runs
reaches, so it cuts nothing off. The values of `config.example.txt` are not: section 5, 5. In
`token_monitor` a round takes at most 3 ticks and the timeout 6: the smallest
numbers with room for a round and for a late thread in it. In `lifecycle` one
announcement is enough for two timers to run; the second one tries to make a
third, and one round, one timeout and a user who quits come at every place of
that race.

Fairness.
- `TokenRing` and `TokenMonitor`: while some event, datagram or timer of the
  machines is due, one of them happens (one weak fairness for all of `System`).
  This is less than the code gives - every engine loop, receiver, timer and
  monitor has a thread of its own - and it is enough because each of them can
  happen only finitely often before the token moves. Nothing is assumed of
  users and of the network; a datagram is received in the end only because
  faults are bounded.
- `Lifecycle`: the same for the statements and for what a thread does once it
  has begun. Nothing is assumed of users, who need not quit, of members, of the
  monitor's timeouts and of a blocked receiver: `EvaluationComes` says that when
  members stop changing, the evaluation after the last change is made, or the
  node is closed.
- `TimedRing`: `WF_vars(Pass)`, and `TimePasses`: while machines are up, time
  does not stand still. The code's loops and timers do take time; the model
  needs to say so because its instants have none. It leaves out one real
  behaviour: DATA whose origin has left goes round for ever (section 5, 7).

The types of `TokenRing` are proved (`TypeCorrect`) and no run checks them: of a
machine they are those of `open_node`.

Every property of a passing run has a mutant: an operator beside the definition
it changes, commented `Mutant`, with which the run fails.

## 4. Proofs

A theorem holds for every value of the constants that satisfies its hypotheses;
the run of the same property shows it on one instance. No property is
inductive by itself: each proof has an inductive invariant, which was checked
with TLC on the instance of the run before it was proved, one lemma per action
that says the action keeps it, and a theorem that follows from it.

| Theorems | For every | Inductive invariant | Properties |
|---|---|---|---|
| `OpenNodeProofs` | machine, environment, queue limit, bound on epochs | `IInv` | the seven of `open_node` |
| `TokenRingProofs` | ring, scenario, patient or not | `RingInv` | `TypeOK`, `TokenLedger`, `RingIntact` |
| | ring, with `DistinctTexts` | `MessagesInv` | `AckMeansDelivered`, `NoMixUp` |
| | ring, with `PatientRing` | `PatientInv` | `AtMostOneToken`, `MediumExclusive`, `AtMostOnceDelivery`, the steps of `RingService` |
| | the same, texts may be equal | `PatientInv`, `MessagesInv` | `AckMeansDelivered`, `NoMixUp` |
| `TimedRingProofs` | machines, durations, scenarios | `MachinesInv` | `HoldEnds` |
| | the same, with `SteadyRing` | `MachinesInv`, `LiveInv` | `LiveStay` |
| `NamesProofs` | table of members | `TableInv` | `ClosedFormsAgree`, `OneCycle`, `OneRedirected` |
| | pair of configuration files and peers file | `FilesInv` | `OwnEchoIgnored`, `PeersHeard` |
| `WireProofs` | ring, texts, flips, losses, machines of other groups | `WireInv` | the four of `wire` |
| `TokenMonitorProofs` | durations, bounds | `MonitorInv` | `TypeOK` |
| | durations with `LagFits` | `LagInv` | `OneTimeoutOnBus` |
| | durations with `TimeoutFits` | `AlarmInv` | `NoFalseAlarm` |
| `LifecycleProofs` | bounds | `LifeInv` | `TypeOK`, `TwoTimersAtMost`, `EvaluationKept`, `NothingLeftRunning` |

**Assumptions.** Those of the modules are: nicknames are a finite, nonempty set
of naturals and BROADCAST is not one of them; `QueueMax` is positive (no theorem
needs the code's value 10); `MaxEpoch` is positive, because the first token
begins epoch 1; durations are positive, and
`MaxLag` and the bounds naturals. `Wire` and `Names` say what symbols are:
there is no separator in a nickname (`config.py:82`), in a destination
(`commands.py:26`), in the words of the protocol or in an address (the sockets
are `AF_INET`, so no IPv6); upper case taken twice is upper case taken once; a
message has a text (`console.py:77`), and one typed at the console has no NUL at
its end.

The hypotheses of single theorems say what the code relies on, and what fails without them:
- `DistinctTexts`: no two messages of a scenario have the same text. Without
  it `ring_same_text` violates `NoMixUp` (section 5, 1).
- `PatientRing`: the durations fit (`Patient`), users add no token and the
  network doubles nothing. Every scenario of the run `ring` satisfies it;
  losses, removals and messages to absent machines are allowed.
- `SteadyRing`: `PresenceInterval < MemberTimeout`, nobody misses a round of
  presence, and a scenario with messages has no late starts. All scenarios of
  `timed_traffic` satisfy it. TLC finds `LiveStay` violated with an interval
  equal to the timeout, with five missed rounds of two machines (three are not
  enough: the hypothesis asks for more than is needed), and with a message and a
  late start, because a machine that starts between a DATA's origin and the
  machine the DATA is at may be passed over, so that DATA for it comes back
  untouched.
- `LagFits`: `MaxLag <= TokenTimeout`. `TimeoutFits`: the timeout is no less
  than a round and one lateness (`MaxRound + MaxLag`), nor than a hold and two
  (`TokenTime + 2 * MaxLag`). The values of `token_monitor` satisfy both
  conjuncts, the second one with equality. Both are needed: with
  `(TokenTime, TokenTimeout, MaxRound, MaxLag)` equal to `(2, 5, 3, 2)`, which
  fails the second one only, and to `(2, 6, 5, 2)`, which fails the first one
  only, TLC finds `NoFalseAlarm` violated.

**One machine.** `IInv` is
`MachineInv(node) /\ node.epoch <= MaxEpoch /\ tries = TriesOf(node)`, and
`MachineInv` is a conjunction of
- `NodeStates`: the types;
- `RoleInv`: a machine is a member of its own ring, is the controller exactly
  if it is the smallest, and only then is its monitor enabled;
- `QueueInv`: only the head of the queue may be marked for retransmission, and
  then it skips fault injection;
- `RoundInv`: while waiting there is an active attempt with a pending timeout,
  whose fingerprint is that of the head, and the machine holds the token;
- `TokenInv`: what will release a token that is here, that a pending removal
  meets a token only under a round, and that the monitor is paused exactly while
  the token is here.

`tries` counts transmissions of the head; that it is a function of the state
(`TriesOf`) turns "at most twice" into an invariant of one state. For instance,
`TokenNotStuck` needs `RoleInv` (a machine that is not alone has a successor
other than itself) and the latch being set in *every* state in which the
machine is alone with a token and no DATA out. The layout follows the code:
`NodeHandlersProofs` has the facts about the minimum of a set of nicknames
(`SuccessorInjective`), then a lemma per helper and per handler of the token
cycle, of presence, DATA and commands, each saying that the handler keeps
`MachineInv` and what it does to `tries` (`Counts`); `OpenNodeProofs` has one
step per action. The bounds `MaxAttempts`, `MaxCount` and `MaxTimers` are not
used.

**A formed ring.** `RingInv` says that every machine satisfies the same
`MachineInv` - so the lemmas about handlers are used again - that all know all,
that DATA has an answer exactly if it has passed its destination (`InOrder`), and
that the ledger balances. `RingIntact` needs `InOrder`: a return without an
answer is proof that the destination is absent, late or not. The ledger is a sum
over machines (`Total`); the lemmas about it say that a step changes the sum by
what it changes at one machine, and the lemmas of a second kind per handler say
what each puts into `out`: the token a machine had, or received, is the one it
keeps or sends. `MessagesInv` adds that a number and a text belong together in
every queue and datagram; with `DistinctTexts` the fingerprint then identifies
the message, which is what the comparison at `node.py:487` relies on.

**A patient ring.** `PatientInv` adds that there is one token at most, that the
only DATA on the ring is the one its origin waits for, that a posted timeout of
the monitor finds neither token nor DATA, that a number is in one place of one
queue, and that it has not been delivered before it is out. They hold each
other up: a timeout posted when there was no token finds none when it is
handled, because nothing but its handler makes one; so one machine at most has
the token, so one waits, and its DATA is the only one; so a return is that of
the head of its queue; so a message leaves its queue when it is concluded and
not before. From it `StepsOfTheService` proves
`Init => Service!Init` and that every step is a step of `RingService` or changes
none of its variables: `Lose`, `Regenerate`, the move of the token, and the
concluded message leaving at most one at a time, in order. That is
`ImplementsService` without its fairness. `NoMixUp` needs no `DistinctTexts`
here: by `PatientInv` the DATA a machine takes for its own *is* that of its round
(`RoundsOwnData`), so `MessagesInv` is kept whatever the texts are, and an ACK is
true. What `ring_same_text` shows takes a timeout that is too short.

**Members that come and go.** In `TimedRing` the durations decide, not a choice.
`MachinesInv` says that every machine that is up satisfies `MachineInv`, that
the timers it counts (`forward_timers`, `return_timers`) are exactly those that
run, each with a time left within its duration (`Clock`), and that a machine that
is down has nothing. A handler knows timers by their count only; that the count is
true is what makes `TokenNotStuck`, a statement about counts, into `HoldEnds`,
one about time. A round of presence is a fold of HELLOs over the set of those that
answer; `GreetedFacts` goes through it by induction over the subsets of that set,
stated for one fixed function and so within the reach of the provers.
`LiveInv` is about pairs of machines that are up: each knows the other
(`HeardOf`), and the age at which it last heard of it plus the time to its next
round is at most `presence_interval`, or, while the chain of DISCOVERs runs
(`Paced`), half a second; a round that follows a deferred one expires nobody.
So at a round that expires, nobody who is up is old (`RoundKeeps`). `LiveStay`
asks this of the handler alone (`Kept`), for the answers to the DISCOVER, which are
part of the same step, would bring back at once whoever it had removed. For the other way of
being removed, DATA without an answer has not been at its destination if that is
up (`OnItsWay`): all that are up know each other, so a machine passes DATA to the
next one up or to one that has left, where it is lost, and never over its
destination (`PassedOthers`, `PassedOneMore`). The lemmas of a third kind per
handler (`Calm`, `Rest`) say that it leaves the table alone and sends no DATA but
its own, to its successor.

**Names.** The position of a nickname in the sorted table is the number of
smaller ones, `Rank`; that it is a bijection onto the positions is shown by a
least counterexample, and from it follow the closed forms of
`Topology`, and `OneCycle`: k steps from any machine lead k positions on, modulo
the size of the table. `OneRedirected` needs no order but that of the naturals: the
successor of a machine changes only if the machine that came or went is the first
one after it. For the files: a nickname that a launched machine calls itself has no
separator and is its own normal form, so its presence datagram has exactly two
separators around it, `split` finds it, and the spelling compared is the one
sent; a peers file that names the nickname gives the address.

**A message symbol by symbol.** A datagram is ten header symbols and the message,
separators being where the header puts them whatever the message contains. `Cut`
finds the k-th separator by counting; the lemmas about it (`CountTo`) give the
five fields back. `WireInv`: what is in flight is the datagram of the message
sent, with the answer that the machines it has visited determine, and reads back
as sent unless its last byte was flipped into NUL. `OnlyControleChanges` and
`ForwardedAsRead` are then facts about `SetControle` and `ParseData` alone, for
any datagram `WireInv` allows.

**The monitor's thread.** The engine is where the list `todo` of statements left
says. `Place(todo)` sorts these lists into groups (taking, holding,
passing, ...), and `ControlInv` says for each what the machine, the pause and
the flags are: between handlers the monitor is paused exactly while the token is
here, and a token is being counted lost by a controller only, because the handler
that takes the control away cannot come between `_on_mon_token_timeout`'s test
and its count. That these lists are the only ones is part of the types. `LagInv`:
after a timeout was declared the silence is no older than the threads are
late, so that a second one is not declared before the first is handled.
`AlarmInv`, while no DATA has been lost: there is one token, none of it when
a timeout is declared, and the silence is bounded wherever the token is - by the
age of what is away (`AwayInv`, `ReturnInv`), by the time held (`HeldInv`), or by
the lateness of the threads when something has arrived and waits (`ArrivedInv`).
`ReleaseInv` covers the statements between lifting the pause
(`token_logic.py:197`) and noting the activity (line 206): the monitor may run
there, and what keeps it from alarming is `TimeoutFits` alone. `NoRelay`: with
one token nobody passes on a second one.

**Start and shutdown.** No hypotheses: members announce themselves at any time.
`LifeInv` says how far the threads have come (`ThreadsInv`) and what follows for
the timers. The engine knows of one timer, the one kept or the one it is about to keep
(`Slot`); besides it one alone may run, which main has started and not kept yet,
or which was lost when the two threads overwrote each other's (`TimersInv`). Main
starts one timer only, so there is never a third (`TwoTimersAtMost`). The timer
started last is cancelled only by a thread that has `start_timer` to do next, or
by the shutdown (`KeptInv`, from which `EvaluationKept`). Nobody has quit while
`start()` runs (`BootInv`), so the shutdown's `cancel` meets what is kept in the
end, and what it has stopped stays stopped (`ShutdownInv`), because `stopping` is
set before and `post` refuses (`Stages`): `NothingLeftRunning` leaves the one
timer that was lost, whose event `post` drops.

**Only model-checked**, and why:
- liveness (`MessagesConclude`, `Recovers`, `Converges`, `OneTokenLeft`,
  `EvaluationComes`) and the
  fairness half of `ImplementsService`: liveness under fairness and `ENABLED` are
  outside what the prover does;
- `AtMostOneToken` and `NoFalseAlarm` of `timed_churn`: they depend on how long the token needs round a ring whose
  membership changes, and hold for durations that fit; the condition relates the
  ages of several machines, as `AlarmInv` does for one (section 6).

## 5. Findings

Three disagreements between the code and what its comments say have a run.

1. `ring_same_text`: `_on_rx_data` recognises its own DATA by destination, CRC
   and text (`node.py:487`), and the comment there (`node.py:488-490`) says this
   is in order not to conclude the wrong message. When the return timeout gives
   up a message and the next one has the same text and destination, the late ACK
   of the first ends the round of the second. With different texts the
   comparison does what the comment says: `ring_udp` checks it.
2. `timed_no_first`: when the first machine leaves before its window ends, the
   others have spent their evaluation as non-controllers, the next controller
   never evaluates again and its monitor is not enabled (`node.py:298`): nobody
   makes a token.
3. `timed_short_round`: a machine that held the token while it was alone passes
   it on without `token_time` when another one appears (`node.py:406`); the round
   is short and the controller consumes the only token (`token_logic.py:67`).

These others were met with the same modules, some with other values of the
constants, and the properties named exclude or bound them:

4. *The last timer.* "So o ultimo timer agendado dispara EVAL_FIRST_TOKEN"
   (`node.py:225`). `start()` calls `_schedule_first_token_eval` in the main
   thread (line 185) while the engine it started at line 175 may call it for a member
   that announced itself: neither finds the other's timer, and both fire.
   With 1 in place of 2, `TwoTimersAtMost` of `lifecycle` is violated. The race
   costs an early evaluation and nothing more: the last one is made too
   (`EvaluationComes`).
5. *False alarms by configuration.* With `config.example.txt` (token_time 2 s,
   timeout 2,5 s) and three machines the token is held elsewhere for longer than
   the timeout, and the controller makes a second one: `TokenTime = 4`,
   `TokenTimeout = 5`, `MCStarts` violates `NoFalseAlarm`. The timeout must
   exceed `token_time` times the number of other machines, plus the duration of
   a DATA round at each.
6. *False alarms by lost DATA.* The origin of a lost DATA waits `token_timeout`
   with the token (`token_logic.py:158`), and so does the controller in silence:
   no value avoids a second token. The controller itself may raise one:
   `_forward_token` lifts the monitor's pause (line 197) before it restarts the
   silence (line 206), which is as old as the DATA, and the monitor's thread may
   run in between. `TokenMonitor!NoFalseAlarm` is stated up to the first loss of
   DATA for this reason, and `timed_churn` sends no messages.
7. *DATA without an owner.* When its origin leaves, DATA goes round for ever
   (`node.py:584`), and every pass resets the controller's monitor
   (`node.py:148-155`), so that a token lost with the origin is not regenerated
   while it does. `TimePasses` leaves these behaviours out.
8. *Late joiner.* A machine of the smallest nickname that joins three others
   evaluates after its window; with `token_time` 3 s the token needs longer to
   come by, and a second one is made (`node.py:383`). In `timed_churn` it comes
   by in time.
9. *Absent and back.* DATA to a machine that leaves and restarts while it is on
   its way comes back untouched, and its origin removes a machine that is up
   (`node.py:516`). In `timed_traffic` nobody restarts; `LiveStay` holds there.
10. *Duplicates.* With two added tokens in a ring of three, two run through the
   holders in an instant back to a controller that has just forwarded its own,
   and all three are consumed. A message shortens a round as well: a DATA round
   takes no `token_time`, so a ring with `min_token_interval` near the duration
   of its round consumes a lone token. `OneTokenLeft` says that the ring
   recovers from a single added one.
11. *The last byte.* A last byte flipped into NUL is dropped by the next parser,
    the NAK that returns has a shorter message, the origin does not recognise it
    and gives the message up at the timeout. `DeliveredUnlessCut` excepts it.
12. *close().* Where closing a socket does not wake a blocked `recvfrom`
    (Linux), the receiver goes on until the process ends; `close()` waits its
    second and `main()` ends all the same. So every `Join` may give up.

## 6. What is left

Theorems: `TimedRing!AtMostOneToken` for durations that fit. It needs an
invariant on where the token is and how old the silence of the controller is, over
a ring in which members come and go: the window of a late first machine must
outlast the rest of a round (section 5, 8), and the timeout a whole one. And
`LiveStay` with late starts beside messages, for rings in which the DATA of
before the start is told from that of after it; as it is stated,
`SteadyRing` excludes them.

Partly modelled: `Configuration` leaves out opening and decoding the files
(a file that cannot be read ends the program), `argparse`, how the text of a
number is written, and `detect_ip`.

Not modelled: the log and the texts of the console, the options of the sockets,
the errors of a send (a lost datagram), the catch-all for exceptions of a handler
in the engine loop (no modelled handler raises one), the tests and their drivers,
`md2html.py`, and the samples under `Material de apoio`.
