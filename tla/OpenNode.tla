------------------------------ MODULE OpenNode ------------------------------
(***************************************************************************)
(* One machine in an arbitrary environment.  Machines of other groups run  *)
(* other programs on the same ring and UDP loses, repeats and reorders, so *)
(* here any datagram may arrive at any time, users type any command, every *)
(* pending timer may expire at any time and every comparison of instants   *)
(* may go either way.  What holds here holds for the machine in any ring.  *)
(***************************************************************************)
EXTENDS NodeHandlers

CONSTANTS
  Me,          \* the nicknames the machine may be configured with
  MaxAttempts, \* bound: DATA transmissions
  MaxCount,    \* bound: tokens counted lost or duplicate
  MaxTimers    \* bound: forward timers pending in one epoch

ASSUME MeAssumption == Me \subseteq Apelido

VARIABLES
  node,   \* the machine
  tries   \* history: transmissions of the message at the head of the queue

vars == <<node, tries>>

-----------------------------------------------------------------------------
\* The bounds of the model.

Bounded(s) ==
  /\ s.epoch <= MaxEpoch
  /\ s.data_attempt_seq <= MaxAttempts
  /\ s.tokens_perdidos + s.tokens_duplicados <= MaxCount
  /\ \A e \in 0 .. MaxEpoch : s.forward_timers[e] <= MaxTimers

\* The machine becomes s; the datagrams it sent leave the model.  A message
\* has left the head of the queue exactly when the queue got shorter.
Become(s) ==
  /\ Bounded(s)
  /\ node' = [s EXCEPT !.out = NoOut]
  /\ tries' = (IF Len(s.queue) < Len(node.queue) THEN 0 ELSE tries)
              + (s.data_attempt_seq - node.data_attempt_seq)

Init ==
  /\ \E me \in Me : node = [StartedNode(me) EXCEPT !.out = NoOut]
  /\ tries = 0

-----------------------------------------------------------------------------
\* Datagrams

Others == Apelido \ {node.apelido}

\* No handler reads the number of a message, so one number is enough here.
Arriving == [origem : Apelido, destino : Destino, controle : Controle,
             crc : Text, message : Content, no : {0}]

RxDiscover == \E ap \in Others, hit \in BOOLEAN : Become(OnRxDiscover(node, ap, hit))
RxHello == \E ap \in Others, hit \in BOOLEAN : Become(OnRxHello(node, ap, hit))
RxToken == \E soon, hit \in BOOLEAN : Become(OnRxToken(node, soon, hit))
RxData == \E f \in Arriving : Become(OnRxData(node, f))

\* Timers and the monitor

TimerForwardToken ==
  \E ep \in 0 .. MaxEpoch, hit \in BOOLEAN :
    /\ node.forward_timers[ep] > 0
    /\ Become(OnTimerForwardToken(node, ep, hit))
TimerDataReturnTimeout ==
  \E attempt \in node.return_timers : Become(OnTimerDataReturnTimeout(node, attempt))
MonitorThread ==
  /\ MonitorMayFire(node)
  /\ ~node.mon_posted
  /\ Become(MonitorFires(node))
MonTokenTimeout ==
  /\ node.mon_posted
  /\ Become(OnMonTokenTimeout(node))
EvalTimer ==
  /\ node.eval_armed
  /\ ~node.eval_posted
  /\ Become(EvalTimerFires(node))
EvalFirstToken ==
  /\ node.eval_posted
  /\ Become(OnEvalFirstToken(node))
DiscoveryTick ==
  \E recent \in BOOLEAN, expired \in SUBSET Others :
    Become(OnDiscoveryTick(node, recent, expired))

\* Commands (join sends a DISCOVER and changes nothing here)

CmdSend ==
  \E destino \in Destino, text \in Text : Become(OnCmdSend(node, destino, text, 0))
CmdAddToken == Become(OnCmdAddToken(node))
CmdRemoveToken == Become(OnCmdRemoveToken(node))

Next ==
  \/ RxDiscover \/ RxHello \/ RxToken \/ RxData
  \/ TimerForwardToken \/ TimerDataReturnTimeout
  \/ MonitorThread \/ MonTokenTimeout \/ EvalTimer \/ EvalFirstToken
  \/ DiscoveryTick
  \/ CmdSend \/ CmdAddToken \/ CmdRemoveToken

Spec == Init /\ [][Next]_vars

-----------------------------------------------------------------------------
\* Properties

\* Every part of the machine keeps its type (Node.__init__).
TypeOK == node \in NodeStates /\ tries \in Nat

\* A machine transmits only with the token: while its DATA is out it holds
\* the token, so no handler may generate, forward or withdraw it meanwhile.
WaitingHoldsToken == node.waiting => node.has_token

\* The DATA a machine waits for is the message at the head of its queue, so
\* the head a return or a timeout removes is the message that was sent.
ActiveIsHead ==
  node.waiting =>
    /\ node.queue # <<>>
    /\ node.active_data_attempt # NoAttempt
    /\ node.active_data_fingerprint.destino = Head(node.queue).destino
    /\ node.active_data_fingerprint.crc = Head(node.queue).text

\* A token is never stuck: a machine that holds one has a pending event that
\* releases it (the timeout of the DATA it waits for, or a forward timer of
\* the current epoch), or is alone and resumes when a member appears.
TokenNotStuck ==
  node.has_token =>
    \/ node.waiting /\ node.active_data_attempt \in node.return_timers
    \/ Alone(node) /\ node.segurando_sozinho
    \/ node.forward_timers[node.epoch] > 0

\* A removal that was promised is never passed over: with the promise
\* pending, a machine holds a token only until its DATA is back.
RemovalKept == node.remove_token_pending /\ node.has_token => node.waiting

\* The monitor of a machine watches exactly when it may conclude something:
\* it is paused while the token is known to be here, and it is enabled only
\* on the controller, once a token is known to exist.
MonitorInStep ==
  /\ node.mon_paused <=> node.has_token
  /\ node.mon_enabled =>
       /\ IsController(node.members, node.apelido)
       /\ node.first_token_generated \/ node.observed_activity

\* A retransmission goes out without an injected fault, and a message is
\* transmitted at most twice ("retransmite apenas uma vez").
RetransmitOnce ==
  /\ node.waiting /\ Head(node.queue).retransmit_used =>
       ~node.active_data_fingerprint.message.flipped
  /\ tries <= 2
=============================================================================
