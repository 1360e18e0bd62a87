------------------------------ MODULE NodeState ------------------------------
(***************************************************************************)
(* The state of one machine (class Node of ring/core/node.py, with its     *)
(* MessageQueue and its TokenMonitor) and the helpers its handlers call.   *)
(*                                                                         *)
(* All handlers of a machine run to completion on its engine thread, so a  *)
(* handler is a function from the state before it to the state after it.   *)
(* A helper or a handler is written the same way: it takes the state `s'   *)
(* and returns the new one, and a call in the code is a composition here.  *)
(* The datagrams a handler sends are collected in s.out; the module that   *)
(* owns the machine hands them to the network and empties s.out.           *)
(*                                                                         *)
(* Instants (last_token_rx, last_data_activity, member_last_seen and the   *)
(* clock of the monitor) are kept as ages: "now" is 0 and a module with a  *)
(* clock makes them grow.  A module without one leaves them at 0 and       *)
(* chooses the outcome of every comparison with a duration.                *)
(***************************************************************************)
EXTENDS Sequences, Topology

CONSTANTS
  Apelido,    \* the nicknames that may ever be heard of
  BROADCAST,  \* the destination that means everybody
  Text,       \* the message texts users type
  None,       \* active_data_fingerprint of a machine that has no DATA out
  QueueMax,   \* MessageQueue.MAX (10 in the code)
  MaxEpoch    \* bound: how often one machine renews its epoch

ASSUME ApelidoAssumption ==
  Apelido \subseteq Nat /\ Apelido # {} /\ IsFiniteSet(Apelido)
ASSUME BroadcastAssumption == BROADCAST \notin Apelido
ASSUME QueueMaxAssumption == QueueMax \in Nat \ {0}
ASSUME MaxEpochAssumption == MaxEpoch \in Nat

-----------------------------------------------------------------------------
\* Messages and datagrams

\* The bytes of a message on the wire: a text, or that text with one byte
\* flipped by maybe_corrupt.
Content == [text : Text, flipped : BOOLEAN]
Intact(text) == [text |-> text, flipped |-> FALSE]

\* maybe_corrupt: one byte is changed, unless the caller asks to skip it.
\* `hit' is the outcome of the draw against error_prob.
MaybeCorrupt(text, hit, skip) == [text |-> text, flipped |-> hit /\ ~skip]

\* The CRC field is the CRC of a text, represented by that text: a CRC-32
\* tells a message from the same message with one byte changed.
CrcMatches(content, crc) == content = Intact(crc)

Destino == Apelido \cup {BROADCAST}
CTRL_NONE == "maquinainexistente"
CTRL_ACK == "ACK"
CTRL_NAK == "NAK"
Controle == {CTRL_NONE, CTRL_ACK, CTRL_NAK, "unexpected"}

\* A DATA datagram.  `no' is not on the wire and no handler reads it: it
\* names the message for the properties.
Frame == [origem : Apelido, destino : Destino, controle : Controle,
          crc : Text, message : Content, no : Nat]

Item == [destino : Destino, text : Text, no : Nat,
         skip_fault_injection : BOOLEAN, retransmit_used : BOOLEAN]

\* The field values by which a returning DATA is recognised.
Fingerprint == [destino : Destino, crc : Text, message : Content]
FingerprintOf(f) == [destino |-> f.destino, crc |-> f.crc, message |-> f.message]

\* What one handler sends: TOKEN (by target), DATA, DISCOVER and HELLO.
Out == [token : SUBSET Apelido,
        data : SUBSET [to : Apelido, frame : Frame],
        presence : SUBSET [to : Apelido, tipo : {"DISCOVER", "HELLO"}, apelido : Apelido]]
NoOut == [token |-> {}, data |-> {}, presence |-> {}]

-----------------------------------------------------------------------------
\* The state of a machine

NoInstant == -1  \* last_token_rx is None
NoAttempt == 0   \* active_data_attempt is None: attempts count from 1

NodeStates ==
  [apelido : Apelido,
   members : SUBSET Apelido,
   member_last_seen : [Apelido -> Nat],
   is_controller : BOOLEAN,
   has_token : BOOLEAN,
   first_token_generated : BOOLEAN,
   observed_activity : BOOLEAN,
   epoch : Nat,
   last_token_rx : Nat \cup {NoInstant},
   expect_token_return : BOOLEAN,
   tokens_perdidos : Nat,
   tokens_duplicados : Nat,
   remove_token_pending : BOOLEAN,
   waiting : BOOLEAN,
   data_attempt_seq : Nat,
   active_data_attempt : Nat,
   active_data_fingerprint : Fingerprint \cup {None},
   last_data_activity : Nat,
   segurando_sozinho : BOOLEAN,
   discovery_deferred : BOOLEAN,
   queue : Seq(Item),
   forward_timers : [0 .. MaxEpoch -> Nat],  \* pending TIMER_FORWARD_TOKEN, by epoch
   return_timers : SUBSET Nat,               \* pending TIMER_DATA_RETURN_TIMEOUT, by attempt
   eval_armed : BOOLEAN,                     \* _first_token_timer is running
   eval_posted : BOOLEAN,                    \* its event is on the bus: cancel() is too late
   mon_enabled : BOOLEAN,
   mon_paused : BOOLEAN,
   mon_silence : Nat,                        \* age of the monitor's _last_activity
   mon_posted : BOOLEAN,                     \* MON_TOKEN_TIMEOUT is on the bus
   out : Out]

-----------------------------------------------------------------------------
\* Helpers

Alone(s) == IsAlone(s.members, s.apelido)

\* Mutant: nothing restarts the silence of the monitor.
NoteActivityNever(s) == s

\* TokenMonitor.note_activity, called by the receiver and by the engine.
NoteActivity(s) == [s EXCEPT !.mon_silence = 0]

\* Node._refresh_monitor_pause
RefreshMonitorPause(s) == [s EXCEPT !.mon_paused = s.has_token \/ s.waiting]

\* Node._send_to_successor with a token or with DATA.  A failing send is a
\* lost datagram: no caller does more than log it.
SendToken(s) ==
  [s EXCEPT !.out.token = @ \cup {Successor(s.members, s.apelido)}]
SendFrame(s, f) ==
  [s EXCEPT !.out.data =
     @ \cup {[to |-> Successor(s.members, s.apelido), frame |-> f]}]

\* Transport.broadcast of a DISCOVER or a HELLO; the echo of a machine's own
\* announcement is dropped by on_datagram.
Announce(s, tipo) ==
  [s EXCEPT !.out.presence =
     @ \cup {[to |-> m, tipo |-> tipo, apelido |-> s.apelido] :
               m \in Apelido \ {s.apelido}}]

\* Node._drop_head with MessageQueue.pop
DropHead(s) ==
  [s EXCEPT !.queue = IF s.queue = <<>> THEN <<>> ELSE Tail(s.queue)]

\* Node._schedule_first_token_eval: the running timer is replaced.
ScheduleFirstTokenEval(s) == [s EXCEPT !.eval_armed = TRUE]

\* Mutant: a machine that loses the control keeps its monitor enabled.
RecomputeRoleKeepsMonitor(s) ==
  LET ctrl == IsController(s.members, s.apelido)
  IN [s EXCEPT !.is_controller = ctrl,
               !.mon_enabled = @ \/ (ctrl /\ (s.first_token_generated \/ s.observed_activity)),
               !.segurando_sozinho = @ /\ (Alone(s) \/ s.has_token)]

\* Mutant: a controller that has generated no token watches for none.
RecomputeRoleOnlyFirst(s) ==
  LET ctrl == IsController(s.members, s.apelido)
  IN [s EXCEPT !.is_controller = ctrl,
               !.mon_enabled = ctrl /\ s.first_token_generated,
               !.segurando_sozinho = @ /\ (Alone(s) \/ s.has_token)]

\* Node._recompute_role
RecomputeRole(s) ==
  LET ctrl == IsController(s.members, s.apelido)
      r == IF ctrl /\ ~s.is_controller
             THEN NoteActivity([s EXCEPT !.last_token_rx = NoInstant,
                                         !.expect_token_return = FALSE])
             ELSE s
  IN [r EXCEPT !.is_controller = ctrl,
               !.mon_enabled = ctrl /\ (s.first_token_generated \/ s.observed_activity),
               !.segurando_sozinho = @ /\ (Alone(s) \/ s.has_token)]

\* Node._remove_member for every candidate that is known and not itself,
\* one after the other.  Each removal recomputes the role; a machine left
\* alone with the token latches segurando_sozinho.  Without the token the
\* latch survives only if no intermediate ring had another member.
RemoveMembers(s, candidates) ==
  LET gone == candidates \cap (s.members \ {s.apelido})
      r == RecomputeRole(
             [s EXCEPT !.members = @ \ gone,
                       !.member_last_seen = [m \in Apelido |-> IF m \in gone THEN 0 ELSE @[m]]])
  IN IF gone = {} THEN s
     ELSE [r EXCEPT !.segurando_sozinho =
             IF r.has_token THEN @ \/ Alone(r) ELSE @ /\ Cardinality(gone) = 1]

\* Node.__init__ and Node.start of machine `me', with the announcement that
\* start repeats for a while.  Without a clock every age starts at 0.
StartedNode(me) ==
  Announce([apelido |-> me,
    members |-> {me},
    member_last_seen |-> [m \in Apelido |-> 0],
    is_controller |-> TRUE,
    has_token |-> FALSE,
    first_token_generated |-> FALSE,
    observed_activity |-> FALSE,
    epoch |-> 0,
    last_token_rx |-> NoInstant,
    expect_token_return |-> FALSE,
    tokens_perdidos |-> 0,
    tokens_duplicados |-> 0,
    remove_token_pending |-> FALSE,
    waiting |-> FALSE,
    data_attempt_seq |-> 0,
    active_data_attempt |-> NoAttempt,
    active_data_fingerprint |-> None,
    last_data_activity |-> 0,
    segurando_sozinho |-> FALSE,
    discovery_deferred |-> FALSE,
    queue |-> <<>>,
    forward_timers |-> [e \in 0 .. MaxEpoch |-> 0],
    return_timers |-> {},
    eval_armed |-> TRUE,
    eval_posted |-> FALSE,
    mon_enabled |-> FALSE,
    mon_paused |-> FALSE,
    mon_silence |-> 0,
    mon_posted |-> FALSE,
    out |-> NoOut], "DISCOVER")
=============================================================================
