---------------------------- MODULE NodeHandlers ----------------------------
(***************************************************************************)
(* The handlers of presence (DISCOVER, HELLO and the periodic round) and   *)
(* of DATA in ring/core/node.py, and the user commands of                  *)
(* ring/core/commands.py.                                                  *)
(***************************************************************************)
EXTENDS TokenLogic

-----------------------------------------------------------------------------
\* Presence

\* Mutant: a machine that was alone with the token does not resume.
UpdateMemberNoResume(s, ap, hit) ==
  RecomputeRole([s EXCEPT !.members = @ \cup {ap}, !.member_last_seen[ap] = 0])

\* _update_member: a machine that was holding the token alone resumes.
UpdateMember(s, ap, hit) ==
  LET known == [s EXCEPT !.members = @ \cup {ap}, !.member_last_seen[ap] = 0]
      forming == IsNew(s.members, ap) /\ ~s.first_token_generated /\ ~s.observed_activity
      r == RecomputeRole(IF forming THEN ScheduleFirstTokenEval(known) ELSE known)
  IN IF r.has_token /\ ~r.waiting /\ ~Alone(r) /\ r.segurando_sozinho
     THEN UseToken([r EXCEPT !.segurando_sozinho = FALSE], hit)
     ELSE r

\* _on_rx_discover
OnRxDiscover(s, ap, hit) == Announce(UpdateMember(s, ap, hit), "HELLO")

\* _on_rx_hello
OnRxHello(s, ap, hit) == UpdateMember(s, ap, hit)

\* Mutant: nobody is removed for being silent.
OnDiscoveryTickForgets(s, recent, expired) ==
  LET r == [s EXCEPT !.member_last_seen[s.apelido] = 0]
  IN IF s.waiting \/ recent THEN [r EXCEPT !.discovery_deferred = TRUE]
     ELSE Announce([r EXCEPT !.discovery_deferred = FALSE], "DISCOVER")

\* _on_discovery_tick.  `recent' is the comparison of last_data_activity
\* with data_quiet_period, `expired' the members silent for member_timeout.
\* The tick is always pending again when the handler returns.
OnDiscoveryTick(s, recent, expired) ==
  LET r == [s EXCEPT !.member_last_seen[s.apelido] = 0]
  IN IF s.waiting \/ recent THEN [r EXCEPT !.discovery_deferred = TRUE]
     ELSE IF s.discovery_deferred
     THEN Announce([r EXCEPT !.discovery_deferred = FALSE], "DISCOVER")
     ELSE RemoveMembers(Announce(r, "DISCOVER"), expired)

-----------------------------------------------------------------------------
\* DATA

\* Mutant: the retransmission is not marked as used.
NakReturnUnmarked(s) ==
  IF s.queue = <<>> THEN s ELSE [s EXCEPT !.queue[1].skip_fault_injection = TRUE]

\* The NAK branch of _on_rx_data: one retransmission, without fault injection.
NakReturn(s) ==
  IF s.queue = <<>> THEN s
  ELSE IF ~Head(s.queue).retransmit_used
  THEN [s EXCEPT !.queue[1].retransmit_used = TRUE,
                 !.queue[1].skip_fault_injection = TRUE]
  ELSE DropHead(s)

\* Mutant: a message concluded with ACK stays in the queue.
ConcludeReturnAckKeeps(s, f) ==
  CASE f.controle = CTRL_NAK -> NakReturn(s)
    [] f.controle = CTRL_ACK -> s
    [] OTHER -> RemoveMembers(DropHead(s), {f.destino})

\* Mutant: whoever does not acknowledge is taken for absent.
ConcludeReturnNakRemoves(s, f) ==
  IF f.destino # BROADCAST /\ f.controle # CTRL_ACK
  THEN RemoveMembers(DropHead(s), {f.destino})
  ELSE DropHead(s)

\* What _on_rx_data does at the origin with its own DATA come back.
ConcludeReturn(s, f) ==
  IF f.destino # BROADCAST /\ f.controle = CTRL_NAK THEN NakReturn(s)
  ELSE IF f.destino # BROADCAST /\ f.controle = CTRL_NONE
  THEN RemoveMembers(DropHead(s), {f.destino})
  ELSE DropHead(s)

\* Mutant: any DATA of this machine ends its round.
EndsRoundAnyReturn(s, f) == s.waiting

\* Whether a DATA that carries this machine as its origin ends its round.
EndsRound(s, f) == s.waiting /\ FingerprintOf(f) = s.active_data_fingerprint

\* Mutant: the addressed machine passes the DATA on as it came.
AnswerNothing(f) == f

\* set_controle, at the addressed machine.
Answer(f) ==
  [f EXCEPT !.controle = IF CrcMatches(f.message, f.crc) THEN CTRL_ACK ELSE CTRL_NAK]

\* _on_rx_data
OnRxData(s0, f) ==
  LET s == NoteActivity([s0 EXCEPT !.observed_activity = TRUE, !.last_data_activity = 0])
  IN IF f.origem = s.apelido
     THEN IF EndsRound(s, f) THEN CompleteDataRound(ConcludeReturn(s, f)) ELSE s
     ELSE SendFrame(s, IF f.destino = s.apelido THEN Answer(f) ELSE f)

-----------------------------------------------------------------------------
\* User commands

\* Mutant: a full queue makes room by dropping its oldest message.
OnCmdSendDropsOldest(s, destino, text, no) ==
  [s EXCEPT !.queue = Append(IF Len(@) >= QueueMax THEN Tail(@) ELSE @,
                             [destino |-> destino, text |-> text, no |-> no,
                              skip_fault_injection |-> FALSE,
                              retransmit_used |-> FALSE])]

\* _on_cmd_send with a valid destination, MessageQueue.enqueue and QueueItem.
OnCmdSend(s, destino, text, no) ==
  IF Len(s.queue) >= QueueMax THEN s
  ELSE [s EXCEPT !.queue = Append(@, [destino |-> destino, text |-> text, no |-> no,
                                      skip_fault_injection |-> FALSE,
                                      retransmit_used |-> FALSE])]

\* _on_cmd_add_token
OnCmdAddToken(s) == InjectToken(s)

\* Mutant: the token is taken away while DATA is out.
OnCmdRemoveTokenMidRound(s) ==
  IF s.has_token
  THEN RefreshMonitorPause([s EXCEPT !.has_token = FALSE, !.epoch = @ + 1,
                                     !.remove_token_pending = FALSE])
  ELSE [s EXCEPT !.remove_token_pending = TRUE]

\* _on_cmd_remove_token
OnCmdRemoveToken(s) ==
  IF s.has_token /\ ~s.waiting
  THEN RefreshMonitorPause([s EXCEPT !.has_token = FALSE,
                                     !.epoch = @ + 1,
                                     !.active_data_attempt = NoAttempt,
                                     !.active_data_fingerprint = None,
                                     !.remove_token_pending = FALSE])
  ELSE [s EXCEPT !.remove_token_pending = TRUE]

-----------------------------------------------------------------------------
\* What the other threads of a machine do with its state

\* TokenMonitor._loop finds an enabled, unpaused monitor past its timeout.
MonitorMayFire(s) == s.mon_enabled /\ ~s.mon_paused
MonitorFires(s) == [s EXCEPT !.mon_silence = 0, !.mon_posted = TRUE]

\* The timer of _schedule_first_token_eval expires.
EvalTimerFires(s) == [s EXCEPT !.eval_armed = FALSE, !.eval_posted = TRUE]
=============================================================================
