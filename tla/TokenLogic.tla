----------------------------- MODULE TokenLogic -----------------------------
(***************************************************************************)
(* The mixin TokenLogicMixin of ring/core/token_logic.py: receiving,       *)
(* holding, passing and generating the token, and putting DATA on the      *)
(* wire.  Parameters stand for what the code reads from outside its own    *)
(* state: `hit' for the draw of maybe_corrupt, `soon' for the comparison   *)
(* of the time since last_token_rx with min_token_interval.                *)
(***************************************************************************)
EXTENDS NodeState

-----------------------------------------------------------------------------
\* Helpers

\* _send_data_packet, for the head of the queue.
SendDataPacket(s, hit) ==
  LET item == Head(s.queue)
      attempt == s.data_attempt_seq + 1
      body == MaybeCorrupt(item.text, hit,
                item.skip_fault_injection \/ item.destino = BROADCAST)
      frame == [origem |-> s.apelido, destino |-> item.destino, controle |-> CTRL_NONE,
                crc |-> item.text, message |-> body, no |-> item.no]
      r == [s EXCEPT !.waiting = TRUE,
                     !.data_attempt_seq = attempt,
                     !.active_data_attempt = attempt,
                     !.active_data_fingerprint = FingerprintOf(frame),
                     !.last_data_activity = 0,
                     !.return_timers = @ \cup {attempt}]
  IN NoteActivity(SendFrame(RefreshMonitorPause(r), frame))

\* _forward_token: a machine that is alone keeps the token.
ForwardToken(s) ==
  IF Alone(s) THEN s
  ELSE NoteActivity(SendToken(RefreshMonitorPause([s EXCEPT !.has_token = FALSE])))

\* What a machine does with a token it may release: DATA first, if queued.
UseToken(s, hit) == IF s.queue = <<>> THEN ForwardToken(s) ELSE SendDataPacket(s, hit)

\* Mutant: a machine with more messages keeps the token and sends the next.
CompleteDataRoundGreedy(s) ==
  LET r == [s EXCEPT !.waiting = FALSE,
                     !.active_data_attempt = NoAttempt,
                     !.active_data_fingerprint = None]
  IN IF s.remove_token_pending
     THEN RefreshMonitorPause([r EXCEPT !.remove_token_pending = FALSE,
                                        !.has_token = FALSE,
                                        !.epoch = @ + 1])
     ELSE UseToken(RefreshMonitorPause(r), FALSE)

\* _complete_data_round
CompleteDataRound(s) ==
  LET r == [s EXCEPT !.waiting = FALSE,
                     !.active_data_attempt = NoAttempt,
                     !.active_data_fingerprint = None]
  IN IF s.remove_token_pending
     THEN RefreshMonitorPause([r EXCEPT !.remove_token_pending = FALSE,
                                        !.has_token = FALSE,
                                        !.epoch = @ + 1])
     ELSE ForwardToken(RefreshMonitorPause(r))

\* _generate_token.  It does not ask whether the machine is alone: a lone
\* controller sends the token to itself.
GenerateToken(s) ==
  NoteActivity(SendToken(RefreshMonitorPause(
    [s EXCEPT !.epoch = @ + 1,
              !.expect_token_return = @ \/ s.is_controller,
              !.last_token_rx = NoInstant,
              !.first_token_generated = TRUE,
              !.mon_enabled = s.is_controller,
              !.has_token = FALSE])))

\* _inject_token
InjectToken(s) == NoteActivity(SendToken(s))

-----------------------------------------------------------------------------
\* Handlers

\* Mutant: the instant of a token is not recorded.
AcceptTokenNoBaseline(s, hit) ==
  LET r == RefreshMonitorPause(
             [s EXCEPT !.has_token = TRUE, !.expect_token_return = @ /\ ~s.is_controller])
  IN CASE Alone(r) -> [r EXCEPT !.segurando_sozinho = TRUE]
       [] ~Alone(r) /\ r.queue # <<>> -> SendDataPacket(r, hit)
       [] ~Alone(r) /\ r.queue = <<>> -> [r EXCEPT !.forward_timers[r.epoch] = @ + 1]

\* The part of _on_rx_token that takes the token.
AcceptToken(s, hit) ==
  LET r == RefreshMonitorPause(
             [s EXCEPT !.has_token = TRUE,
                       !.expect_token_return = @ /\ ~s.is_controller,
                       !.last_token_rx = IF s.is_controller THEN 0 ELSE @])
  IN CASE Alone(r) -> [r EXCEPT !.segurando_sozinho = TRUE]
       [] ~Alone(r) /\ r.queue # <<>> -> SendDataPacket(r, hit)
       [] ~Alone(r) /\ r.queue = <<>> -> [r EXCEPT !.forward_timers[r.epoch] = @ + 1]

\* The controller takes a token that comes back too soon for a duplicate.
TooSoon(s, soon) ==
  /\ s.is_controller
  /\ ~s.expect_token_return
  /\ s.last_token_rx # NoInstant
  /\ soon

\* The controller discards the token that just came.
CountDuplicate(s) == [s EXCEPT !.tokens_duplicados = @ + 1]

\* Mutant: a promised removal is not looked at.
OnRxTokenForgetsRemoval(s0, soon, hit) ==
  LET s == NoteActivity([s0 EXCEPT !.observed_activity = TRUE])
  IN IF s.has_token
     THEN IF s.is_controller THEN CountDuplicate(s) ELSE SendToken(s)
     ELSE IF TooSoon(s, soon) THEN CountDuplicate(s) ELSE AcceptToken(s, hit)

\* Mutant: a machine that is not the controller drops an extra token.
OnRxTokenDropsExtra(s0, soon, hit) ==
  LET s == NoteActivity([s0 EXCEPT !.observed_activity = TRUE])
  IN CASE s.remove_token_pending -> [s EXCEPT !.remove_token_pending = FALSE]
       [] ~s.remove_token_pending /\ s.has_token ->
            IF s.is_controller THEN CountDuplicate(s) ELSE s
       [] ~s.remove_token_pending /\ ~s.has_token ->
            IF TooSoon(s, soon) THEN CountDuplicate(s) ELSE AcceptToken(s, hit)

\* _on_rx_token
OnRxToken(s0, soon, hit) ==
  LET s == NoteActivity([s0 EXCEPT !.observed_activity = TRUE])
  IN CASE s.remove_token_pending -> [s EXCEPT !.remove_token_pending = FALSE]
       [] ~s.remove_token_pending /\ s.has_token ->
            IF s.is_controller THEN CountDuplicate(s) ELSE SendToken(s)
       [] ~s.remove_token_pending /\ ~s.has_token ->
            IF TooSoon(s, soon) THEN CountDuplicate(s) ELSE AcceptToken(s, hit)

\* Mutant: the timer of another epoch is taken for the current one.
OnTimerForwardTokenWrongEpoch(s, ep, hit) ==
  LET r == [s EXCEPT !.forward_timers[s.epoch] = @ - 1]
  IN IF s.has_token /\ ~s.waiting /\ ~Alone(s) THEN UseToken(r, hit) ELSE r

\* Mutant: a timer that outlived its token still forwards one.
OnTimerForwardTokenUnheld(s, ep, hit) ==
  LET r == [s EXCEPT !.forward_timers[ep] = @ - 1]
  IN IF ~s.waiting /\ ~Alone(s) THEN UseToken(r, hit) ELSE r

\* _on_timer_forward_token of a timer started in epoch `ep'.
OnTimerForwardToken(s, ep, hit) ==
  LET r == [s EXCEPT !.forward_timers[ep] = @ - 1]
  IN IF ep = s.epoch /\ s.has_token /\ ~s.waiting /\ ~Alone(s)
     THEN UseToken(r, hit)
     ELSE r

\* Mutant: the timer of an earlier attempt ends the current one.
OnTimerDataReturnTimeoutAnyAttempt(s, attempt) ==
  LET r == [s EXCEPT !.return_timers = @ \ {attempt}]
  IN IF s.waiting THEN CompleteDataRound(DropHead(r)) ELSE r

\* _on_timer_data_return_timeout
OnTimerDataReturnTimeout(s, attempt) ==
  LET r == [s EXCEPT !.return_timers = @ \ {attempt}]
  IN IF attempt = s.active_data_attempt /\ s.waiting
     THEN CompleteDataRound(DropHead(r))
     ELSE r

\* Mutant: a controller whose last token never came back waits for it.
OnMonTokenTimeoutWaits(s) ==
  LET r == [s EXCEPT !.mon_posted = FALSE]
  IN IF s.is_controller /\ Cardinality(s.members) > 1 /\ ~s.has_token /\ ~s.expect_token_return
     THEN GenerateToken([r EXCEPT !.tokens_perdidos = @ + 1])
     ELSE r

\* _on_mon_token_timeout
OnMonTokenTimeout(s) ==
  LET r == [s EXCEPT !.mon_posted = FALSE]
  IN IF /\ s.is_controller
        /\ Cardinality(s.members) > 1
        /\ ~s.has_token
        /\ ~s.waiting
     THEN GenerateToken([r EXCEPT !.tokens_perdidos = @ + 1])
     ELSE r

\* Mutant: a token seen meanwhile does not count.
OnEvalFirstTokenBlind(s) ==
  LET r == [s EXCEPT !.eval_posted = FALSE]
  IN IF s.is_controller
     THEN IF ~s.first_token_generated
          THEN GenerateToken(r)
          ELSE [r EXCEPT !.mon_enabled = TRUE]
     ELSE r

\* _on_eval_first_token
OnEvalFirstToken(s) ==
  LET r == [s EXCEPT !.eval_posted = FALSE]
  IN IF s.is_controller
     THEN IF ~s.first_token_generated /\ ~s.observed_activity
          THEN GenerateToken(r)
          ELSE [r EXCEPT !.mon_enabled = TRUE]
     ELSE r
=============================================================================
