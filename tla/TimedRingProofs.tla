-------------------------- MODULE TimedRingProofs --------------------------
(***************************************************************************)
(* What holds of the machines of TimedRing, whichever start and leave and  *)
(* whatever the durations are: the token of a machine is under a timer     *)
(* that runs; and, while no DISCOVER is missed and no machine starts       *)
(* beside messages, nobody removes a machine that is up.                   *)
(*                                                                         *)
(* First what every handler does to the table of members and to what it    *)
(* sends, then a round of presence, then the two invariants.               *)
(***************************************************************************)
EXTENDS TimedRing, NodeHandlersProofs

-----------------------------------------------------------------------------
\* What handlers of the token do to the table, and what they send

\* The parts of a machine a handler works on.
Record(s) == DOMAIN s = NodeFields /\ DOMAIN s.out = {"token", "data", "presence"}

\* The table of members is left alone.
SameTable(s, r) ==
  /\ r.apelido = s.apelido /\ r.members = s.members
  /\ r.member_last_seen = s.member_last_seen
  /\ r.discovery_deferred = s.discovery_deferred

\* DATA that is sent is the machine's own, to its successor; none without a message.
SendsOwn(s, r) ==
  /\ s.queue = <<>> => /\ r.queue = <<>> /\ r.out.data = s.out.data
                       /\ r.return_timers \subseteq s.return_timers
  /\ \A d \in r.out.data :
       \/ d \in s.out.data
       \/ d.frame.origem = s.apelido /\ d.to = Successor(r.members, s.apelido)

Calm(s, r) ==
  /\ Record(r) /\ SameTable(s, r) /\ SendsOwn(s, r)
  /\ r.forward_timers = s.forward_timers

\* The state of every machine has these parts.
LEMMA RecordOf ==
  ASSUME NEW s \in NodeStates
  PROVE  Record(s) /\ s.queue \in Seq(Item)
<1>1. s.out \in Out
  BY DEF NodeStates
<1>2. QED
  BY <1>1, FieldsOf DEF Record, Out, NodeStates

\* Two such steps in a row are one.
LEMMA CalmTrans ==
  ASSUME NEW s, NEW t, NEW r, Calm(s, t), Calm(t, r)
  PROVE  Calm(s, r)
BY DEF Calm, SameTable, SendsOwn

\* _send_data_packet sends the head of the queue.
LEMMA SendDataPacketCalm ==
  ASSUME NEW s, Record(s), s.queue # <<>>, NEW hit
  PROVE  Calm(s, SendDataPacket(s, hit))
<1> DEFINE item == Head(s.queue)
           body == MaybeCorrupt(item.text, hit,
                     item.skip_fault_injection \/ item.destino = BROADCAST)
           frame == [origem |-> s.apelido, destino |-> item.destino, controle |-> CTRL_NONE,
                     crc |-> item.text, message |-> body, no |-> item.no]
           attempt == s.data_attempt_seq + 1
           print == FingerprintOf(frame)
           r == SendDataPacket(s, hit)
<1>1. frame.origem = s.apelido
  OBVIOUS
<1>2. r = NoteActivity(SendFrame(RefreshMonitorPause(
            [s EXCEPT !.waiting = TRUE,
                      !.data_attempt_seq = attempt,
                      !.active_data_attempt = attempt,
                      !.active_data_fingerprint = print,
                      !.last_data_activity = 0,
                      !.return_timers = @ \cup {attempt}]), frame))
  BY DEF SendDataPacket
<1> HIDE DEF frame, item, body, attempt, print, r
<1>3. /\ Record(r) /\ SameTable(s, r) /\ r.forward_timers = s.forward_timers
      /\ r.out.data = s.out.data \cup {[to |-> Successor(s.members, s.apelido), frame |-> frame]}
  BY <1>2, ZenonT(60) DEF NodeFields, Record, SameTable, NoteActivity, SendFrame, RefreshMonitorPause
<1>4. QED
  BY <1>1, <1>3 DEF Calm, SendsOwn, SameTable, r

\* _forward_token sends no DATA.
LEMMA ForwardTokenCalm ==
  ASSUME NEW s, Record(s)
  PROVE  Calm(s, ForwardToken(s)) /\ ForwardToken(s).out.data = s.out.data
BY DEF NodeFields, Record, Calm, SameTable, SendsOwn, ForwardToken, NoteActivity, SendToken,
       RefreshMonitorPause

\* A machine uses its token: DATA, or the token itself.
LEMMA UseTokenCalm ==
  ASSUME NEW s, Record(s), NEW hit
  PROVE  Calm(s, UseToken(s, hit))
BY SendDataPacketCalm, ForwardTokenCalm DEF UseToken

\* _complete_data_round sends no DATA.
LEMMA CompleteDataRoundCalm ==
  ASSUME NEW s, Record(s)
  PROVE  Calm(s, CompleteDataRound(s)) /\ CompleteDataRound(s).out.data = s.out.data
<1> DEFINE r == [s EXCEPT !.waiting = FALSE,
                          !.active_data_attempt = NoAttempt,
                          !.active_data_fingerprint = None]
           t == RefreshMonitorPause(r)
<1>1. Calm(s, t) /\ t.out = s.out
  BY DEF NodeFields, Record, Calm, SameTable, SendsOwn, RefreshMonitorPause
<1>2. CASE s.remove_token_pending
  BY <1>2 DEF NodeFields, Record, Calm, SameTable, SendsOwn, CompleteDataRound,
              RefreshMonitorPause
<1>3. CASE ~s.remove_token_pending
  <2>1. CompleteDataRound(s) = ForwardToken(t)
    BY <1>3 DEF CompleteDataRound
  <2> HIDE DEF t
  <2>2. Calm(t, ForwardToken(t)) /\ ForwardToken(t).out.data = t.out.data
    BY <1>1, ForwardTokenCalm DEF Calm
  <2>3. QED
    BY <1>1, <2>1, <2>2, CalmTrans
<1>4. QED
  BY <1>2, <1>3

\* What sends a token sends no DATA.
LEMMA SendTokenCalm ==
  ASSUME NEW s, Record(s)
  PROVE  /\ Calm(s, SendToken(s))
         /\ Calm(s, NoteActivity(s))
         /\ Calm(s, NoteActivity(SendToken(RefreshMonitorPause(s))))
BY DEF NodeFields, Record, Calm, SameTable, SendsOwn, NoteActivity, SendToken,
       RefreshMonitorPause

\* _generate_token sends no DATA.
LEMMA GenerateTokenCalm ==
  ASSUME NEW s, Record(s)
  PROVE  Calm(s, GenerateToken(s))
<1> DEFINE e == s.epoch + 1
           x == s.expect_token_return \/ s.is_controller
           t == [s EXCEPT !.epoch = e,
                          !.expect_token_return = x,
                          !.last_token_rx = NoInstant,
                          !.first_token_generated = TRUE,
                          !.mon_enabled = s.is_controller,
                          !.has_token = FALSE]
<1>1. GenerateToken(s) = NoteActivity(SendToken(RefreshMonitorPause(t)))
  BY DEF GenerateToken
<1> HIDE DEF e, x
<1>2. Calm(s, t)
  BY DEF NodeFields, Record, Calm, SameTable, SendsOwn
<1> HIDE DEF t
<1>3. QED
  BY <1>1, <1>2, SendTokenCalm, CalmTrans DEF Calm

\* _drop_head sends nothing.
LEMMA DropHeadCalm ==
  ASSUME NEW s, Record(s)
  PROVE  Calm(s, DropHead(s)) /\ DropHead(s).out = s.out
<1> DEFINE q == IF s.queue = <<>> THEN <<>> ELSE Tail(s.queue)
<1>1. DropHead(s) = [s EXCEPT !.queue = q] /\ (s.queue = <<>> => q = <<>>)
  BY DEF DropHead
<1> HIDE DEF q
<1>2. QED
  BY <1>1 DEF NodeFields, Record, Calm, SameTable, SendsOwn

-----------------------------------------------------------------------------
\* The same of the handlers

\* The pending timers of token_time: all but those of epoch ep are as they were.
ForwardsBy(s, r, ep, more) ==
  r.forward_timers = [s.forward_timers EXCEPT ![ep] = @ + more]

\* _on_rx_token: the token is refused, passed on, kept under a new timer, or used.
LEMMA OnRxTokenTable ==
  ASSUME NEW s, Record(s), NEW soon, NEW hit
  PROVE  LET r == OnRxToken(s, soon, hit) IN
         /\ Record(r) /\ SameTable(s, r) /\ SendsOwn(s, r)
         /\ r.forward_timers = s.forward_timers \/ ForwardsBy(s, r, s.epoch, 1)
<1> DEFINE t == NoteActivity([s EXCEPT !.observed_activity = TRUE])
           rx == IF t.is_controller THEN 0 ELSE t.last_token_rx
           expect == t.expect_token_return /\ ~t.is_controller
           a == RefreshMonitorPause([t EXCEPT !.has_token = TRUE,
                                              !.expect_token_return = expect,
                                              !.last_token_rx = rx])
           r == OnRxToken(s, soon, hit)
           Claim(u) == /\ Record(u) /\ SameTable(s, u) /\ SendsOwn(s, u)
                       /\ u.forward_timers = s.forward_timers \/ ForwardsBy(s, u, s.epoch, 1)
<1>1. Calm(s, t) /\ t.epoch = s.epoch
  BY DEF NodeFields, Record, Calm, SameTable, SendsOwn, NoteActivity
<1>2. r = CASE t.remove_token_pending -> [t EXCEPT !.remove_token_pending = FALSE]
            [] ~t.remove_token_pending /\ t.has_token ->
                 IF t.is_controller THEN CountDuplicate(t) ELSE SendToken(t)
            [] ~t.remove_token_pending /\ ~t.has_token ->
                 IF TooSoon(t, soon) THEN CountDuplicate(t) ELSE AcceptToken(t, hit)
  BY DEF OnRxToken
<1> HIDE DEF t, r
<1>3. \A u : Calm(t, u) => Claim(u)
  BY <1>1, CalmTrans DEF Calm
<1>4. /\ Calm(t, [t EXCEPT !.remove_token_pending = FALSE])
      /\ Calm(t, CountDuplicate(t)) /\ Calm(t, SendToken(t))
  <2>1. Calm(t, [t EXCEPT !.remove_token_pending = FALSE])
    BY <1>1 DEF NodeFields, Record, Calm, SameTable, SendsOwn
  <2>2. Calm(t, CountDuplicate(t))
    BY <1>1 DEF NodeFields, Record, Calm, SameTable, SendsOwn, CountDuplicate
  <2>3. QED
    BY <1>1, <2>1, <2>2, SendTokenCalm DEF Calm
<1>5. Claim(AcceptToken(t, hit))
  <2>1. AcceptToken(t, hit) = CASE Alone(a) -> [a EXCEPT !.segurando_sozinho = TRUE]
                                [] ~Alone(a) /\ a.queue # <<>> -> SendDataPacket(a, hit)
                                [] ~Alone(a) /\ a.queue = <<>> ->
                                     [a EXCEPT !.forward_timers[a.epoch] = @ + 1]
    BY DEF AcceptToken
  <2> HIDE DEF rx, expect
  <2>2. Calm(t, a) /\ a.epoch = t.epoch
    BY <1>1 DEF NodeFields, Record, Calm, SameTable, SendsOwn, RefreshMonitorPause
  <2> HIDE DEF a
  <2>3. Calm(a, [a EXCEPT !.segurando_sozinho = TRUE])
    BY <2>2 DEF NodeFields, Record, Calm, SameTable, SendsOwn
  <2>4. a.queue # <<>> => Calm(a, SendDataPacket(a, hit))
    BY <2>2, SendDataPacketCalm DEF Calm
  <2>5. Claim([a EXCEPT !.forward_timers[a.epoch] = @ + 1])
    <3> DEFINE ft == [a.forward_timers EXCEPT ![a.epoch] = @ + 1]
               u == [a EXCEPT !.forward_timers = ft]
    <3>1. u = [a EXCEPT !.forward_timers[a.epoch] = @ + 1]
      OBVIOUS
    <3>2. ft = [s.forward_timers EXCEPT ![s.epoch] = @ + 1]
      BY <1>1, <2>2 DEF Calm
    <3> HIDE DEF ft
    <3>3. /\ Record(u) /\ SameTable(a, u) /\ SendsOwn(a, u) /\ u.forward_timers = ft
      BY <2>2 DEF NodeFields, Record, Calm, SameTable, SendsOwn
    <3> HIDE DEF u
    <3>4. SameTable(s, u) /\ SendsOwn(s, u)
      BY <1>1, <2>2, <3>3 DEF Calm, SameTable, SendsOwn
    <3>5. QED
      BY <3>1, <3>2, <3>3, <3>4 DEF ForwardsBy
  <2> HIDE DEF Claim
  <2>6. \A u : Calm(a, u) => Claim(u)
    BY <1>3, <2>2, CalmTrans
  <2>7. QED
    BY <2>1, <2>3, <2>4, <2>5, <2>6
<1> HIDE DEF Claim
<1>6. Claim(r)
  BY <1>2, <1>3, <1>4, <1>5
<1>7. QED
  BY <1>6 DEF Claim, r

\* _on_timer_forward_token: the timer that fired is pending no more.
LEMMA OnTimerForwardTokenTable ==
  ASSUME NEW s, Record(s), NEW ep, NEW hit
  PROVE  LET r == OnTimerForwardToken(s, ep, hit) IN
         /\ Record(r) /\ SameTable(s, r) /\ SendsOwn(s, r)
         /\ ForwardsBy(s, r, ep, -1)
<1> DEFINE ft == [s.forward_timers EXCEPT ![ep] = @ - 1]
           t == [s EXCEPT !.forward_timers = ft]
<1>1. OnTimerForwardToken(s, ep, hit) =
        IF ep = s.epoch /\ s.has_token /\ ~s.waiting /\ ~Alone(s) THEN UseToken(t, hit) ELSE t
  BY DEF OnTimerForwardToken
<1> HIDE DEF ft
<1>2. Record(t) /\ SameTable(s, t) /\ SendsOwn(s, t) /\ t.forward_timers = ft /\ t.out = s.out
      /\ t.queue = s.queue
  BY DEF NodeFields, Record, SameTable, SendsOwn
<1> HIDE DEF t
<1>3. Calm(t, UseToken(t, hit))
  BY <1>2, UseTokenCalm
<1>4. QED
  BY <1>1, <1>2, <1>3 DEF Calm, SameTable, SendsOwn, ForwardsBy, ft

\* _on_timer_data_return_timeout gives the head of the queue up.
LEMMA OnTimerDataReturnTimeoutTable ==
  ASSUME NEW s, Record(s), NEW attempt
  PROVE  Calm(s, OnTimerDataReturnTimeout(s, attempt))
<1> DEFINE rt == s.return_timers \ {attempt}
           t == [s EXCEPT !.return_timers = rt]
<1>1. OnTimerDataReturnTimeout(s, attempt) =
        IF attempt = s.active_data_attempt /\ s.waiting
        THEN CompleteDataRound(DropHead(t)) ELSE t
  BY DEF OnTimerDataReturnTimeout
<1>2. rt \subseteq s.return_timers
  OBVIOUS
<1> HIDE DEF rt
<1>3. Calm(s, t)
  BY <1>2 DEF NodeFields, Record, Calm, SameTable, SendsOwn
<1> HIDE DEF t
<1>4. Calm(t, DropHead(t))
  BY <1>3, DropHeadCalm DEF Calm
<1>5. Calm(DropHead(t), CompleteDataRound(DropHead(t)))
  BY <1>4, CompleteDataRoundCalm DEF Calm
<1>6. QED
  BY <1>1, <1>3, <1>4, <1>5, CalmTrans

\* What the monitor, the first-token timer and an added token do.
LEMMA OtherEventsTable ==
  ASSUME NEW s, Record(s)
  PROVE  /\ Calm(s, MonitorFires(s)) /\ Calm(s, OnMonTokenTimeout(s))
         /\ Calm(s, EvalTimerFires(s)) /\ Calm(s, OnEvalFirstToken(s))
         /\ Calm(s, OnCmdAddToken(s))
<1>1. Calm(s, MonitorFires(s)) /\ Calm(s, EvalTimerFires(s))
  BY DEF NodeFields, Record, Calm, SameTable, SendsOwn, MonitorFires, EvalTimerFires
<1>2. Calm(s, OnMonTokenTimeout(s))
  <2> DEFINE t == [s EXCEPT !.mon_posted = FALSE]
             n == t.tokens_perdidos + 1
             u == [t EXCEPT !.tokens_perdidos = n]
  <2>1. OnMonTokenTimeout(s) = t \/ OnMonTokenTimeout(s) = GenerateToken(u)
    BY DEF OnMonTokenTimeout
  <2> HIDE DEF n
  <2>2. Calm(s, t) /\ Calm(s, u)
    BY DEF NodeFields, Record, Calm, SameTable, SendsOwn
  <2> HIDE DEF t, u
  <2>3. Calm(u, GenerateToken(u))
    BY <2>2, GenerateTokenCalm DEF Calm
  <2>4. QED
    BY <2>1, <2>2, <2>3, CalmTrans
<1>3. Calm(s, OnEvalFirstToken(s))
  <2> DEFINE t == [s EXCEPT !.eval_posted = FALSE]
             u == [t EXCEPT !.mon_enabled = TRUE]
  <2>1. OnEvalFirstToken(s) = t \/ OnEvalFirstToken(s) = u \/ OnEvalFirstToken(s) = GenerateToken(t)
    BY DEF OnEvalFirstToken
  <2>2. Calm(s, t) /\ Calm(s, u)
    BY DEF NodeFields, Record, Calm, SameTable, SendsOwn
  <2> HIDE DEF t, u
  <2>3. Calm(t, GenerateToken(t))
    BY <2>2, GenerateTokenCalm DEF Calm
  <2>4. QED
    BY <2>1, <2>2, <2>3, CalmTrans
<1>4. Calm(s, OnCmdAddToken(s))
  <2>1. Calm(s, SendToken(s))
    BY SendTokenCalm
  <2>2. Calm(SendToken(s), NoteActivity(SendToken(s)))
    BY <2>1, SendTokenCalm DEF Calm
  <2>3. QED
    BY <2>1, <2>2, CalmTrans DEF OnCmdAddToken, InjectToken
<1>5. QED
  BY <1>1, <1>2, <1>3, <1>4

-----------------------------------------------------------------------------
\* The handlers that change the table

\* What stays as it is when the table does not.
Rest(s, r) ==
  /\ Record(r) /\ r.apelido = s.apelido
  /\ r.forward_timers = s.forward_timers /\ SendsOwn(s, r)

\* _recompute_role leaves the table alone.
LEMMA RecomputeRoleCalm ==
  ASSUME NEW s, Record(s)
  PROVE  Calm(s, RecomputeRole(s)) /\ RecomputeRole(s).out = s.out
         /\ RecomputeRole(s).queue = s.queue
<1> DEFINE ctrl == IsController(s.members, s.apelido)
           b == [s EXCEPT !.last_token_rx = NoInstant, !.expect_token_return = FALSE]
           t == NoteActivity(b)
           r == IF ctrl /\ ~s.is_controller THEN t ELSE s
           on == ctrl /\ (s.first_token_generated \/ s.observed_activity)
           latch == r.segurando_sozinho /\ (Alone(s) \/ s.has_token)
           u == [r EXCEPT !.is_controller = ctrl, !.mon_enabled = on, !.segurando_sozinho = latch]
<1>1. RecomputeRole(s) = u
  BY DEF RecomputeRole
<1>2. Calm(s, t) /\ t.out = s.out /\ t.queue = s.queue
  BY DEF NodeFields, Record, Calm, SameTable, SendsOwn, NoteActivity
<1> HIDE DEF t, ctrl
<1>3. Calm(s, r) /\ r.out = s.out /\ r.queue = s.queue
  BY <1>2 DEF Calm, SameTable, SendsOwn, Record
<1> HIDE DEF r, on, latch
<1>4. Calm(r, u) /\ u.out = r.out /\ u.queue = r.queue
  BY <1>3 DEF NodeFields, Record, Calm, SameTable, SendsOwn
<1> HIDE DEF u
<1>5. QED
  BY <1>1, <1>3, <1>4, CalmTrans

\* None of these renews the epoch.
LEMMA SameEpoch ==
  ASSUME NEW s, Record(s), NEW hit, NEW tipo
  PROVE  /\ UseToken(s, hit).epoch = s.epoch /\ RecomputeRole(s).epoch = s.epoch
         /\ Announce(s, tipo).epoch = s.epoch
<1>1. ForwardToken(s).epoch = s.epoch
  BY DEF NodeFields, Record, ForwardToken, NoteActivity, SendToken, RefreshMonitorPause
<1>2. SendDataPacket(s, hit).epoch = s.epoch
  BY DEF NodeFields, Record, SendDataPacket, NoteActivity, SendFrame, RefreshMonitorPause
<1>3. RecomputeRole(s).epoch = s.epoch
  BY DEF NodeFields, Record, RecomputeRole, NoteActivity
<1>4. Announce(s, tipo).epoch = s.epoch
  BY DEF NodeFields, Record, Announce
<1>5. QED
  BY <1>1, <1>2, <1>3, <1>4 DEF UseToken

\* There is one member more, heard of now.
HeardFrom(s, r, ap) ==
  /\ Rest(s, r) /\ r.members = s.members \cup {ap} /\ r.epoch = s.epoch
  /\ r.member_last_seen = [s.member_last_seen EXCEPT ![ap] = 0]
  /\ r.discovery_deferred = s.discovery_deferred

\* _update_member hears of a machine.
LEMMA UpdateMemberTable ==
  ASSUME NEW s, Record(s), NEW ap, NEW hit
  PROVE  HeardFrom(s, UpdateMember(s, ap, hit), ap)
<1> DEFINE members == s.members \cup {ap}
           seen == [s.member_last_seen EXCEPT ![ap] = 0]
           known == [s EXCEPT !.members = members, !.member_last_seen = seen]
           forming == IsNew(s.members, ap) /\ ~s.first_token_generated /\ ~s.observed_activity
           k == IF forming THEN ScheduleFirstTokenEval(known) ELSE known
           r == RecomputeRole(k)
           u == [r EXCEPT !.segurando_sozinho = FALSE]
<1>1. UpdateMember(s, ap, hit) =
        IF r.has_token /\ ~r.waiting /\ ~Alone(r) /\ r.segurando_sozinho
        THEN UseToken(u, hit) ELSE r
  BY DEF UpdateMember
<1> HIDE DEF members, seen, forming
<1>2. /\ Record(known) /\ known.apelido = s.apelido /\ known.members = members
      /\ known.member_last_seen = seen /\ known.discovery_deferred = s.discovery_deferred
      /\ known.out = s.out /\ known.queue = s.queue
      /\ known.forward_timers = s.forward_timers /\ known.return_timers = s.return_timers
      /\ known.epoch = s.epoch
  BY DEF NodeFields, Record
<1> HIDE DEF known
<1>3. Calm(known, k) /\ k.out = known.out /\ k.queue = known.queue /\ k.epoch = known.epoch
  BY <1>2 DEF NodeFields, Record, Calm, SameTable, SendsOwn, ScheduleFirstTokenEval
<1> HIDE DEF k
<1>4. Calm(k, r) /\ r.epoch = k.epoch
  BY <1>3, RecomputeRoleCalm, SameEpoch DEF Calm
<1> HIDE DEF r
<1>5. Calm(r, u) /\ u.epoch = r.epoch
  BY <1>4 DEF NodeFields, Record, Calm, SameTable, SendsOwn
<1> HIDE DEF u
<1>6. Calm(u, UseToken(u, hit)) /\ UseToken(u, hit).epoch = u.epoch
  BY <1>5, UseTokenCalm, SameEpoch DEF Calm
<1>7. Calm(known, UpdateMember(s, ap, hit)) /\ UpdateMember(s, ap, hit).epoch = known.epoch
  BY <1>1, <1>3, <1>4, <1>5, <1>6, CalmTrans
<1>8. QED
  BY <1>2, <1>7 DEF Calm, SameTable, SendsOwn, HeardFrom, Rest, members, seen

\* Announcements are no DATA.
LEMMA AnnounceCalm ==
  ASSUME NEW s, Record(s), NEW tipo
  PROVE  /\ Calm(s, Announce(s, tipo))
         /\ Announce(s, tipo).out.data = s.out.data
         /\ Announce(s, tipo).out.presence = {} => Apelido \subseteq {s.apelido}
<1> DEFINE P == {[to |-> m, tipo |-> tipo, apelido |-> s.apelido] : m \in Apelido \ {s.apelido}}
<1>1. Announce(s, tipo) = [s EXCEPT !.out.presence = @ \cup P]
  BY DEF Announce
<1>2. P = {} => Apelido \subseteq {s.apelido}
  OBVIOUS
<1> HIDE DEF P
<1>3. /\ Calm(s, Announce(s, tipo))
      /\ Announce(s, tipo).out.data = s.out.data
      /\ Announce(s, tipo).out.presence = s.out.presence \cup P
  BY <1>1 DEF NodeFields, Record, Calm, SameTable, SendsOwn
<1>4. QED
  BY <1>2, <1>3

\* _on_rx_discover: the same, and an answer.
LEMMA OnRxDiscoverTable ==
  ASSUME NEW s, Record(s), NEW ap, NEW hit
  PROVE  HeardFrom(s, OnRxDiscover(s, ap, hit), ap)
<1> DEFINE u == UpdateMember(s, ap, hit)
<1>1. HeardFrom(s, u, ap)
  BY UpdateMemberTable
<1> HIDE DEF u
<1>2. Calm(u, Announce(u, "HELLO")) /\ Announce(u, "HELLO").epoch = u.epoch
  BY <1>1, AnnounceCalm, SameEpoch DEF HeardFrom, Rest
<1>3. QED
  BY <1>1, <1>2 DEF OnRxDiscover, Calm, SameTable, SendsOwn, HeardFrom, Rest, u

\* The members in `gone' are none any more.
Without(s, r, gone) ==
  /\ r.members = s.members \ gone
  /\ \A m \in Apelido \ gone : r.member_last_seen[m] = s.member_last_seen[m]

\* _remove_member, of every candidate that is a member and another one.
LEMMA RemoveMembersTable ==
  ASSUME NEW s, Record(s), NEW candidates
  PROVE  LET r == RemoveMembers(s, candidates) IN
         /\ Rest(s, r) /\ Without(s, r, candidates \cap (s.members \ {s.apelido}))
         /\ r.discovery_deferred = s.discovery_deferred
         /\ r.out = s.out /\ r.queue = s.queue
<1> DEFINE gone == candidates \cap (s.members \ {s.apelido})
           members == s.members \ gone
           seen == [m \in Apelido |-> IF m \in gone THEN 0 ELSE s.member_last_seen[m]]
           t == [s EXCEPT !.members = members, !.member_last_seen = seen]
           r == RecomputeRole(t)
           latch == IF r.has_token THEN r.segurando_sozinho \/ Alone(r)
                    ELSE r.segurando_sozinho /\ Cardinality(gone) = 1
           u == [r EXCEPT !.segurando_sozinho = latch]
<1>1. RemoveMembers(s, candidates) = IF gone = {} THEN s ELSE u
  BY DEF RemoveMembers
<1>2. CASE gone = {}
  BY <1>1, <1>2 DEF Rest, Without, SendsOwn
<1>3. CASE gone # {}
  <2>1. \A m \in Apelido \ gone : seen[m] = s.member_last_seen[m]
    OBVIOUS
  <2> HIDE DEF gone, seen, members
  <2>2. /\ Record(t) /\ t.apelido = s.apelido /\ t.members = members
        /\ t.member_last_seen = seen /\ t.discovery_deferred = s.discovery_deferred
        /\ t.out = s.out /\ t.queue = s.queue
        /\ t.forward_timers = s.forward_timers /\ t.return_timers = s.return_timers
    BY DEF NodeFields, Record
  <2> HIDE DEF t
  <2>3. Calm(t, r) /\ r.out = t.out /\ r.queue = t.queue
    BY <2>2, RecomputeRoleCalm
  <2> HIDE DEF r, latch
  <2>4. Calm(r, u) /\ u.out = r.out /\ u.queue = r.queue
    BY <2>3 DEF NodeFields, Record, Calm, SameTable, SendsOwn
  <2> HIDE DEF u
  <2>5. u.members = s.members \ gone
    BY <2>2, <2>3, <2>4 DEF Calm, SameTable, members
  <2>6. \A m \in Apelido \ gone : u.member_last_seen[m] = s.member_last_seen[m]
    BY <2>1, <2>2, <2>3, <2>4 DEF Calm, SameTable
  <2>7. QED
    BY <1>1, <1>3, <2>2, <2>3, <2>4, <2>5, <2>6
       DEF Rest, Without, Calm, SameTable, SendsOwn, gone
<1>4. QED
  BY <1>2, <1>3

\* _on_discovery_tick: put off while DATA is about; the next time a DISCOVER
\* and nothing else; otherwise a DISCOVER, and silent members are removed.
Ticked(s, r, expired) ==
  /\ Rest(s, r) /\ r.members \subseteq s.members
  /\ s.members \ r.members \subseteq expired \ {s.apelido}
  /\ s.discovery_deferred => r.members = s.members
  /\ \/ r.discovery_deferred = TRUE /\ r.members = s.members
     \/ r.out.presence = {} => Apelido \subseteq {s.apelido}

LEMMA OnDiscoveryTickTable ==
  ASSUME NEW s, Record(s), NEW recent, NEW expired
  PROVE  Ticked(s, OnDiscoveryTick(s, recent, expired), expired)
<1> DEFINE seen == [s.member_last_seen EXCEPT ![s.apelido] = 0]
           t == [s EXCEPT !.member_last_seen = seen]
           r == OnDiscoveryTick(s, recent, expired)
           later == [t EXCEPT !.discovery_deferred = TRUE]
           first == [t EXCEPT !.discovery_deferred = FALSE]
           now == Announce(t, "DISCOVER")
<1>1. r = IF s.waiting \/ recent THEN later
          ELSE IF s.discovery_deferred THEN Announce(first, "DISCOVER")
          ELSE RemoveMembers(now, expired)
  BY DEF OnDiscoveryTick, Record, NodeFields
<1> SUFFICES Ticked(s, r, expired)
  OBVIOUS
<1> HIDE DEF seen, r
<1>2. Rest(s, t) /\ t.members = s.members /\ t.out = s.out
  BY DEF Record, NodeFields, Rest, SendsOwn
<1>3. /\ Rest(s, later) /\ later.members = s.members /\ later.discovery_deferred = TRUE
      /\ Rest(s, first) /\ first.members = s.members
  BY DEF Record, NodeFields, Rest, SendsOwn
<1> HIDE DEF t, later, first
<1>4. /\ Calm(first, Announce(first, "DISCOVER")) /\ Calm(t, now) /\ now.out.data = t.out.data
      /\ Announce(first, "DISCOVER").out.presence = {} => Apelido \subseteq {s.apelido}
      /\ now.out.presence = {} => Apelido \subseteq {s.apelido}
  BY <1>2, <1>3, AnnounceCalm DEF Rest
<1> HIDE DEF now
<1>5. LET u == RemoveMembers(now, expired) IN
      /\ Rest(now, u) /\ Without(now, u, expired \cap (now.members \ {now.apelido}))
      /\ u.out = now.out /\ u.queue = now.queue
  BY <1>4, RemoveMembersTable DEF Calm
<1>6. CASE s.waiting \/ recent
  BY <1>1, <1>3, <1>6 DEF Ticked
<1>7. CASE ~(s.waiting \/ recent) /\ s.discovery_deferred
  <2>1. r = Announce(first, "DISCOVER")
    BY <1>1, <1>7
  <2>2. Rest(s, r) /\ r.members = s.members
    BY <1>3, <1>4, <2>1 DEF Calm, SameTable, SendsOwn, Rest
  <2>3. QED
    BY <1>4, <2>1, <2>2, <1>7 DEF Ticked
<1>8. CASE ~(s.waiting \/ recent) /\ ~s.discovery_deferred
  <2>1. r = RemoveMembers(now, expired)
    BY <1>1, <1>8
  <2>2. Rest(s, now) /\ now.members = s.members
    BY <1>2, <1>4 DEF Calm, SameTable, SendsOwn, Rest
  <2>3. r.members = s.members \ (expired \cap (s.members \ {s.apelido}))
    BY <1>5, <2>1, <2>2 DEF Without, Rest
  <2>4. Rest(s, r)
    <3>1. r.out = now.out /\ r.queue = now.queue /\ Record(r) /\ r.apelido = s.apelido
          /\ r.forward_timers = s.forward_timers
      BY <1>5, <2>1, <2>2 DEF Rest
    <3>2. now.out.data = s.out.data
      BY <1>2, <1>4
    <3>3. QED
      BY <1>5, <2>1, <2>2, <3>1, <3>2 DEF Rest, SendsOwn
  <2>5. QED
    BY <1>4, <1>5, <1>8, <2>1, <2>3, <2>4 DEF Ticked
<1>9. QED
  BY <1>6, <1>7, <1>8

\* _on_cmd_send changes the queue and nothing else.
LEMMA OnCmdSendTable ==
  ASSUME NEW s, Record(s), NEW destino, NEW text, NEW no
  PROVE  LET r == OnCmdSend(s, destino, text, no) IN
         /\ Record(r) /\ SameTable(s, r) /\ r.out = s.out
         /\ r.forward_timers = s.forward_timers
<1> DEFINE item == [destino |-> destino, text |-> text, no |-> no,
                    skip_fault_injection |-> FALSE, retransmit_used |-> FALSE]
           q == Append(s.queue, item)
           r == OnCmdSend(s, destino, text, no)
<1>1. r = IF Len(s.queue) >= QueueMax THEN s ELSE [s EXCEPT !.queue = q]
  BY DEF OnCmdSend
<1> HIDE DEF q, r
<1>2. QED
  BY <1>1 DEF NodeFields, Record, SameTable, r

\* _on_rx_data of another machine's DATA sends it on, with the answer if it is due.
LEMMA OnRxDataForwards ==
  ASSUME NEW s, Record(s), NEW f, f.origem # s.apelido
  PROVE  LET r == OnRxData(s, f)
             g == IF f.destino = s.apelido THEN Answer(f) ELSE f IN
         /\ Record(r) /\ SameTable(s, r) /\ r.queue = s.queue
         /\ r.forward_timers = s.forward_timers
         /\ r.out.data = s.out.data \cup {[to |-> Successor(s.members, s.apelido), frame |-> g]}
<1> DEFINE t == NoteActivity([s EXCEPT !.observed_activity = TRUE, !.last_data_activity = 0])
           g == IF f.destino = s.apelido THEN Answer(f) ELSE f
<1>1. Calm(s, t) /\ t.out = s.out /\ t.queue = s.queue
  BY DEF NodeFields, Record, Calm, SameTable, SendsOwn, NoteActivity
<1>2. OnRxData(s, f) = SendFrame(t, g)
  BY <1>1 DEF OnRxData, Calm, SameTable
<1> HIDE DEF t, g
<1>3. QED
  BY <1>1, <1>2 DEF NodeFields, Record, Calm, SameTable, SendFrame, g

\* _on_rx_data of the machine's own DATA sends none, and removes the
\* destination that did not answer.
LEMMA OnRxDataReturns ==
  ASSUME NEW s, Record(s), NEW f, f.origem = s.apelido
  PROVE  LET r == OnRxData(s, f)
             gone == IF f.destino # BROADCAST /\ f.controle = CTRL_NONE
                     THEN {f.destino} \cap (s.members \ {s.apelido}) ELSE {} IN
         /\ Rest(s, r) /\ r.out.data = s.out.data
         /\ r.members = s.members \/ r.members = s.members \ gone
         /\ \A m \in Apelido \cap r.members : r.member_last_seen[m] = s.member_last_seen[m]
         /\ r.discovery_deferred = s.discovery_deferred
<1> DEFINE t == NoteActivity([s EXCEPT !.observed_activity = TRUE, !.last_data_activity = 0])
           u == ConcludeReturn(t, f)
           r == OnRxData(s, f)
           gone == IF f.destino # BROADCAST /\ f.controle = CTRL_NONE
                   THEN {f.destino} \cap (s.members \ {s.apelido}) ELSE {}
<1>1. Calm(s, t) /\ t.out = s.out /\ t.queue = s.queue
  BY DEF NodeFields, Record, Calm, SameTable, SendsOwn, NoteActivity
<1>2. r = IF EndsRound(t, f) THEN CompleteDataRound(u) ELSE t
  BY <1>1 DEF OnRxData, Calm, SameTable
<1> HIDE DEF t, r
<1>3. Calm(t, DropHead(t)) /\ DropHead(t).out = t.out
  BY <1>1, DropHeadCalm DEF Calm
<1>4. Calm(t, NakReturn(t)) /\ NakReturn(t).out = t.out
  <2>1. CASE t.queue # <<>> /\ ~Head(t.queue).retransmit_used
    <3> DEFINE q == [t.queue EXCEPT ![1] = [[@ EXCEPT !.retransmit_used = TRUE]
                                              EXCEPT !.skip_fault_injection = TRUE]]
    <3>1. NakReturn(t) = [t EXCEPT !.queue[1].retransmit_used = TRUE,
                                   !.queue[1].skip_fault_injection = TRUE]
      BY <2>1 DEF NakReturn
    <3>2. \E q1 : NakReturn(t) = [t EXCEPT !.queue = q1]
      BY <1>1, <3>1, ZenonT(60) DEF Calm, Record, NodeFields
    <3>3. PICK q1 : NakReturn(t) = [t EXCEPT !.queue = q1]
      BY <3>2
    <3>4. QED
      BY <1>1, <2>1, <3>3 DEF NodeFields, Record, Calm, SameTable, SendsOwn
  <2>2. CASE t.queue = <<>>
    BY <1>1, <2>2 DEF NakReturn, Calm, SameTable, SendsOwn
  <2>3. CASE t.queue # <<>> /\ Head(t.queue).retransmit_used
    BY <1>3, <2>3 DEF NakReturn
  <2>4. QED
    BY <2>1, <2>2, <2>3
<1>5. /\ Rest(s, u) /\ u.out = s.out /\ u.members = s.members \ gone
      /\ \A m \in Apelido \cap u.members : u.member_last_seen[m] = s.member_last_seen[m]
      /\ u.discovery_deferred = s.discovery_deferred
  <2>1. CASE f.destino # BROADCAST /\ f.controle = CTRL_NAK
    <3>1. u = NakReturn(t) /\ gone = {}
      BY <2>1 DEF ConcludeReturn, CTRL_NONE, CTRL_NAK
    <3>2. QED
      BY <1>1, <1>4, <3>1 DEF Calm, SameTable, SendsOwn, Rest
  <2>2. CASE f.destino # BROADCAST /\ f.controle = CTRL_NONE
    <3> DEFINE v == DropHead(t)
               w == RemoveMembers(v, {f.destino})
    <3>1. u = w
      BY <2>2 DEF ConcludeReturn, CTRL_NONE, CTRL_NAK
    <3>2. Calm(s, v) /\ v.out = s.out
      BY <1>1, <1>3, CalmTrans
    <3> HIDE DEF v
    <3>3. /\ Rest(v, w) /\ Without(v, w, {f.destino} \cap (v.members \ {v.apelido}))
          /\ w.discovery_deferred = v.discovery_deferred
          /\ w.out = v.out /\ w.queue = v.queue
      BY <3>2, RemoveMembersTable DEF Calm
    <3>4. gone = {f.destino} \cap (v.members \ {v.apelido})
      BY <2>2, <3>2 DEF Calm, SameTable
    <3> HIDE DEF w, gone
    <3>5. Without(v, w, gone)
      BY <3>3, <3>4
    <3>6. Rest(s, w)
      BY <3>2, <3>3 DEF Calm, SameTable, SendsOwn, Rest
    <3>7. QED
      BY <3>1, <3>2, <3>3, <3>5, <3>6 DEF Calm, SameTable, Without
  <2>3. CASE f.destino = BROADCAST \/ f.controle \notin {CTRL_NAK, CTRL_NONE}
    <3>1. u = DropHead(t) /\ gone = {}
      BY <2>3 DEF ConcludeReturn
    <3>2. QED
      BY <1>1, <1>3, <3>1 DEF Calm, SameTable, SendsOwn, Rest
  <2>4. QED
    BY <2>1, <2>2, <2>3
<1> HIDE DEF u, gone
<1>6. Calm(u, CompleteDataRound(u)) /\ CompleteDataRound(u).out.data = u.out.data
  BY <1>5, CompleteDataRoundCalm DEF Rest
<1>7. CASE EndsRound(t, f)
  <2>1. r = CompleteDataRound(u)
    BY <1>2, <1>7
  <2>2. QED
    BY <1>5, <1>6, <2>1 DEF Calm, SameTable, SendsOwn, Rest, r, gone
<1>8. CASE ~EndsRound(t, f)
  BY <1>1, <1>2, <1>8 DEF Calm, SameTable, SendsOwn, Rest, r
<1>9. QED
  BY <1>7, <1>8
-----------------------------------------------------------------------------
\* A round of presence

\* A machine that was s is r, having heard of the machines in S.
Greets(s, r, S) ==
  /\ MachineInv(r) /\ r.apelido = s.apelido /\ r.epoch = s.epoch
  /\ r.forward_timers = s.forward_timers
  /\ r.discovery_deferred = s.discovery_deferred
  /\ r.members = s.members \cup S
  /\ \A m \in Apelido : r.member_last_seen[m] = IF m \in S THEN 0 ELSE s.member_last_seen[m]
  /\ s.queue = <<>> => /\ r.queue = <<>> /\ r.out.data = s.out.data
                       /\ r.return_timers \subseteq s.return_timers
  /\ S \subseteq s.members => SendsOwn(s, r)

\* It may have heard of nobody, of one, and of some after others.
LEMMA GreetsNobody ==
  ASSUME NEW s, MachineInv(s)
  PROVE  Greets(s, s, {})
BY DEF Greets, SendsOwn

LEMMA GreetsOne ==
  ASSUME NEW s, MachineInv(s), NEW ap \in Apelido
  PROVE  /\ Greets(s, OnRxHello(s, ap, FALSE), {ap})
         /\ Greets(s, OnRxDiscover(s, ap, FALSE), {ap})
<1>1. Record(s) /\ s.member_last_seen \in [Apelido -> Nat]
  BY RecordOf DEF MachineInv, NodeStates
<1>2. ASSUME NEW r, MachineInv(r), HeardFrom(s, r, ap)
      PROVE  Greets(s, r, {ap})
  <2>1. \A m \in Apelido : r.member_last_seen[m] = IF m \in {ap} THEN 0 ELSE s.member_last_seen[m]
    BY <1>1, <1>2 DEF HeardFrom
  <2>2. QED
    BY <1>2, <2>1 DEF HeardFrom, Rest, Greets, SendsOwn
<1>3. MachineInv(OnRxHello(s, ap, FALSE)) /\ HeardFrom(s, OnRxHello(s, ap, FALSE), ap)
  BY <1>1, UpdateMemberKeeps, UpdateMemberTable DEF OnRxHello, Keeps
<1>4. MachineInv(OnRxDiscover(s, ap, FALSE)) /\ HeardFrom(s, OnRxDiscover(s, ap, FALSE), ap)
  BY <1>1, OnRxDiscoverKeeps, OnRxDiscoverTable DEF Keeps
<1>5. QED
  BY <1>2, <1>3, <1>4

LEMMA GreetsTrans ==
  ASSUME NEW s, NEW t, NEW r, NEW A, NEW B, Greets(s, t, A), Greets(t, r, B)
  PROVE  Greets(s, r, A \cup B)
<1>1. r.members = s.members \cup (A \cup B)
  BY DEF Greets
<1>2. \A m \in Apelido :
        r.member_last_seen[m] = IF m \in A \cup B THEN 0 ELSE s.member_last_seen[m]
  BY DEF Greets
<1>3. ASSUME A \cup B \subseteq s.members
      PROVE  SendsOwn(s, r)
  <2>1. SendsOwn(s, t) /\ SendsOwn(t, r) /\ t.members = r.members
    BY <1>3 DEF Greets
  <2>2. QED
    BY <2>1 DEF Greets, SendsOwn
<1>4. QED
  BY <1>1, <1>2, <1>3 DEF Greets

\* The states of a machine that has received the HELLOs of each subset of S.
Hellos(g, s0, S) ==
  g = [s \in SUBSET S |->
         IF s = {} THEN s0
         ELSE OnRxHello(g[s \ {CHOOSE x \in s : TRUE}], CHOOSE x \in s : TRUE, FALSE)]

\* There are such states.
LEMMA HellosExist ==
  ASSUME NEW S, IsFiniteSet(S), NEW s0
  PROVE  \E g : Hellos(g, s0, S)
<1> DEFINE x(s) == CHOOSE x \in s : TRUE
           D(n) == {s \in SUBSET S : Cardinality(s) <= n}
           Step(g, s) == IF s = {} THEN s0 ELSE OnRxHello(g[s \ {x(s)}], x(s), FALSE)
           Upto(g, n) == \A s \in D(n) : g[s] = Step(g, s)
           A == {n \in Nat : \E g : Upto(g, n)}
<1>1. \A s \in SUBSET S : IsFiniteSet(s) /\ Cardinality(s) \in Nat
  BY FS_Subset, FS_CardinalityType
<1>2. 0 \in A
  <2> DEFINE g == [s \in SUBSET S |-> s0]
  <2>1. \A s \in D(0) : s = {}
    BY <1>1, FS_EmptySet
  <2>2. \A s \in D(0) : g[s] = Step(g, s)
    BY <2>1
  <2>3. QED
    BY <2>2
<1>3. ASSUME NEW n \in A
      PROVE  n + 1 \in A
  <2>1. PICK g : Upto(g, n)
    OBVIOUS
  <2> DEFINE h == [s \in D(n + 1) |-> Step(g, s)]
  <2>2. ASSUME NEW s \in D(n + 1), s # {}
        PROVE  s \ {x(s)} \in D(n) /\ s \ {x(s)} \in D(n + 1)
    <3>1. x(s) \in s
      BY <2>2
    <3> HIDE DEF x
    <3>2. Cardinality(s \ {x(s)}) = Cardinality(s) - 1
      BY <1>1, <3>1, FS_RemoveElement
    <3>3. QED
      BY <1>1, <3>2
  <2>3. ASSUME NEW s \in D(n), s \in D(n + 1)
        PROVE  h[s] = g[s]
    <3>1. h[s] = Step(g, s)
      BY <2>3
    <3> HIDE DEF h, Step
    <3>2. QED
      BY <2>1, <3>1
  <2>4. Upto(h, n + 1)
    <3> SUFFICES ASSUME NEW s \in D(n + 1)
                 PROVE  h[s] = Step(h, s)
      OBVIOUS
    <3>1. h[s] = Step(g, s)
      OBVIOUS
    <3> HIDE DEF h, D, x
    <3>2. QED
      BY <2>2, <2>3, <3>1
  <2>5. n + 1 \in Nat
    OBVIOUS
  <2> HIDE DEF h, Upto
  <2>6. QED
    BY <2>4, <2>5
<1>4. A = Nat
  <2> HIDE DEF Upto
  <2>1. A \in SUBSET Nat
    OBVIOUS
  <2> HIDE DEF A
  <2>2. QED
    BY <1>2, <1>3, <2>1, SetOfNaturals
<1>5. \E g : Upto(g, Cardinality(S))
  <2> HIDE DEF Upto
  <2>1. Cardinality(S) \in A
    BY <1>1, <1>4
  <2>2. QED
    BY <2>1
<1>6. PICK g : Upto(g, Cardinality(S))
  BY <1>5
<1>7. \A s \in SUBSET S : s \in D(Cardinality(S))
  BY <1>1, FS_Subset
<1> DEFINE h == [s \in SUBSET S |-> g[s]]
<1>8. Hellos(h, s0, S)
  <2>1. ASSUME NEW s \in SUBSET S
        PROVE  h[s] = Step(h, s)
    <3>1. g[s] = Step(g, s)
      BY <1>6, <1>7
    <3>2. s \ {x(s)} \in SUBSET S
      OBVIOUS
    <3>3. QED
      BY <3>1, <3>2
  <2>2. QED
    BY <2>1 DEF Hellos
<1>9. QED
  BY <1>8

\* The HELLOs a machine receives in one round.
LEMMA GreetedFacts ==
  ASSUME NEW s, MachineInv(s), NEW S \in SUBSET Apelido
  PROVE  Greets(s, Greeted(s, S), S)
<1>1. IsFiniteSet(S)
  BY ApelidoAssumption, FS_Subset
<1> DEFINE g == CHOOSE g : Hellos(g, s, S)
<1>2. Hellos(g, s, S)
  BY <1>1, HellosExist
<1>3. Greeted(s, S) = g[S]
  BY DEF Greeted, FoldSet, MapThenFoldSet, Hellos
<1> HIDE DEF g
<1> DEFINE Q == {A \in SUBSET S : Greets(s, g[A], A)}
<1>4. {} \in Q
  <2>1. g[{}] = s
    BY <1>2 DEF Hellos
  <2>2. QED
    BY <2>1, GreetsNobody
<1>5. ASSUME NEW A \in SUBSET S, A # {}, A \ {CHOOSE x \in A : TRUE} \in Q
      PROVE  A \in Q
  <2> DEFINE ap == CHOOSE x \in A : TRUE
  <2>1. ap \in A /\ ap \in Apelido
    BY <1>5
  <2>2. Greets(s, g[A \ {ap}], A \ {ap})
    BY <1>5
  <2>3. g[A] = OnRxHello(g[A \ {ap}], ap, FALSE)
    BY <1>2, <1>5, Zenon DEF Hellos
  <2> HIDE DEF ap
  <2>4. Greets(g[A \ {ap}], g[A], {ap})
    <3> DEFINE t == g[A \ {ap}]
    <3>1. MachineInv(t)
      BY <2>2 DEF Greets
    <3> HIDE DEF t
    <3>2. Greets(t, OnRxHello(t, ap, FALSE), {ap})
      BY <2>1, <3>1, GreetsOne
    <3>3. QED
      BY <2>3, <3>2 DEF t
  <2>5. Greets(s, g[A], (A \ {ap}) \cup {ap})
    BY <2>2, <2>4, GreetsTrans
  <2>6. (A \ {ap}) \cup {ap} = A
    BY <2>1
  <2>7. QED
    BY <2>5, <2>6
<1> HIDE DEF Q
<1>6. SUBSET S \subseteq Q
  BY <1>1, <1>4, <1>5, SubsetInduction
<1>7. QED
  BY <1>3, <1>6 DEF Q

\* What a round of presence does: who hears it knows of all the others.
LEMMA PresenceFacts ==
  ASSUME NEW nodes, \A m \in Machines : MachineInv(nodes[m]) /\ nodes[m].apelido = m,
         NEW alive \in SUBSET Machines, NEW n \in alive, NEW deaf, n \notin deaf
  PROVE  LET P == Presence(nodes, alive, n, deaf) IN
         /\ \A m \in Machines \ (alive \ deaf) : P[m] = nodes[m]
         /\ \A m \in alive \ deaf : Greets(nodes[m], P[m], (alive \ deaf) \ {m})
<1> DEFINE hears == alive \ deaf
           answers == hears \ {n}
           asked(m) == IF m \in answers THEN OnRxDiscover(nodes[m], n, FALSE) ELSE nodes[m]
           P == Presence(nodes, alive, n, deaf)
<1>1. P = [m \in Machines |->
             IF m \in hears THEN Greeted(asked(m), answers \ {m}) ELSE nodes[m]]
  BY DEF Presence
<1>2. hears \subseteq Machines /\ hears \subseteq Apelido /\ n \in hears
  BY TimedMachines
<1> HIDE DEF hears, P
<1>3. ASSUME NEW m \in hears
      PROVE  Greets(nodes[m], P[m], hears \ {m})
  <2>0. MachineInv(nodes[m]) /\ m \in Machines /\ n \in Apelido
    BY <1>2
  <2>1. P[m] = Greeted(asked(m), answers \ {m})
    BY <1>1, <2>0
  <2>2. CASE m = n
    <3>1. asked(m) = nodes[m] /\ answers \ {m} = hears \ {m}
      BY <2>2
    <3> DEFINE S == hears \ {m}
    <3>2. P[m] = Greeted(nodes[m], S)
      BY <2>1, <3>1
    <3>3. S \in SUBSET Apelido
      BY <1>2
    <3> HIDE DEF S
    <3>4. Greets(nodes[m], Greeted(nodes[m], S), S)
      BY <2>0, <3>3, GreetedFacts
    <3>5. QED
      BY <3>2, <3>4 DEF S
  <2>3. CASE m # n
    <3>1. asked(m) = OnRxDiscover(nodes[m], n, FALSE)
      BY <2>3
    <3> HIDE DEF asked
    <3>2. Greets(nodes[m], asked(m), {n})
      BY <2>0, <3>1, GreetsOne
    <3>3. Greets(asked(m), P[m], answers \ {m})
      <4> DEFINE t == asked(m)
                 S == answers \ {m}
      <4>1. MachineInv(t)
        BY <3>2 DEF Greets
      <4>2. S \in SUBSET Apelido
        BY <1>2
      <4> HIDE DEF t, S
      <4>3. Greets(t, Greeted(t, S), S)
        BY <4>1, <4>2, GreetedFacts
      <4>4. QED
        BY <2>1, <4>3 DEF t, S
    <3>4. {n} \cup (answers \ {m}) = hears \ {m}
      BY <1>2, <2>3
    <3>5. QED
      BY <3>2, <3>3, <3>4, GreetsTrans
  <2>4. QED
    BY <2>2, <2>3
<1>4. \A m \in Machines \ hears : P[m] = nodes[m]
  BY <1>1
<1>5. QED
  BY <1>3, <1>4 DEF hears, P
-----------------------------------------------------------------------------
\* The invariant of every ring: machines are as their handlers keep them,
\* and a timer runs for each that they count as pending.

Budgets ==
  [boot : SUBSET Machines, starts : Nat, leaves : Nat, sends : Nat, injects : Nat,
   joins : Nat, misses : Nat]

\* The timers t are those that s has started.
Clock(t, s) ==
  /\ DOMAIN t = {"forward", "return", "eval", "tick", "announces", "pulse"}
  /\ t.forward \in [0 .. MaxEpoch -> Seq(0 .. TokenTime)]
  /\ \A e \in 0 .. MaxEpoch : Len(t.forward[e]) = s.forward_timers[e]
  /\ t.return \in [s.return_timers -> 0 .. TokenTimeout]
  /\ t.tick \in Nat /\ t.announces \in Nat /\ t.pulse \in Nat

MachinesInv ==
  /\ DOMAIN node = Machines /\ DOMAIN timer = Machines
  /\ up \in SUBSET Machines /\ data \in SUBSET [to : Apelido, frame : Frame]
  /\ budget \in Budgets
  /\ \A n \in Machines :
       /\ MachineInv(node[n]) /\ node[n].apelido = n /\ node[n].epoch <= MaxEpoch
       /\ node[n].out = NoOut
       /\ Clock(timer[n], node[n])
       /\ n \notin up => node[n] = Stopped(n)

\* What a machine has sent and started has been taken over.
Cleared(s) == [s EXCEPT !.out = NoOut, !.eval_armed = FALSE]

LEMMA ClearedFacts ==
  ASSUME NEW s, MachineInv(s)
  PROVE  LET r == Cleared(s) IN
         /\ Quiet(s, r) /\ MachineInv(r) /\ r.out = NoOut /\ SameTable(s, r)
         /\ Cleared(r) = r
<1> DEFINE r == Cleared(s)
<1>1. NoOut \in Out
  BY DEF NoOut, Out
<1>2. r \in NodeStates
  BY <1>1 DEF MachineInv, NodeStates, Cleared
<1>3. /\ Quiet(s, r) /\ r.out = NoOut /\ r.eval_armed = FALSE /\ SameTable(s, r)
  BY <1>2 DEF Cleared, MachineInv, NodeStates, Quiet, SameRole, SameToken, SameRound, SameTable
<1>4. Cleared(r) = r
  BY <1>2, <1>3 DEF Cleared, NodeStates
<1>5. QED
  BY <1>3, <1>4, QuietInv

\* One handler starts at most one timer of token_time for an epoch, and at
\* most one of them has fired.
Near(s, r) ==
  \A e \in 0 .. MaxEpoch :
    r.forward_timers[e] \in {s.forward_timers[e] - 1, s.forward_timers[e], s.forward_timers[e] + 1}

LEMMA NearFacts ==
  ASSUME NEW s, NEW r, MachineInv(s), MachineInv(r)
  PROVE  /\ r.forward_timers = s.forward_timers => Near(s, r)
         /\ \A ep \in 0 .. MaxEpoch, more \in {-1, 1} : ForwardsBy(s, r, ep, more) => Near(s, r)
<1>1. s.forward_timers \in [0 .. MaxEpoch -> Nat]
  BY DEF MachineInv, NodeStates
<1>2. r.forward_timers = s.forward_timers => Near(s, r)
  BY <1>1 DEF Near
<1>3. ASSUME NEW ep \in 0 .. MaxEpoch, NEW more \in {-1, 1}, ForwardsBy(s, r, ep, more)
      PROVE  Near(s, r)
  BY <1>1, <1>3 DEF Near, ForwardsBy
<1>4. QED
  BY <1>2, <1>3

\* The timers of a machine after the handler.
LEMMA ArmedClock ==
  ASSUME NEW t, NEW s, NEW r, Clock(t, s), Near(s, r), MachineInv(r)
  PROVE  LET a == Armed(t, r) IN
         Clock(a, r) /\ a.tick = t.tick /\ a.announces = t.announces /\ a.pulse = t.pulse
<1> DEFINE forward == [e \in 0 .. MaxEpoch |->
                         CASE r.forward_timers[e] > Len(t.forward[e]) -> Append(t.forward[e], TokenTime)
                           [] r.forward_timers[e] < Len(t.forward[e]) -> Tail(t.forward[e])
                           [] OTHER -> t.forward[e]]
           return == [x \in r.return_timers |->
                        IF x \in DOMAIN t.return THEN t.return[x] ELSE TokenTimeout]
           eval == IF r.eval_armed THEN DiscoveryWindow ELSE t.eval
           a == Armed(t, r)
<1>1. a = [t EXCEPT !.forward = forward, !.return = return, !.eval = eval]
  BY DEF Armed, Clock
<1>2. TokenTime \in 0 .. TokenTime /\ TokenTimeout \in 0 .. TokenTimeout
  BY TimedDurations
<1>3. ASSUME NEW e \in 0 .. MaxEpoch
      PROVE  forward[e] \in Seq(0 .. TokenTime) /\ Len(forward[e]) = r.forward_timers[e]
  <2> DEFINE f == t.forward[e]
             new == r.forward_timers[e]
  <2>1. f \in Seq(0 .. TokenTime) /\ Len(f) \in Nat
    <3> HIDE DEF forward
    <3>1. t.forward \in [0 .. MaxEpoch -> Seq(0 .. TokenTime)]
      BY DEF Clock
    <3>2. f \in Seq(0 .. TokenTime)
      BY <3>1
    <3>3. QED
      BY <3>2
  <2>2. new \in {Len(f) - 1, Len(f), Len(f) + 1} /\ new \in Nat
    BY DEF Clock, Near, MachineInv, NodeStates
  <2>3. forward[e] = CASE new > Len(f) -> Append(f, TokenTime)
                       [] new < Len(f) -> Tail(f) [] OTHER -> f
    OBVIOUS
  <2> HIDE DEF forward, f, new
  <2>4. CASE new > Len(f)
    <3>1. new = Len(f) + 1 /\ forward[e] = Append(f, TokenTime)
      BY <2>1, <2>2, <2>3, <2>4
    <3>2. QED
      BY <1>2, <2>1, <3>1 DEF new
  <2>5. CASE new < Len(f)
    <3>1. new = Len(f) - 1 /\ forward[e] = Tail(f) /\ f # <<>>
      BY <2>1, <2>2, <2>3, <2>5
    <3>2. QED
      BY <2>1, <3>1 DEF new
  <2>6. CASE new = Len(f)
    <3>1. forward[e] = f
      BY <2>1, <2>2, <2>3, <2>6
    <3>2. QED
      BY <2>1, <2>6, <3>1 DEF new
  <2>7. QED
    BY <2>1, <2>2, <2>4, <2>5, <2>6
<1>4. forward \in [0 .. MaxEpoch -> Seq(0 .. TokenTime)]
  <2>1. forward = [e \in 0 .. MaxEpoch |-> forward[e]]
    OBVIOUS
  <2> HIDE DEF forward
  <2>2. QED
    BY <1>3, <2>1
<1>5. return \in [r.return_timers -> 0 .. TokenTimeout]
  BY <1>2 DEF Clock
<1> HIDE DEF forward, return, eval, a
<1>6. /\ DOMAIN a = DOMAIN t /\ a.forward = forward /\ a.return = return
      /\ a.tick = t.tick /\ a.announces = t.announces /\ a.pulse = t.pulse
  BY <1>1 DEF Clock
<1>7. QED
  BY <1>3, <1>4, <1>5, <1>6 DEF Clock, a

\* A machine that has not started, one that starts, and its timers.
LEMMA FreshFacts ==
  ASSUME NEW n \in Machines
  PROVE  /\ \A s \in {Stopped(n), Fresh(n)} :
              /\ MachineInv(s) /\ s.apelido = n /\ s.members = {n} /\ s.queue = <<>>
              /\ s.epoch = 0 /\ s.out.data = {} /\ s.discovery_deferred = FALSE
              /\ s.member_last_seen = [m \in Apelido |-> 0]
              /\ Clock(StartedTimers, s)
              /\ Clock([StartedTimers EXCEPT !.eval = DiscoveryWindow], s)
              /\ s.forward_timers = Stopped(n).forward_timers
              /\ s.return_timers = {}
         /\ Stopped(n).out = NoOut /\ Cleared(Stopped(n)) = Stopped(n)
<1> DEFINE b == StartedNode(n)
<1>1. n \in Apelido
  BY TimedMachines
<1>2. /\ MachineInv(b) /\ b.apelido = n /\ b.members = {n} /\ b.epoch = 0
      /\ b.queue = <<>> /\ b.discovery_deferred = FALSE /\ b.out.data = {}
      /\ b.member_last_seen = [m \in Apelido |-> 0]
      /\ b.forward_timers = [e \in 0 .. MaxEpoch |-> 0] /\ b.return_timers = {}
  BY <1>1, StartedFacts
<1> HIDE DEF b
<1>4. Stopped(n) = Cleared(b) /\ Fresh(n) = [b EXCEPT !.last_data_activity = DataQuietPeriod]
  BY DEF Stopped, Cleared, Fresh, b
<1>5. Quiet(b, Stopped(n)) /\ SameTable(b, Stopped(n)) /\ Stopped(n).out = NoOut
      /\ Cleared(Stopped(n)) = Stopped(n)
  BY <1>2, <1>4, ClearedFacts
<1>6. Quiet(b, Fresh(n)) /\ SameTable(b, Fresh(n)) /\ Fresh(n).out = b.out
  <2>1. DataQuietPeriod \in Nat /\ b \in NodeStates
    BY <1>2, TimedDurations DEF MachineInv
  <2>2. Fresh(n) \in NodeStates
    BY <1>4, <2>1, ZenonT(60) DEF NodeStates
  <2>3. DOMAIN b = NodeFields
    BY <2>1, FieldsOf
  <2>4. SameRole(b, Fresh(n)) /\ SameToken(b, Fresh(n)) /\ SameTable(b, Fresh(n))
    BY <1>4, <2>3 DEF NodeFields, SameRole, SameToken, SameTable
  <2>5. /\ SameRound(b, Fresh(n)) /\ Fresh(n).queue = b.queue
        /\ Fresh(n).mon_paused = b.mon_paused /\ Fresh(n).out = b.out
    BY <1>4, <2>3 DEF NodeFields, SameRound
  <2>6. QED
    BY <2>2, <2>4, <2>5 DEF Quiet
<1>7. ASSUME NEW s, Quiet(b, s), SameTable(b, s), s.out.data = {}
      PROVE  /\ MachineInv(s) /\ s.apelido = n /\ s.members = {n} /\ s.queue = <<>>
             /\ s.epoch = 0 /\ s.out.data = {} /\ s.discovery_deferred = FALSE
             /\ s.member_last_seen = [m \in Apelido |-> 0]
             /\ s.forward_timers = b.forward_timers /\ s.return_timers = b.return_timers
  BY <1>2, <1>7, QuietInv DEF Quiet, SameRole, SameToken, SameRound, SameTable
<1>8. ASSUME NEW s, s.forward_timers = b.forward_timers, s.return_timers = b.return_timers
      PROVE  /\ Clock(StartedTimers, s)
             /\ Clock([StartedTimers EXCEPT !.eval = DiscoveryWindow], s)
  <2> DEFINE forward == [e \in 0 .. MaxEpoch |-> <<>>]
  <2>1. /\ forward \in [0 .. MaxEpoch -> Seq(0 .. TokenTime)]
        /\ \A e \in 0 .. MaxEpoch : Len(forward[e]) = s.forward_timers[e]
    BY <1>2, <1>8
  <2>2. <<>> \in [s.return_timers -> 0 .. TokenTimeout]
    BY <1>2, <1>8
  <2>3. DiscoveryWindow \in Nat /\ DiscoveryWindow - 1 \in Nat
    BY TimedDurations
  <2> HIDE DEF forward
  <2>4. QED
    BY <2>1, <2>2, <2>3 DEF Clock, StartedTimers, forward
<1>9. Stopped(n).out.data = {}
  BY <1>5 DEF NoOut
<1>10. ASSUME NEW s \in {Stopped(n), Fresh(n)}
       PROVE  Quiet(b, s) /\ SameTable(b, s) /\ s.out.data = {}
  BY <1>2, <1>5, <1>6, <1>9
<1>11. Stopped(n).forward_timers = b.forward_timers
  BY <1>5, <1>7, <1>9
<1>12. QED
  BY <1>2, <1>5, <1>7, <1>8, <1>10, <1>11
\* Every machine is as a handler leaves it.
Ready(nodes, timers, alive) ==
  \A m \in Machines :
    /\ MachineInv(nodes[m]) /\ nodes[m].apelido = m
    /\ \E s : Clock(timers[m], s) /\ Near(s, nodes[m])
    /\ m \notin alive => Cleared(nodes[m]) = Stopped(m)

\* So they are when one has handled an event.
LEMMA OneReady ==
  ASSUME MachinesInv, NEW n \in up, NEW s, NEW t,
         MachineInv(s), s.apelido = n, Clock(t, node[n]), Near(node[n], s)
  PROVE  Ready([node EXCEPT ![n] = s], [timer EXCEPT ![n] = t], up)
<1> DEFINE nodes == [node EXCEPT ![n] = s]
           timers == [timer EXCEPT ![n] = t]
<1>1. ASSUME NEW m \in Machines
      PROVE  /\ MachineInv(nodes[m]) /\ nodes[m].apelido = m
             /\ \E u : Clock(timers[m], u) /\ Near(u, nodes[m])
             /\ m \notin up => Cleared(nodes[m]) = Stopped(m)
  <2>1. CASE m = n
    BY <2>1 DEF MachinesInv
  <2>2. CASE m # n
    <3>1. /\ nodes[m] = node[m] /\ timers[m] = timer[m]
          /\ MachineInv(node[m]) /\ node[m].apelido = m /\ Clock(timer[m], node[m])
          /\ m \notin up => node[m] = Stopped(m)
      BY <2>2 DEF MachinesInv
    <3>2. Near(node[m], node[m])
      BY <3>1, NearFacts
    <3>3. Cleared(Stopped(m)) = Stopped(m)
      BY FreshFacts
    <3>4. QED
      BY <3>1, <3>2, <3>3
  <2>3. QED
    BY <2>1, <2>2
<1> HIDE DEF nodes, timers
<1>2. Ready(nodes, timers, up)
  BY <1>1 DEF Ready
<1>3. QED
  BY <1>2 DEF nodes, timers

\* The machines after a step, when every one of them is as a handler left it.
LEMMA SettleKeeps ==
  ASSUME MachinesInv, NEW nodes, NEW timers, NEW alive \in SUBSET Machines,
         NEW n, NEW eaten, NEW read, Settle(nodes, timers, alive, n, eaten, read),
         budget' \in Budgets,
         Ready(nodes, timers, alive)
  PROVE  MachinesInv'
<1>1. node' = [m \in Machines |-> Cleared(nodes[m])]
  BY DEF Settle, Cleared
<1>2. timer' = [m \in Machines |-> Armed(timers[m], nodes[m])] /\ up' = alive
  BY DEF Settle
<1>3. data' \in SUBSET [to : Apelido, frame : Frame]
  <2>1. data' \subseteq data \cup UNION {nodes[k].out.data : k \in Machines}
    BY DEF Settle
  <2>2. \A k \in Machines : nodes[k].out.data \in SUBSET [to : Apelido, frame : Frame]
    BY DEF Ready, MachineInv, NodeStates, Out
  <2>3. QED
    BY <2>1, <2>2 DEF MachinesInv
<1>4. ASSUME NEW m \in Machines
      PROVE  /\ MachineInv(node'[m]) /\ node'[m].apelido = m /\ node'[m].epoch <= MaxEpoch
             /\ node'[m].out = NoOut
             /\ Clock(timer'[m], node'[m])
             /\ m \notin up' => node'[m] = Stopped(m)
  <2> DEFINE s == nodes[m]
             r == Cleared(s)
             a == Armed(timers[m], s)
  <2>1. node'[m] = r /\ timer'[m] = a
    BY <1>1, <1>2
  <2>2. /\ MachineInv(s) /\ s.apelido = m /\ s.epoch <= MaxEpoch
        /\ \E u : Clock(timers[m], u) /\ Near(u, s)
        /\ m \notin alive => r = Stopped(m)
    BY DEF Settle, Ready
  <2> HIDE DEF s
  <2>3. Quiet(s, r) /\ MachineInv(r) /\ r.out = NoOut
    BY <2>2, ClearedFacts
  <2> HIDE DEF r
  <2>4. Clock(a, s)
    <3>1. PICK u : Clock(timers[m], u) /\ Near(u, s)
      BY <2>2
    <3>2. QED
      BY <2>2, <3>1, ArmedClock
  <2> HIDE DEF a
  <2>5. Clock(a, r)
    BY <2>3, <2>4 DEF Clock, Quiet, SameToken, SameRound
  <2>6. QED
    BY <1>2, <2>1, <2>2, <2>3, <2>5 DEF Quiet, SameRole, SameToken
<1>5. DOMAIN node' = Machines /\ DOMAIN timer' = Machines
  BY <1>1, <1>2
<1>6. QED
  BY <1>2, <1>3, <1>4, <1>5 DEF MachinesInv, Stopped, StartedNode

\* A machine has handled an event.
LEMMA HandlesKeeps ==
  ASSUME MachinesInv, NEW n \in up, NEW s, NEW t, NEW eaten, NEW read,
         Handles(n, s, t, eaten, read), budget' \in Budgets,
         MachineInv(s), s.apelido = n, Clock(t, node[n]), Near(node[n], s)
  PROVE  MachinesInv'
<1>1. up \in SUBSET Machines
  BY DEF MachinesInv
<1>2. QED
  BY <1>1, OneReady, SettleKeeps DEF Handles

\* A DISCOVER has been answered.
LEMMA PresenceKeeps ==
  ASSUME MachinesInv, NEW alive \in SUBSET Machines, NEW n \in alive, up \subseteq alive,
         NEW nodes, NEW timers, NEW deaf, n \notin deaf,
         Settle(Presence(nodes, alive, n, deaf), timers, alive, n, 0, {}),
         budget' \in Budgets,
         Ready(nodes, timers, alive)
  PROVE  MachinesInv'
<1> DEFINE P == Presence(nodes, alive, n, deaf)
<1>1. /\ \A m \in Machines \ (alive \ deaf) : P[m] = nodes[m]
      /\ \A m \in alive \ deaf : Greets(nodes[m], P[m], (alive \ deaf) \ {m})
  BY PresenceFacts DEF Ready
<1> HIDE DEF P
<1>2. ASSUME NEW m \in Machines
      PROVE  /\ MachineInv(P[m]) /\ P[m].apelido = m
             /\ \E s : Clock(timers[m], s) /\ Near(s, P[m])
             /\ m \notin alive => Cleared(P[m]) = Stopped(m)
  <2>1. CASE m \in alive \ deaf
    <3>1. /\ MachineInv(P[m]) /\ P[m].apelido = m
          /\ P[m].forward_timers = nodes[m].forward_timers
      BY <1>1, <2>1 DEF Greets, Ready
    <3>2. PICK s : Clock(timers[m], s) /\ Near(s, nodes[m])
      BY DEF Ready
    <3>3. Near(s, P[m])
      BY <3>1, <3>2 DEF Near
    <3>4. QED
      BY <2>1, <3>1, <3>2, <3>3
  <2>2. CASE m \notin alive \ deaf
    BY <1>1, <2>2 DEF Ready
  <2>3. QED
    BY <2>1, <2>2
<1>3. Ready(P, timers, alive)
  BY <1>2 DEF Ready
<1>4. Settle(P, timers, alive, n, 0, {})
  BY DEF P
<1>5. QED
  BY <1>3, <1>4, SettleKeeps

\* A machine has handled an event and sent a DISCOVER.
LEMMA DiscoversKeeps ==
  ASSUME MachinesInv, NEW n \in up, NEW s, NEW t, Discovers(n, s, t, up),
         MachineInv(s), s.apelido = n, Clock(t, node[n]), Near(node[n], s)
  PROVE  MachinesInv'
<1> DEFINE nodes == [node EXCEPT ![n] = s]
           timers == [timer EXCEPT ![n] = t]
<1>1. PICK deaf \in SUBSET (up \ {n}) :
        /\ Cardinality(deaf) <= budget.misses
        /\ Settle(Presence(nodes, up, n, deaf), timers, up, n, 0, {})
        /\ budget' = [budget EXCEPT !.misses = @ - Cardinality(deaf)]
  BY DEF Discovers
<1>2. up \in SUBSET Machines /\ budget \in Budgets
  BY DEF MachinesInv
<1>3. budget' \in Budgets
  <2>1. IsFiniteSet(deaf)
    BY <1>1, <1>2, ApelidoAssumption, TimedMachines, FS_Subset
  <2>2. Cardinality(deaf) \in Nat
    BY <2>1, FS_CardinalityType
  <2>3. QED
    BY <1>1, <1>2, <2>2 DEF Budgets
<1>4. Ready(nodes, timers, up)
  BY OneReady
<1> HIDE DEF nodes, timers
<1>5. n \notin deaf
  BY <1>1
<1>6. QED
  BY <1>1, <1>2, <1>3, <1>4, <1>5, PresenceKeeps
\* What the invariant says of a machine that is up.
LEMMA Running ==
  ASSUME MachinesInv, NEW n \in up
  PROVE  /\ n \in Machines /\ n \in Apelido /\ up \in SUBSET Machines /\ budget \in Budgets
         /\ MachineInv(node[n]) /\ node[n] \in NodeStates /\ Record(node[n])
         /\ node[n].apelido = n /\ node[n].epoch <= MaxEpoch
         /\ node[n].out = NoOut /\ Clock(timer[n], node[n])
<1>1. n \in Machines /\ MachineInv(node[n])
  BY DEF MachinesInv
<1>2. node[n] \in NodeStates
  BY <1>1 DEF MachineInv
<1>3. QED
  BY <1>1, <1>2, RecordOf, TimedMachines DEF MachinesInv

\* The clocks of a machine that are not under its handlers.
LEMMA ClockSet ==
  ASSUME NEW t, NEW s, Clock(t, s), NEW x, NEW i \in Nat, NEW j \in Nat
  PROVE  /\ Clock([t EXCEPT !.eval = x], s)
         /\ Clock([t EXCEPT !.tick = i], s)
         /\ Clock([t EXCEPT !.announces = i, !.pulse = j], s)
BY DEF Clock

\* A handler that changes no timer of token_time.
LEMMA CalmHandled ==
  ASSUME MachinesInv, NEW n \in up, NEW s, NEW t, NEW eaten, NEW read,
         Handles(n, s, t, eaten, read), budget' \in Budgets,
         Clock(t, node[n]), MachineInv(s), s.apelido = n,
         s.forward_timers = node[n].forward_timers
  PROVE  MachinesInv'
BY Running, NearFacts, HandlesKeeps

\* Whatever event a machine handles, all is as before.
LEMMA EventsKeep ==
  ASSUME MachinesInv, NEW n \in up, Events(n)
  PROVE  MachinesInv'
<1> DEFINE s == node[n]
           t == timer[n]
<1>1. /\ n \in Machines /\ n \in Apelido /\ budget \in Budgets
      /\ MachineInv(s) /\ s \in NodeStates /\ Record(s)
      /\ s.apelido = n /\ s.epoch <= MaxEpoch /\ Clock(t, s)
  BY Running
<1>2. CASE RxToken(n)
  <2> DEFINE soon == s.last_token_rx < MinTokenInterval
             r == OnRxToken(s, soon, FALSE)
  <2>1. Handles(n, r, t, 1, {}) /\ budget' \in Budgets
    BY <1>1, <1>2 DEF RxToken
  <2>2. soon \in BOOLEAN /\ s.epoch \in 0 .. MaxEpoch
    BY <1>1 DEF NodeStates
  <2> HIDE DEF soon
  <2>3. MachineInv(r)
    BY <1>1, <2>2, OnRxTokenKeeps DEF Keeps
  <2>4. /\ SameTable(s, r)
        /\ r.forward_timers = s.forward_timers \/ ForwardsBy(s, r, s.epoch, 1)
    BY <1>1, OnRxTokenTable
  <2> HIDE DEF r, s, t
  <2>5. Near(s, r) /\ r.apelido = n
    BY <1>1, <2>2, <2>3, <2>4, NearFacts DEF SameTable
  <2>6. QED
    BY <1>1, <2>1, <2>3, <2>5, HandlesKeeps DEF s, t
<1>3. CASE RxData(n)
  <2>1. PICK d \in data : Handles(n, OnRxData(s, d.frame), t, 0, {d}) /\ UNCHANGED budget
    BY <1>3 DEF RxData
  <2> DEFINE f == d.frame
             r == OnRxData(s, f)
  <2>2. f \in Frame
    BY DEF MachinesInv
  <2>3. Handles(n, r, t, 0, {d}) /\ budget' \in Budgets
    BY <1>1, <2>1
  <2>4. MachineInv(r)
    BY <1>1, <2>2, OnRxDataKeeps DEF Keeps
  <2> HIDE DEF f
  <2>5. r.apelido = s.apelido /\ r.forward_timers = s.forward_timers
    <3>1. CASE f.origem = s.apelido
      BY <1>1, <3>1, OnRxDataReturns DEF Rest
    <3>2. CASE f.origem # s.apelido
      BY <1>1, <3>2, OnRxDataForwards DEF SameTable
    <3>3. QED
      BY <3>1, <3>2
  <2> HIDE DEF r
  <2>6. QED
    BY <1>1, <2>3, <2>4, <2>5, CalmHandled
<1>4. CASE TimerForwardToken(n)
  <2>1. PICK ep \in 0 .. MaxEpoch :
          /\ t.forward[ep] # <<>>
          /\ Handles(n, OnTimerForwardToken(s, ep, FALSE), t, 0, {})
          /\ UNCHANGED budget
    BY <1>4 DEF TimerForwardToken
  <2> DEFINE r == OnTimerForwardToken(s, ep, FALSE)
  <2>2. s.forward_timers[ep] > 0
    <3>1. t.forward[ep] \in Seq(0 .. TokenTime) /\ Len(t.forward[ep]) = s.forward_timers[ep]
      BY <1>1 DEF Clock
    <3>2. QED
      BY <2>1, <3>1
  <2>3. MachineInv(r)
    BY <1>1, <2>2, OnTimerForwardTokenKeeps DEF Keeps
  <2>4. SameTable(s, r) /\ ForwardsBy(s, r, ep, -1)
    BY <1>1, OnTimerForwardTokenTable
  <2>5. Handles(n, r, t, 0, {}) /\ budget' \in Budgets
    BY <1>1, <2>1
  <2> HIDE DEF r, s, t
  <2>6. Near(s, r) /\ r.apelido = n
    BY <1>1, <2>3, <2>4, NearFacts DEF SameTable
  <2>7. QED
    BY <1>1, <2>3, <2>5, <2>6, HandlesKeeps DEF s, t
<1>5. CASE TimerDataReturnTimeout(n)
  <2>1. PICK attempt \in DOMAIN t.return :
          /\ Handles(n, OnTimerDataReturnTimeout(s, attempt), t, 0, {})
          /\ UNCHANGED budget
    BY <1>5 DEF TimerDataReturnTimeout
  <2>2. attempt \in Nat
    BY <1>1 DEF Clock, NodeStates
  <2>3. MachineInv(OnTimerDataReturnTimeout(s, attempt))
    BY <1>1, <2>2, OnTimerDataReturnTimeoutKeeps DEF Keeps
  <2>4. Calm(s, OnTimerDataReturnTimeout(s, attempt))
    BY <1>1, OnTimerDataReturnTimeoutTable
  <2>5. QED
    BY <1>1, <2>1, <2>3, <2>4, CalmHandled DEF Calm, SameTable
<1>6. CASE MonitorThread(n)
  <2>1. Handles(n, MonitorFires(s), t, 0, {}) /\ UNCHANGED budget
    BY <1>6 DEF MonitorThread
  <2>2. MachineInv(MonitorFires(s)) /\ Calm(s, MonitorFires(s))
    BY <1>1, MonitorFiresKeeps, OtherEventsTable DEF Keeps
  <2>3. QED
    BY <1>1, <2>1, <2>2, CalmHandled DEF Calm, SameTable
<1>7. CASE MonTokenTimeout(n)
  <2>1. Handles(n, OnMonTokenTimeout(s), t, 0, {}) /\ UNCHANGED budget
    BY <1>7 DEF MonTokenTimeout
  <2>2. MachineInv(OnMonTokenTimeout(s)) /\ Calm(s, OnMonTokenTimeout(s))
    BY <1>1, OnMonTokenTimeoutKeeps, OtherEventsTable DEF Keeps
  <2>3. QED
    BY <1>1, <2>1, <2>2, CalmHandled DEF Calm, SameTable
<1>8. CASE EvalTimer(n)
  <2>1. Handles(n, EvalTimerFires(s), [t EXCEPT !.eval = Off], 0, {}) /\ UNCHANGED budget
    BY <1>8 DEF EvalTimer
  <2>2. MachineInv(EvalTimerFires(s)) /\ Calm(s, EvalTimerFires(s))
    BY <1>1, EvalTimerFiresKeeps, OtherEventsTable DEF Keeps
  <2>3. Clock([t EXCEPT !.eval = Off], s)
    BY <1>1, ClockSet
  <2>4. QED
    BY <1>1, <2>1, <2>2, <2>3, CalmHandled DEF Calm, SameTable
<1>9. CASE EvalFirstToken(n)
  <2>1. Handles(n, OnEvalFirstToken(s), t, 0, {}) /\ UNCHANGED budget
    BY <1>9 DEF EvalFirstToken
  <2>2. MachineInv(OnEvalFirstToken(s)) /\ Calm(s, OnEvalFirstToken(s))
    BY <1>1, OnEvalFirstTokenKeeps, OtherEventsTable DEF Keeps
  <2>3. QED
    BY <1>1, <2>1, <2>2, CalmHandled DEF Calm, SameTable
<1>10. CASE DiscoveryTick(n)
  <2> DEFINE recent == s.last_data_activity < DataQuietPeriod
             u == [t EXCEPT !.tick = PresenceInterval]
  <2>1. PICK expired :
          LET r == OnDiscoveryTick(s, recent, expired) IN
          IF r.out.presence = {}
          THEN Handles(n, r, u, 0, {}) /\ UNCHANGED <<budget, added>>
          ELSE Discovers(n, r, u, up)
    BY <1>10 DEF DiscoveryTick
  <2> DEFINE r == OnDiscoveryTick(s, recent, expired)
  <2>2. recent \in BOOLEAN
    OBVIOUS
  <2> HIDE DEF recent
  <2>3. MachineInv(r) /\ Rest(s, r)
    BY <1>1, <2>2, OnDiscoveryTickKeeps, OnDiscoveryTickTable DEF Keeps, Ticked
  <2>4. Clock(u, s)
    BY <1>1, ClockSet, TimedDurations
  <2>5. \/ Handles(n, r, u, 0, {}) /\ UNCHANGED budget
        \/ Discovers(n, r, u, up)
    BY <2>1
  <2> HIDE DEF r, u
  <2>6. r.apelido = n /\ r.forward_timers = s.forward_timers /\ Near(s, r)
    BY <1>1, <2>3, NearFacts DEF Rest
  <2>7. QED
    BY <1>1, <2>3, <2>4, <2>5, <2>6, HandlesKeeps, DiscoversKeeps
<1>11. CASE AnnounceAgain(n)
  <2> DEFINE u == [t EXCEPT !.announces = @ - 1, !.pulse = 1]
  <2>1. t.announces > 0 /\ Discovers(n, s, u, up)
    BY <1>11 DEF AnnounceAgain
  <2>2. t.announces - 1 \in Nat
    BY <1>1, <2>1 DEF Clock
  <2>3. Clock(u, s)
    BY <1>1, <2>2, ClockSet
  <2> HIDE DEF u
  <2>4. QED
    BY <1>1, <2>1, <2>3, NearFacts, DiscoversKeeps
<1>12. QED
  BY <1>2, <1>3, <1>4, <1>5, <1>6, <1>7, <1>8, <1>9, <1>10, <1>11 DEF Events
\* Whatever a user does, a machine that starts or leaves included.
LEMMA UsersKeep ==
  ASSUME MachinesInv, NEW n \in Machines, Users(n)
  PROVE  MachinesInv'
<1> DEFINE s == node[n]
           t == timer[n]
<1>1. up \in SUBSET Machines /\ budget \in Budgets /\ n \in Apelido
  BY TimedMachines DEF MachinesInv
<1>2. CASE Start(n)
  <2> DEFINE nodes == [node EXCEPT ![n] = Fresh(n)]
  <2>1. PICK deaf \in SUBSET up :
          /\ Cardinality(deaf) <= budget.misses
          /\ Settle(Presence(nodes, up \cup {n}, n, deaf), timer, up \cup {n}, n, 0, {})
          /\ budget' = [budget EXCEPT !.starts = @ - 1, !.misses = @ - Cardinality(deaf)]
    BY <1>2 DEF Start
  <2>2. n \notin up /\ budget.starts > 0
    BY <1>2 DEF Start
  <2>3. budget' \in Budgets
    <3>1. IsFiniteSet(deaf)
      BY <1>1, <2>1, ApelidoAssumption, TimedMachines, FS_Subset
    <3>2. Cardinality(deaf) \in Nat
      BY <3>1, FS_CardinalityType
    <3> DEFINE starts == budget.starts - 1
               misses == budget.misses - Cardinality(deaf)
    <3>3. starts \in Nat /\ misses \in Nat
      BY <1>1, <2>1, <2>2, <3>2 DEF Budgets
    <3>4. budget' = [budget EXCEPT !.starts = starts, !.misses = misses]
      BY <2>1
    <3> HIDE DEF starts, misses
    <3>5. QED
      BY <1>1, <3>3, <3>4 DEF Budgets
  <2>4. Ready(nodes, timer, up \cup {n})
    <3>1. ASSUME NEW m \in Machines
          PROVE  /\ MachineInv(nodes[m]) /\ nodes[m].apelido = m
                 /\ \E u : Clock(timer[m], u) /\ Near(u, nodes[m])
                 /\ m \notin up \cup {n} => Cleared(nodes[m]) = Stopped(m)
      <4>1. /\ MachineInv(node[m]) /\ node[m].apelido = m /\ Clock(timer[m], node[m])
            /\ m \notin up => node[m] = Stopped(m)
            /\ Near(node[m], node[m])
        BY NearFacts DEF MachinesInv
      <4>2. CASE m = n
        <5>1. nodes[m] = Fresh(n) /\ node[m] = Stopped(n)
          BY <2>2, <4>1, <4>2 DEF MachinesInv
        <5>2. /\ MachineInv(Fresh(n)) /\ MachineInv(Stopped(n)) /\ Fresh(n).apelido = n
              /\ Fresh(n).forward_timers = Stopped(n).forward_timers
          BY FreshFacts
        <5>3. Near(Stopped(n), Fresh(n))
          BY <5>2, NearFacts
        <5>4. QED
          BY <4>1, <4>2, <5>1, <5>2, <5>3
      <4>3. CASE m # n
        <5>1. nodes[m] = node[m] /\ Cleared(Stopped(m)) = Stopped(m)
          BY <4>3, FreshFacts DEF MachinesInv
        <5>2. QED
          BY <4>1, <5>1
      <4>4. QED
        BY <4>2, <4>3
    <3> HIDE DEF nodes
    <3>2. QED
      BY <3>1 DEF Ready
  <2> HIDE DEF nodes
  <2>5. up \cup {n} \in SUBSET Machines /\ n \notin deaf
    BY <1>1, <2>1, <2>2
  <2>6. QED
    BY <2>1, <2>3, <2>4, <2>5, PresenceKeeps
<1>3. CASE Leave(n)
  <2> DEFINE nodes == [node EXCEPT ![n] = Stopped(n)]
             timers == [timer EXCEPT ![n] = StartedTimers]
  <2>1. /\ budget.leaves > 0 /\ Settle(nodes, timers, up \ {n}, n, 0, {})
        /\ budget' = [budget EXCEPT !.leaves = @ - 1]
    BY <1>3 DEF Leave
  <2>2. budget' \in Budgets
    BY <1>1, <2>1 DEF Budgets
  <2>3. Ready(nodes, timers, up \ {n})
    <3>1. ASSUME NEW m \in Machines
          PROVE  /\ MachineInv(nodes[m]) /\ nodes[m].apelido = m
                 /\ \E u : Clock(timers[m], u) /\ Near(u, nodes[m])
                 /\ m \notin up \ {n} => Cleared(nodes[m]) = Stopped(m)
      <4>1. /\ MachineInv(node[m]) /\ node[m].apelido = m /\ Clock(timer[m], node[m])
            /\ m \notin up => node[m] = Stopped(m)
            /\ Near(node[m], node[m])
        BY NearFacts DEF MachinesInv
      <4>2. /\ MachineInv(Stopped(m)) /\ Stopped(m).apelido = m
            /\ Clock(StartedTimers, Stopped(m)) /\ Cleared(Stopped(m)) = Stopped(m)
            /\ Near(Stopped(m), Stopped(m))
        BY FreshFacts, NearFacts
      <4>3. CASE m = n
        <5>1. nodes[m] = Stopped(m) /\ timers[m] = StartedTimers
          BY <4>3 DEF MachinesInv
        <5>2. QED
          BY <4>2, <5>1
      <4>4. CASE m # n
        <5>1. nodes[m] = node[m] /\ timers[m] = timer[m]
          BY <4>4 DEF MachinesInv
        <5>2. QED
          BY <4>1, <4>2, <4>4, <5>1
      <4>5. QED
        BY <4>3, <4>4
    <3> HIDE DEF nodes, timers
    <3>2. QED
      BY <3>1 DEF Ready
  <2> HIDE DEF nodes, timers
  <2>4. up \ {n} \in SUBSET Machines
    BY <1>1
  <2>5. QED
    BY <2>1, <2>2, <2>3, <2>4, SettleKeeps
<1>4. CASE CmdSend(n)
  <2>1. PICK destino \in Destinos \ {n}, text \in Text :
          Handles(n, OnCmdSend(s, destino, text, budget.sends), t, 0, {})
    BY <1>4 DEF CmdSend
  <2>2. n \in up /\ budget' \in Budgets /\ budget.sends \in Nat
    BY <1>1, <1>4 DEF CmdSend, Budgets
  <2> DEFINE r == OnCmdSend(s, destino, text, budget.sends)
  <2>3. MachineInv(s) /\ Record(s) /\ Clock(t, s) /\ s.apelido = n
    BY <2>2, Running
  <2>4. MachineInv(r)
    BY <2>1, <2>2, <2>3, OnCmdSendKeeps, TimedChoices DEF Keeps
  <2>5. r.apelido = n /\ r.forward_timers = s.forward_timers
    BY <2>3, OnCmdSendTable DEF SameTable
  <2>6. QED
    BY <2>1, <2>2, <2>3, <2>4, <2>5, CalmHandled
<1>5. CASE CmdAddToken(n)
  <2>1. /\ n \in up /\ budget' \in Budgets
        /\ Handles(n, OnCmdAddToken(s), t, 0, {})
    BY <1>1, <1>5 DEF CmdAddToken, Budgets
  <2>2. MachineInv(s) /\ Record(s) /\ Clock(t, s) /\ s.apelido = n
    BY <2>1, Running
  <2>3. MachineInv(OnCmdAddToken(s)) /\ Calm(s, OnCmdAddToken(s))
    BY <2>2, OnCmdAddTokenKeeps, OtherEventsTable DEF Keeps
  <2>4. QED
    BY <2>1, <2>2, <2>3, CalmHandled DEF Calm, SameTable
<1>6. CASE CmdJoin(n)
  <2>1. /\ n \in up /\ budget' \in Budgets
        /\ Settle(Presence(node, up, n, {}), timer, up, n, 0, {})
    BY <1>1, <1>6 DEF CmdJoin, Budgets
  <2>2. Ready(node, timer, up)
    <3>1. ASSUME NEW m \in Machines
          PROVE  /\ MachineInv(node[m]) /\ node[m].apelido = m
                 /\ \E u : Clock(timer[m], u) /\ Near(u, node[m])
                 /\ m \notin up => Cleared(node[m]) = Stopped(m)
      BY NearFacts, FreshFacts DEF MachinesInv
    <3>2. QED
      BY <3>1 DEF Ready
  <2>3. n \notin {}
    OBVIOUS
  <2>4. QED
    BY <1>1, <2>1, <2>2, <2>3, PresenceKeeps
<1>7. QED
  BY <1>2, <1>3, <1>4, <1>5, <1>6 DEF Users

\* Half a second makes a machine older and its timers shorter.
LEMMA OlderFacts ==
  ASSUME NEW s, MachineInv(s)
  PROVE  LET r == Older(s) IN
         /\ Quiet(s, r) /\ MachineInv(r) /\ r.out = s.out
         /\ r.discovery_deferred = s.discovery_deferred
         /\ \A m \in Apelido : r.member_last_seen[m] <= s.member_last_seen[m] + 1
<1> DEFINE seen == [m \in Apelido |->
                     IF m \in s.members THEN Grow(s.member_last_seen[m], MemberTimeout + 1)
                     ELSE s.member_last_seen[m]]
           rx == IF s.last_token_rx = NoInstant THEN s.last_token_rx
                 ELSE Grow(s.last_token_rx, MinTokenInterval)
           active == Grow(s.last_data_activity, DataQuietPeriod)
           silence == Grow(s.mon_silence, TokenTimeout + 1)
           r == Older(s)
<1>1. s \in NodeStates
  BY DEF MachineInv
<1>2. r = [s EXCEPT !.member_last_seen = seen, !.last_token_rx = rx,
                    !.last_data_activity = active, !.mon_silence = silence]
  BY <1>1 DEF Older, NodeStates
<1>3. \A end : \A age \in Nat : Grow(age, end) \in Nat /\ Grow(age, end) <= age + 1
  BY DEF Grow
<1>4. s.member_last_seen \in [Apelido -> Nat]
  BY <1>1 DEF NodeStates
<1>5. seen \in [Apelido -> Nat] /\ \A m \in Apelido : seen[m] <= s.member_last_seen[m] + 1
  BY <1>3, <1>4
<1>6. rx \in Nat \cup {NoInstant} /\ active \in Nat /\ silence \in Nat
  BY <1>1, <1>3 DEF NodeStates
<1> HIDE DEF seen, rx, active, silence, r
<1>7. r \in NodeStates
  BY <1>1, <1>2, <1>5, <1>6 DEF NodeStates
<1>8. /\ Quiet(s, r) /\ r.out = s.out /\ r.member_last_seen = seen
      /\ r.discovery_deferred = s.discovery_deferred
  <2>1. DOMAIN s = NodeFields
    BY <1>1, FieldsOf
  <2>2. SameRole(s, r) /\ SameToken(s, r)
    BY <1>2, <2>1 DEF NodeFields, SameRole, SameToken
  <2>3. SameRound(s, r) /\ r.queue = s.queue /\ r.mon_paused = s.mon_paused
    BY <1>2, <2>1 DEF NodeFields, SameRound
  <2>4. r.out = s.out /\ r.member_last_seen = seen /\ r.discovery_deferred = s.discovery_deferred
    BY <1>2, <2>1 DEF NodeFields
  <2>5. QED
    BY <1>7, <2>2, <2>3, <2>4 DEF Quiet
<1>9. QED
  BY <1>5, <1>8, QuietInv DEF r

LEMMA SoonerFacts ==
  ASSUME NEW t, NEW s, Clock(t, s)
  PROVE  LET r == Sooner(t) IN
         /\ Clock(r, s)
         /\ r.tick = Down(t.tick) /\ r.announces = t.announces /\ r.pulse = Down(t.pulse)
<1> DEFINE f(e) == [i \in DOMAIN t.forward[e] |-> Down(t.forward[e][i])]
           forward == [e \in 0 .. MaxEpoch |-> f(e)]
           return == [a \in DOMAIN t.return |-> Down(t.return[a])]
           eval == Down(t.eval)
           tick == Down(t.tick)
           pulse == Down(t.pulse)
           r == Sooner(t)
<1>1. r = [t EXCEPT !.forward = forward, !.return = return, !.eval = eval, !.tick = tick,
                    !.pulse = pulse]
  BY DEF Sooner, Clock
<1>2. \A max \in Nat : \A left \in 0 .. max : Down(left) \in 0 .. max
  BY DEF Down
<1>3. TokenTime \in Nat /\ TokenTimeout \in Nat
  BY TimedDurations
<1>4. ASSUME NEW e \in 0 .. MaxEpoch
      PROVE  f(e) \in Seq(0 .. TokenTime) /\ Len(f(e)) = Len(t.forward[e])
  <2> DEFINE q == t.forward[e]
             S == 0 .. TokenTime
  <2>1. q \in Seq(S)
    BY DEF Clock
  <2> HIDE DEF q, S
  <2>2. /\ Len(q) \in Nat /\ DOMAIN q = 1 .. Len(q)
        /\ \A i \in 1 .. Len(q) : q[i] \in S
    BY <2>1
  <2> DEFINE p == [i \in 1 .. Len(q) |-> Down(q[i])]
  <2>3. \A i \in 1 .. Len(q) : Down(q[i]) \in S
    BY <1>2, <1>3, <2>2 DEF S
  <2>4. p \in Seq(S) /\ Len(p) = Len(q)
    BY <2>2, <2>3
  <2>5. f(e) = p
    BY <2>2 DEF q
  <2>6. QED
    BY <2>4, <2>5 DEF q, S
<1>5. return \in [s.return_timers -> 0 .. TokenTimeout]
  BY <1>2, <1>3 DEF Clock
<1>6. tick \in Nat /\ pulse \in Nat
  BY DEF Clock, Down
<1>7. forward \in [0 .. MaxEpoch -> Seq(0 .. TokenTime)]
      /\ \A e \in 0 .. MaxEpoch : Len(forward[e]) = Len(t.forward[e])
  BY <1>4
<1> HIDE DEF forward, return, eval, tick, pulse, r
<1>8. /\ DOMAIN r = DOMAIN t /\ r.forward = forward /\ r.return = return
      /\ r.tick = tick /\ r.announces = t.announces /\ r.pulse = pulse
  BY <1>1 DEF Clock
<1>9. QED
  BY <1>5, <1>6, <1>7, <1>8 DEF Clock, r, tick, pulse

LEMMA PassKeeps ==
  ASSUME MachinesInv, Pass
  PROVE  MachinesInv'
<1>1. /\ DOMAIN node' = Machines /\ DOMAIN timer' = Machines
      /\ UNCHANGED <<up, data, budget>>
  BY DEF Pass
<1>2. ASSUME NEW n \in Machines
      PROVE  /\ MachineInv(node'[n]) /\ node'[n].apelido = n /\ node'[n].epoch <= MaxEpoch
             /\ node'[n].out = NoOut
             /\ Clock(timer'[n], node'[n])
             /\ n \notin up' => node'[n] = Stopped(n)
  <2>1. /\ MachineInv(node[n]) /\ node[n].apelido = n /\ node[n].epoch <= MaxEpoch
        /\ node[n].out = NoOut
        /\ Clock(timer[n], node[n])
        /\ n \notin up => node[n] = Stopped(n)
    BY DEF MachinesInv
  <2>2. CASE n \in up
    <3>1. node'[n] = Older(node[n]) /\ timer'[n] = Sooner(timer[n]) /\ n \in up'
      BY <2>2 DEF Pass
    <3>2. /\ Quiet(node[n], node'[n]) /\ MachineInv(node'[n]) /\ node'[n].out = NoOut
      BY <2>1, <3>1, OlderFacts
    <3>3. Clock(timer'[n], node[n])
      BY <2>1, <3>1, SoonerFacts
    <3>4. QED
      BY <2>1, <3>1, <3>2, <3>3 DEF Quiet, SameRole, SameToken, SameRound, Clock
  <2>3. CASE n \notin up
    BY <1>1, <2>1, <2>3 DEF Pass
  <2>4. QED
    BY <2>2, <2>3
<1>3. QED
  BY <1>1, <1>2 DEF MachinesInv, Stopped, StartedNode

\* The machines that have started together.
LEMMA BootedFacts ==
  ASSUME NEW boot \in SUBSET Machines, NEW n \in boot
  PROVE  LET s == Booted(n, boot) IN
         /\ MachineInv(s) /\ s.apelido = n /\ s.members = boot /\ s.queue = <<>>
         /\ s.out = NoOut /\ s.epoch = 0
         /\ \A m \in Apelido : s.member_last_seen[m] = 0
         /\ s.forward_timers = Fresh(n).forward_timers
         /\ s.return_timers \subseteq Fresh(n).return_timers
<1> DEFINE b == Fresh(n)
           g == Greeted(b, boot \ {n})
           s == Booted(n, boot)
<1>1. n \in Machines /\ boot \ {n} \in SUBSET Apelido
  BY TimedMachines
<1>2. /\ MachineInv(b) /\ b.apelido = n /\ b.members = {n} /\ b.queue = <<>> /\ b.epoch = 0
      /\ b.member_last_seen = [m \in Apelido |-> 0]
  BY <1>1, FreshFacts
<1> HIDE DEF b
<1>3. Greets(b, g, boot \ {n})
  BY <1>1, <1>2, GreetedFacts
<1>4. s = Cleared(g)
  BY DEF Booted, Cleared, b
<1> HIDE DEF g, s
<1>5. /\ MachineInv(g) /\ g.apelido = n /\ g.members = boot /\ g.queue = <<>> /\ g.epoch = 0
      /\ \A m \in Apelido : g.member_last_seen[m] = 0
      /\ g.forward_timers = b.forward_timers
      /\ g.return_timers \subseteq b.return_timers
  BY <1>2, <1>3 DEF Greets
<1>6. Quiet(g, s) /\ MachineInv(s) /\ s.out = NoOut /\ SameTable(g, s)
  BY <1>4, <1>5, ClearedFacts
<1>7. QED
  BY <1>5, <1>6 DEF Quiet, SameToken, SameRound, SameTable, s, b
\* The ring as it is at first.
LEMMA InitMachines ==
  ASSUME Init
  PROVE  MachinesInv
<1>1. /\ budget \in Budgets /\ budget.boot \in SUBSET Machines /\ up = budget.boot
      /\ DOMAIN node = Machines /\ DOMAIN timer = Machines /\ data = {}
  BY TimedScenarios DEF Init, Budgets
<1>2. ASSUME NEW n \in Machines
      PROVE  /\ MachineInv(node[n]) /\ node[n].apelido = n /\ node[n].epoch <= MaxEpoch
             /\ node[n].out = NoOut
             /\ Clock(timer[n], node[n])
             /\ n \notin up => node[n] = Stopped(n)
  <2> DEFINE s == Stopped(n)
             started == [StartedTimers EXCEPT !.eval = DiscoveryWindow]
  <2>1. /\ MachineInv(s) /\ s.apelido = n /\ s.epoch = 0 /\ s.out = NoOut
        /\ Clock(StartedTimers, s)
    BY FreshFacts
  <2>2. CASE n \notin up
    <3>1. node[n] = s /\ timer[n] = StartedTimers
      BY <1>1, <2>2 DEF Init
    <3>2. QED
      BY <2>1, <2>2, <3>1, MaxEpochAssumption
  <2>3. CASE n \in up
    <3> DEFINE b == Booted(n, up)
               f == Fresh(n)
    <3>1. node[n] = b /\ timer[n] = started
      BY <1>1, <2>3 DEF Init
    <3>2. /\ MachineInv(b) /\ b.apelido = n /\ b.out = NoOut /\ b.epoch = 0
          /\ b.forward_timers = f.forward_timers
          /\ b.return_timers \subseteq f.return_timers
      BY <1>1, <2>3, BootedFacts
    <3>3. Clock(started, f) /\ f.return_timers = {}
      BY FreshFacts
    <3> HIDE DEF b, f, started
    <3>4. b.return_timers = f.return_timers
      BY <3>2, <3>3
    <3>5. QED
      BY <2>3, <3>1, <3>2, <3>3, <3>4, MaxEpochAssumption DEF Clock
  <2>4. QED
    BY <2>2, <2>3
<1>3. QED
  BY <1>1, <1>2 DEF MachinesInv

\* Every step keeps the invariant of the machines.
LEMMA NextMachines ==
  ASSUME MachinesInv, [Next]_vars
  PROVE  MachinesInv'
<1>1. CASE Pass
  BY <1>1, PassKeeps
<1>2. CASE \E n \in up : Events(n)
  BY <1>2, EventsKeep
<1>3. CASE \E n \in Machines : Users(n)
  BY <1>3, UsersKeep
<1>4. CASE UNCHANGED vars
  BY <1>4 DEF vars, MachinesInv, Stopped, StartedNode
<1>5. QED
  BY <1>1, <1>2, <1>3, <1>4 DEF Next, System

\* In every ring, whoever starts and leaves, the machines keep the invariant
\* of their handlers, and every timer they count as pending runs.
THEOREM TimedMachinesHold == Spec => []MachinesInv
<1>1. Init => MachinesInv
  BY InitMachines
<1>2. MachinesInv /\ [Next]_vars => MachinesInv'
  BY NextMachines
<1>3. QED
  BY <1>1, <1>2, PTL DEF Spec

\* A token that is held is under a timer that runs, or its holder is alone
\* and knows it: so it is when the machine counts the timers, and those it
\* counts are those that run.
LEMMA MachinesHold ==
  ASSUME MachinesInv
  PROVE  HoldEnds
<1> SUFFICES ASSUME NEW n \in up, node[n].has_token
             PROVE  LET s == node[n] IN
                    CASE s.waiting ->
                           /\ s.active_data_attempt \in DOMAIN timer[n].return
                           /\ timer[n].return[s.active_data_attempt] \in 0 .. TokenTimeout
                      [] ~s.waiting /\ ~Alone(s) ->
                           \E left \in Range(timer[n].forward[s.epoch]) : left \in 0 .. TokenTime
                      [] ~s.waiting /\ Alone(s) -> s.segurando_sozinho
  BY DEF HoldEnds
<1> DEFINE s == node[n]
           t == timer[n]
<1>1. MachineInv(s) /\ s \in NodeStates /\ s.epoch <= MaxEpoch /\ Clock(t, s)
  BY Running
<1>2. CASE s.waiting
  <2>1. s.active_data_attempt \in DOMAIN t.return
    BY <1>1, <1>2 DEF MachineInv, RoundInv, Clock
  <2>2. t.return[s.active_data_attempt] \in 0 .. TokenTimeout
    BY <1>1, <2>1 DEF Clock
  <2>3. QED
    BY <1>2, <2>1, <2>2
<1>3. CASE ~s.waiting /\ ~Alone(s)
  <2> DEFINE q == t.forward[s.epoch]
             S == 0 .. TokenTime
  <2>1. s.epoch \in 0 .. MaxEpoch /\ s.forward_timers[s.epoch] > 0
    BY <1>1, <1>3 DEF MachineInv, TokenInv, NodeStates
  <2>2. q \in Seq(S) /\ Len(q) = s.forward_timers[s.epoch]
    BY <1>1, <2>1 DEF Clock
  <2> HIDE DEF q, S
  <2>3. 1 \in DOMAIN q /\ q[1] \in S
    BY <2>1, <2>2
  <2>4. q[1] \in Range(q)
    BY <2>3 DEF Range
  <2>5. QED
    BY <1>3, <2>3, <2>4 DEF q, S
<1>4. CASE ~s.waiting /\ Alone(s)
  BY <1>1, <1>4 DEF MachineInv, TokenInv
<1>5. QED
  BY <1>2, <1>3, <1>4

THEOREM TimedHoldEnds == Spec => []HoldEnds
<1>1. QED
  BY TimedMachinesHold, MachinesHold, PTL
-----------------------------------------------------------------------------
\* A ring in which every round of presence is heard by everybody, and no
\* machine starts beside messages.  (One that starts between the origin of a
\* DATA and its destination's turn may be passed over.)
SteadyRing ==
  /\ PresenceInterval < MemberTimeout
  /\ \A sc \in Scenarios : sc.misses = 0 /\ (sc.starts = 0 \/ sc.sends = 0)

\* While DISCOVERs of the chain are due, one is due within half a second,
\* and the periodic round comes when the chain ends.
Paced(t) ==
  /\ t.announces > 0 => t.pulse <= 1 /\ t.tick = t.announces + t.pulse
  /\ t.announces = 0 => t.tick <= PresenceInterval

\* Machine s knows the others that are up, and when its next round comes it
\* will have heard of them within presence_interval; a round that follows
\* one that was put off removes nobody.
HeardOf(s, t, alive) ==
  \A m \in alive \ {s.apelido} :
    /\ m \in s.members
    /\ t.announces > 0 => s.member_last_seen[m] + t.pulse <= 1
    /\ t.announces = 0 /\ ~s.discovery_deferred =>
         s.member_last_seen[m] + t.tick <= PresenceInterval

\* DATA without an answer has not been at its destination, if that is up.
OnItsWay(d, alive) ==
  LET f == d.frame IN
  f.controle = CTRL_NONE /\ {f.origem, f.destino} \subseteq alive /\ f.destino # f.origem
    => ~Passed(f.origem, d.to, f.destino)

LiveInv ==
  /\ budget.misses = 0
  /\ \/ budget.starts = 0
     \/ budget.sends = 0 /\ data = {} /\ \A n \in Machines : node[n].queue = <<>>
  /\ \A n \in Machines : Paced(timer[n])
  /\ \A n \in up : HeardOf(node[n], timer[n], up)
  /\ \A d \in data : OnItsWay(d, up)

TimerFields == {"forward", "return", "eval", "tick", "announces", "pulse"}

\* What a step must leave behind, before what was sent is on its way.
AllHeard(nodes, timers, alive, b) ==
  /\ b.misses = 0
  /\ \/ b.starts = 0
     \/ b.sends = 0 /\ data = {}
        /\ \A m \in Machines : nodes[m].queue = <<>> /\ nodes[m].out.data = {}
  /\ \A m \in Machines : /\ Record(nodes[m]) /\ DOMAIN timers[m] = TimerFields
                         /\ Paced(timers[m])
                         /\ \A d \in nodes[m].out.data : OnItsWay(d, alive)
  /\ \A m \in alive : HeardOf(nodes[m], timers[m], alive)

\* Timers that handlers start leave the clock of presence alone.
LEMMA ArmedPresence ==
  ASSUME NEW t, NEW s, DOMAIN t = TimerFields
  PROVE  LET a == Armed(t, s) IN
         a.tick = t.tick /\ a.announces = t.announces /\ a.pulse = t.pulse
<1> DEFINE forward == [e \in 0 .. MaxEpoch |->
                         CASE s.forward_timers[e] > Len(t.forward[e]) -> Append(t.forward[e], TokenTime)
                           [] s.forward_timers[e] < Len(t.forward[e]) -> Tail(t.forward[e])
                           [] OTHER -> t.forward[e]]
           return == [x \in s.return_timers |->
                        IF x \in DOMAIN t.return THEN t.return[x] ELSE TokenTimeout]
           eval == IF s.eval_armed THEN DiscoveryWindow ELSE t.eval
<1>1. Armed(t, s) = [t EXCEPT !.forward = forward, !.return = return, !.eval = eval]
  BY DEF Armed, TimerFields
<1> HIDE DEF forward, return, eval
<1>2. QED
  BY <1>1 DEF TimerFields

LEMMA SettleHeard ==
  ASSUME LiveInv, NEW nodes, NEW timers, NEW alive \in SUBSET Machines,
         NEW n, NEW eaten, NEW read, Settle(nodes, timers, alive, n, eaten, read),
         AllHeard(nodes, timers, alive, budget'), alive \subseteq up \/ data = {}
  PROVE  LiveInv'
<1>1. ASSUME NEW m \in Machines
      PROVE  /\ SameTable(nodes[m], node'[m]) /\ node'[m].queue = nodes[m].queue
             /\ timer'[m].tick = timers[m].tick /\ timer'[m].announces = timers[m].announces
             /\ timer'[m].pulse = timers[m].pulse
  <2>1. Record(nodes[m]) /\ DOMAIN timers[m] = TimerFields
    BY DEF AllHeard
  <2>2. node'[m] = Cleared(nodes[m]) /\ timer'[m] = Armed(timers[m], nodes[m])
    BY DEF Settle, Cleared
  <2>3. SameTable(nodes[m], node'[m]) /\ node'[m].queue = nodes[m].queue
    BY <2>1, <2>2 DEF Cleared, Record, NodeFields, SameTable
  <2>4. QED
    BY <2>1, <2>2, <2>3, ArmedPresence
<1>2. up' = alive /\ data' \subseteq (data \cup UNION {nodes[k].out.data : k \in Machines})
  BY DEF Settle
<1>3. \A m \in Machines : Paced(timer'[m])
  BY <1>1 DEF AllHeard, Paced
<1>4. ASSUME NEW m \in up'
      PROVE  HeardOf(node'[m], timer'[m], up')
  <2>1. m \in Machines /\ HeardOf(nodes[m], timers[m], alive)
    BY <1>2 DEF AllHeard
  <2>2. QED
    BY <1>1, <1>2, <2>1 DEF HeardOf, SameTable
<1>5. ASSUME NEW d \in data'
      PROVE  OnItsWay(d, up')
  <2>1. CASE d \in data
    BY <1>2, <2>1 DEF LiveInv, OnItsWay
  <2>2. CASE d \notin data
    <3>1. PICK k \in Machines : d \in nodes[k].out.data
      BY <1>2, <2>2
    <3>2. QED
      BY <1>2, <3>1 DEF AllHeard
  <2>3. QED
    BY <2>1, <2>2
<1>6. \/ budget'.starts = 0
      \/ budget'.sends = 0 /\ data' = {} /\ \A m \in Machines : node'[m].queue = <<>>
  BY <1>1, <1>2 DEF AllHeard
<1>7. QED
  BY <1>3, <1>4, <1>5, <1>6 DEF LiveInv, AllHeard

\* DATA that leaves its origin has passed nobody.
LEMMA OwnOnItsWay ==
  ASSUME NEW members \in SUBSET Nat, NEW o \in members, NEW alive, alive \ {o} \subseteq members,
         NEW d, d.frame.origem = o, d.to = Successor(members, o)
  PROVE  OnItsWay(d, alive)
<1> SUFFICES ASSUME d.frame.destino \in alive, d.frame.destino # o
             PROVE  ~Passed(o, d.to, d.frame.destino)
  BY DEF OnItsWay
<1>1. d.frame.destino \in members
  OBVIOUS
<1>2. QED
  BY <1>1, PassedNobody

\* What a machine that is up sends on its own account.
Own(s) ==
  \A d \in s.out.data :
    d.frame.origem = s.apelido /\ d.to = Successor(s.members, s.apelido)

LEMMA OwnFacts ==
  ASSUME MachinesInv, NEW n \in up, NEW s, s.apelido = n, SendsOwn(node[n], s)
  PROVE  Own(s) /\ (node[n].queue = <<>> => s.queue = <<>> /\ s.out.data = {})
<1>1. node[n].out.data = {} /\ node[n].apelido = n
  BY Running DEF NoOut
<1>2. QED
  BY <1>1 DEF SendsOwn, Own

\* A machine has handled an event and knows the others as before, or better.
LEMMA HandlesHeard ==
  ASSUME MachinesInv, LiveInv, NEW n \in up, NEW s, NEW t, NEW eaten, NEW read,
         Handles(n, s, t, eaten, read), Record(s),
         DOMAIN t = TimerFields, Paced(t), HeardOf(s, t, up),
         \A d \in s.out.data : OnItsWay(d, up),
         budget'.misses = 0,
         \/ budget'.starts = 0
         \/ /\ budget'.sends = 0 /\ data = {} /\ \A m \in Machines : node[m].queue = <<>>
            /\ s.queue = <<>> /\ s.out.data = {}
  PROVE  LiveInv'
<1> DEFINE nodes == [node EXCEPT ![n] = s]
           timers == [timer EXCEPT ![n] = t]
<1>1. n \in Machines /\ up \in SUBSET Machines
  BY Running
<1>2. ASSUME NEW m \in Machines
      PROVE  /\ Record(nodes[m]) /\ DOMAIN timers[m] = TimerFields /\ Paced(timers[m])
             /\ \A d \in nodes[m].out.data : OnItsWay(d, up)
             /\ m \in up => HeardOf(nodes[m], timers[m], up)
             /\ m # n => nodes[m].queue = node[m].queue /\ nodes[m].out.data = {}
  <2>1. CASE m = n
    <3>1. nodes[m] = s /\ timers[m] = t
      BY <2>1 DEF MachinesInv
    <3>2. QED
      BY <2>1, <3>1
  <2>2. CASE m # n
    <3>1. nodes[m] = node[m] /\ timers[m] = timer[m]
      BY <2>2 DEF MachinesInv
    <3>2. Record(node[m]) /\ DOMAIN timer[m] = TimerFields /\ node[m].out.data = {}
      BY RecordOf DEF MachinesInv, MachineInv, Clock, TimerFields, NoOut
    <3>3. QED
      BY <3>1, <3>2 DEF LiveInv
  <2>3. QED
    BY <2>1, <2>2
<1>3. nodes[n] = s
  BY <1>1 DEF MachinesInv
<1>4. Settle(nodes, timers, up, n, eaten, read)
  BY DEF Handles
<1> HIDE DEF nodes, timers
<1>5. AllHeard(nodes, timers, up, budget')
  BY <1>1, <1>2, <1>3 DEF AllHeard
<1>6. QED
  BY <1>1, <1>4, <1>5, SettleHeard

\* ... when the handler leaves the table and the clock alone.
LEMMA CalmHeard ==
  ASSUME MachinesInv, LiveInv, NEW n \in up, NEW s, NEW t, NEW eaten, NEW read,
         Handles(n, s, t, eaten, read), UNCHANGED budget,
         Record(s), SameTable(node[n], s), SendsOwn(node[n], s),
         DOMAIN t = TimerFields, t.tick = timer[n].tick, t.announces = timer[n].announces,
         t.pulse = timer[n].pulse
  PROVE  LiveInv'
<1>1. /\ n \in Machines /\ up \in SUBSET Machines
      /\ node[n] \in NodeStates /\ node[n].apelido = n /\ MachineInv(node[n])
  BY Running
<1>2. Paced(t) /\ HeardOf(s, t, up) /\ s.apelido = n
  BY <1>1 DEF LiveInv, Paced, HeardOf, SameTable
<1>3. Own(s) /\ (node[n].queue = <<>> => s.queue = <<>> /\ s.out.data = {})
  BY <1>2, OwnFacts
<1>4. s.members \in SUBSET Nat /\ n \in s.members /\ up \ {n} \subseteq s.members
  BY <1>1, <1>2, MembersAreNaturals DEF SameTable, MachineInv, RoleInv, HeardOf
<1>5. \A d \in s.out.data : OnItsWay(d, up)
  BY <1>2, <1>3, <1>4, OwnOnItsWay DEF Own
<1>6. /\ budget'.misses = 0
      /\ \/ budget'.starts = 0
         \/ /\ budget'.sends = 0 /\ data = {} /\ \A m \in Machines : node[m].queue = <<>>
            /\ s.queue = <<>> /\ s.out.data = {}
  BY <1>1, <1>3 DEF LiveInv
<1>7. QED
  BY <1>2, <1>5, <1>6, HandlesHeard
\* After a round of presence, everybody has just heard of everybody.
LEMMA PresenceHeard ==
  ASSUME MachinesInv, LiveInv, NEW alive \in SUBSET Machines, NEW n \in alive,
         NEW nodes, NEW timers, Ready(nodes, timers, alive),
         Settle(Presence(nodes, alive, n, {}), timers, alive, n, 0, {}),
         \A m \in Machines : Paced(timers[m]),
         \A m \in Machines \ alive : nodes[m] = node[m],
         budget'.misses = 0,
         \/ /\ alive = up /\ budget'.starts = 0
            /\ \A m \in alive : alive \ {m} \subseteq nodes[m].members /\ Own(nodes[m])
         \/ /\ budget'.sends = 0 /\ data = {}
            /\ \A m \in Machines : nodes[m].queue = <<>> /\ nodes[m].out.data = {}
  PROVE  LiveInv'
<1> DEFINE P == Presence(nodes, alive, n, {})
<1>1. /\ \A m \in Machines \ alive : P[m] = nodes[m]
      /\ \A m \in alive : Greets(nodes[m], P[m], alive \ {m})
  <2>1. /\ \A m \in Machines \ (alive \ {}) : P[m] = nodes[m]
        /\ \A m \in alive \ {} : Greets(nodes[m], P[m], (alive \ {}) \ {m})
    BY PresenceFacts DEF Ready
  <2>2. alive \ {} = alive
    OBVIOUS
  <2> HIDE DEF P
  <2>3. QED
    BY <2>1, <2>2
<1> HIDE DEF P
<1>2. ASSUME NEW m \in alive
      PROVE  /\ Record(P[m]) /\ DOMAIN timers[m] = TimerFields
             /\ HeardOf(P[m], timers[m], alive)
             /\ nodes[m].queue = <<>> => P[m].queue = <<>> /\ P[m].out.data = nodes[m].out.data
             /\ alive \ {m} \subseteq nodes[m].members /\ Own(nodes[m]) =>
                  \A d \in P[m].out.data : OnItsWay(d, alive)
  <2>1. /\ MachineInv(nodes[m]) /\ nodes[m].apelido = m
        /\ \E u : Clock(timers[m], u)
        /\ Paced(timers[m])
    BY DEF Ready
  <2>2. Greets(nodes[m], P[m], alive \ {m})
    BY <1>1
  <2>3. DOMAIN timers[m] = TimerFields /\ timers[m].tick \in Nat /\ timers[m].pulse \in Nat
    BY <2>1 DEF Clock, TimerFields
  <2>4. /\ MachineInv(P[m]) /\ P[m] \in NodeStates /\ P[m].apelido = m
        /\ alive \ {m} \subseteq P[m].members
        /\ \A k \in alive \ {m} : P[m].member_last_seen[k] = 0
    BY <2>1, <2>2, TimedMachines DEF Greets, MachineInv
  <2>5. HeardOf(P[m], timers[m], alive)
    BY <2>1, <2>3, <2>4 DEF HeardOf, Paced
  <2>6. ASSUME alive \ {m} \subseteq nodes[m].members, Own(nodes[m]), NEW d \in P[m].out.data
        PROVE  OnItsWay(d, alive)
    <3>1. SendsOwn(nodes[m], P[m]) /\ P[m].members = nodes[m].members
      BY <2>2, <2>6 DEF Greets
    <3>2. d.frame.origem = m /\ d.to = Successor(P[m].members, m)
      BY <2>1, <2>6, <3>1 DEF SendsOwn, Own
    <3>3. P[m].members \in SUBSET Nat /\ m \in P[m].members
      BY <2>4, MembersAreNaturals DEF MachineInv, RoleInv
    <3>4. QED
      BY <2>4, <3>2, <3>3, OwnOnItsWay
  <2>7. QED
    BY <2>2, <2>3, <2>4, <2>5, <2>6, RecordOf DEF Greets
<1>3. ASSUME NEW m \in Machines \ alive
      PROVE  /\ Record(P[m]) /\ DOMAIN timers[m] = TimerFields
             /\ P[m].queue = nodes[m].queue /\ P[m].out.data = {}
  <2>1. P[m] = node[m] /\ node[m] \in NodeStates /\ node[m].out.data = {}
    BY <1>1 DEF MachinesInv, MachineInv, NoOut
  <2>2. \E u : Clock(timers[m], u)
    BY DEF Ready
  <2>3. QED
    BY <1>1, <2>1, <2>2, RecordOf DEF Clock, TimerFields
<1>4. AllHeard(P, timers, alive, budget')
  <2>1. CASE /\ alive = up /\ budget'.starts = 0
             /\ \A m \in alive : alive \ {m} \subseteq nodes[m].members /\ Own(nodes[m])
    BY <1>2, <1>3, <2>1 DEF AllHeard
  <2>2. CASE /\ budget'.sends = 0 /\ data = {}
             /\ \A m \in Machines : nodes[m].queue = <<>> /\ nodes[m].out.data = {}
    <3>1. \A m \in Machines : P[m].queue = <<>> /\ P[m].out.data = {}
      BY <1>2, <1>3, <2>2
    <3>2. QED
      BY <1>2, <1>3, <2>2, <3>1 DEF AllHeard
  <2>3. QED
    BY <2>1, <2>2
<1>5. Settle(P, timers, alive, n, 0, {})
  BY DEF P
<1>6. alive \subseteq up \/ data = {}
  OBVIOUS
<1>7. QED
  BY <1>4, <1>5, <1>6, SettleHeard

\* In every machine but the one that acts, nothing is on its way out.
LEMMA OthersOwn ==
  ASSUME MachinesInv, LiveInv, NEW m \in up
  PROVE  Own(node[m]) /\ up \ {m} \subseteq node[m].members
BY Running DEF NoOut, Own, LiveInv, HeardOf

\* Where no DISCOVER is missed, all hear the one of machine n.
LEMMA DiscoversHeard ==
  ASSUME MachinesInv, LiveInv, NEW n \in up, NEW s, NEW t, Discovers(n, s, t, up),
         MachineInv(s), s.apelido = n, Clock(t, node[n]), Near(node[n], s),
         Paced(t), up \ {n} \subseteq s.members, SendsOwn(node[n], s)
  PROVE  LiveInv'
<1> DEFINE nodes == [node EXCEPT ![n] = s]
           timers == [timer EXCEPT ![n] = t]
<1>1. PICK deaf \in SUBSET (up \ {n}) :
        /\ Cardinality(deaf) <= budget.misses
        /\ Settle(Presence(nodes, up, n, deaf), timers, up, n, 0, {})
        /\ budget' = [budget EXCEPT !.misses = @ - Cardinality(deaf)]
  BY DEF Discovers
<1>2. n \in Machines /\ up \in SUBSET Machines /\ budget \in Budgets /\ budget.misses = 0
  BY Running DEF LiveInv
<1>3. deaf = {} /\ Cardinality(deaf) = 0
  <2>1. IsFiniteSet(deaf)
    BY <1>1, <1>2, ApelidoAssumption, TimedMachines, FS_Subset
  <2>2. Cardinality(deaf) \in Nat
    BY <2>1, FS_CardinalityType
  <2>3. QED
    BY <1>1, <1>2, <2>1, <2>2, FS_EmptySet
<1>4. /\ budget'.misses = 0 /\ budget'.starts = budget.starts /\ budget'.sends = budget.sends
  BY <1>1, <1>2, <1>3 DEF Budgets
<1>5. Settle(Presence(nodes, up, n, {}), timers, up, n, 0, {})
  BY <1>1, <1>3
<1>6. Ready(nodes, timers, up)
  BY OneReady
<1>7. Own(s) /\ (node[n].queue = <<>> => s.queue = <<>> /\ s.out.data = {})
  BY OwnFacts
<1>8. ASSUME NEW m \in Machines
      PROVE  /\ Paced(timers[m])
             /\ m \notin up => nodes[m] = node[m]
             /\ m \in up => up \ {m} \subseteq nodes[m].members /\ Own(nodes[m])
             /\ node[m].queue = <<>> => nodes[m].queue = <<>> /\ nodes[m].out.data = {}
  <2>1. CASE m = n
    <3>1. nodes[m] = s /\ timers[m] = t
      BY <2>1 DEF MachinesInv
    <3>2. QED
      BY <1>7, <2>1, <3>1
  <2>2. CASE m # n
    <3>1. nodes[m] = node[m] /\ timers[m] = timer[m]
      BY <2>2 DEF MachinesInv
    <3>2. node[m].out.data = {} /\ Paced(timer[m])
      BY DEF MachinesInv, NoOut, LiveInv
    <3>3. QED
      BY <3>1, <3>2, OthersOwn
  <2>3. QED
    BY <2>1, <2>2
<1> HIDE DEF nodes, timers
<1>9. \/ /\ budget'.starts = 0
         /\ \A m \in up : up \ {m} \subseteq nodes[m].members /\ Own(nodes[m])
      \/ /\ budget'.sends = 0 /\ data = {}
         /\ \A m \in Machines : nodes[m].queue = <<>> /\ nodes[m].out.data = {}
  <2>1. CASE budget.starts = 0
    BY <1>2, <1>4, <1>8, <2>1
  <2>2. CASE budget.starts # 0
    BY <1>4, <1>8, <2>2 DEF LiveInv
  <2>3. QED
    BY <2>1, <2>2
<1>10. QED
  BY <1>2, <1>4, <1>5, <1>6, <1>8, <1>9, PresenceHeard
\* DATA of another machine is passed on, and has been here.
LEMMA ForwardedOnItsWay ==
  ASSUME NEW members \in SUBSET Nat, NEW n \in members, NEW alive, alive \ {n} \subseteq members,
         NEW d, OnItsWay(d, alive), d.to = n, d.frame.origem # n, d.frame \in Frame,
         NEW e, e.to = Successor(members, n),
         e.frame = IF d.frame.destino = n THEN Answer(d.frame) ELSE d.frame
  PROVE  OnItsWay(e, alive)
<1> DEFINE f == d.frame
<1>1. CASE f.destino = n
  <2>1. Answer(f).controle # CTRL_NONE
    BY DEF Answer, Frame, CTRL_NONE, CTRL_ACK, CTRL_NAK
  <2>2. QED
    BY <1>1, <2>1 DEF OnItsWay
<1>2. CASE f.destino # n
  <2>1. e.frame = f
    BY <1>2
  <2>2. SUFFICES ASSUME f.controle = CTRL_NONE, f.origem \in alive, f.destino \in alive,
                        f.destino # f.origem
                 PROVE  ~Passed(f.origem, e.to, f.destino)
    BY <2>1 DEF OnItsWay
  <2>3. f.origem \in members /\ f.destino \in members
    BY <1>2, <2>2
  <2>4. ~Passed(f.origem, n, f.destino)
    BY <2>2 DEF OnItsWay
  <2>5. Passed(f.origem, Successor(members, n), f.destino)
          <=> Passed(f.origem, n, f.destino) \/ f.destino = n
    <3> DEFINE o == f.origem
               y == f.destino
    <3>1. o \in members /\ y \in members /\ n # o
      BY <2>3
    <3> HIDE DEF o, y
    <3>2. Passed(o, Successor(members, n), y) <=> Passed(o, n, y) \/ y = n
      BY <3>1, PassedOneMore
    <3>3. QED
      BY <3>2 DEF o, y
  <2>6. QED
    BY <1>2, <2>4, <2>5
<1>3. QED
  BY <1>1, <1>2

\* Every machine that is up stays in the tables of the others, when a
\* machine receives DATA ...
LEMMA RxDataHeard ==
  ASSUME MachinesInv, LiveInv, NEW n \in up, RxData(n)
  PROVE  LiveInv'
<1> DEFINE s == node[n]
           t == timer[n]
<1>1. /\ n \in Machines /\ n \in Apelido /\ up \in SUBSET Machines
      /\ MachineInv(s) /\ s \in NodeStates /\ Record(s)
      /\ s.apelido = n /\ s.out.data = {} /\ Clock(t, s)
  BY Running DEF NoOut
<1>2. PICK d \in data : /\ d.to = n /\ Handles(n, OnRxData(s, d.frame), t, 0, {d})
                        /\ UNCHANGED budget
  BY DEF RxData
<1> DEFINE f == d.frame
           r == OnRxData(s, f)
<1>3. f \in Frame /\ OnItsWay(d, up)
  BY DEF MachinesInv, LiveInv
<1>4. budget'.misses = 0 /\ budget'.starts = 0
  BY <1>2 DEF LiveInv
<1>5. DOMAIN t = TimerFields /\ Paced(t) /\ HeardOf(s, t, up)
  BY <1>1 DEF Clock, TimerFields, LiveInv
<1>6. /\ s.members \in SUBSET Nat /\ n \in s.members /\ up \ {n} \subseteq s.members
  BY <1>1, <1>5, MembersAreNaturals DEF MachineInv, RoleInv, HeardOf
<1>7. CASE f.origem # n
  <2> DEFINE g == IF f.destino = n THEN Answer(f) ELSE f
             e == [to |-> Successor(s.members, n), frame |-> g]
  <2>1. Record(r) /\ SameTable(s, r) /\ r.out.data = {e}
    <3> HIDE DEF f
    <3>1. QED
      BY <1>1, <1>7, OnRxDataForwards
  <2> HIDE DEF r
  <2>2. OnItsWay(e, up)
    BY <1>2, <1>3, <1>6, <1>7, ForwardedOnItsWay
  <2>3. HeardOf(r, t, up)
    BY <1>5, <2>1 DEF HeardOf, SameTable
  <2> HIDE DEF e, t
  <2>4. QED
    BY <1>2, <1>4, <1>5, <2>1, <2>2, <2>3, HandlesHeard DEF r, t
<1>8. CASE f.origem = n
  <2> DEFINE gone == IF f.destino # BROADCAST /\ f.controle = CTRL_NONE
                     THEN {f.destino} \cap (s.members \ {s.apelido}) ELSE {}
  <2>1. /\ Rest(s, r) /\ r.out.data = {}
        /\ r.members = s.members \/ r.members = s.members \ gone
        /\ \A m \in Apelido \cap r.members : r.member_last_seen[m] = s.member_last_seen[m]
        /\ r.discovery_deferred = s.discovery_deferred
    <3> HIDE DEF f
    <3>1. QED
      BY <1>1, <1>8, OnRxDataReturns
  <2> HIDE DEF r
  <2>2. gone \cap up = {}
    <3>1. SUFFICES ASSUME f.controle = CTRL_NONE, f.destino \in up, f.destino # n
                   PROVE  FALSE
      BY <1>1
    <3>2. ~Passed(n, n, f.destino)
      BY <1>1, <1>2, <1>3, <1>8, <3>1 DEF OnItsWay
    <3>3. f.destino \in Nat /\ n \in Nat
      BY <1>1, <3>1, TimedMachines, ApelidoAssumption
    <3>4. QED
      BY <3>1, <3>2, <3>3, PassedOthers
  <2>3. HeardOf(r, t, up)
    <3>1. r.apelido = n /\ Record(r)
      BY <1>1, <2>1 DEF Rest
    <3>2. up \ {n} \subseteq r.members /\ up \subseteq Apelido
      BY <1>1, <1>6, <2>1, <2>2, TimedMachines
    <3>3. \A m \in up \ {n} : r.member_last_seen[m] = s.member_last_seen[m]
      BY <2>1, <3>2
    <3>4. QED
      BY <1>1, <1>5, <2>1, <3>1, <3>2, <3>3 DEF HeardOf
  <2> HIDE DEF t
  <2>4. QED
    BY <1>2, <1>4, <1>5, <2>1, <2>3, HandlesHeard DEF r, t, Rest
<1>9. QED
  BY <1>7, <1>8

\* ... when its periodic round comes ...
LEMMA TickHeard ==
  ASSUME MachinesInv, LiveInv, PresenceInterval < MemberTimeout, NEW n \in up, DiscoveryTick(n)
  PROVE  LiveInv'
<1> DEFINE s == node[n]
           t == timer[n]
           recent == s.last_data_activity < DataQuietPeriod
           u == [t EXCEPT !.tick = PresenceInterval]
<1>1. /\ n \in Machines /\ n \in Apelido /\ up \in SUBSET Machines
      /\ MachineInv(s) /\ s \in NodeStates /\ Record(s)
      /\ s.apelido = n /\ Clock(t, s)
  BY Running
<1>2. t.tick = 0
  BY DEF DiscoveryTick
<1>3. PICK expired \in {Overdue(n, MemberTimeout), Overdue(n, MemberTimeout + 1)} :
        LET r == OnDiscoveryTick(s, recent, expired) IN
        IF r.out.presence = {}
        THEN Handles(n, r, u, 0, {}) /\ UNCHANGED <<budget, added>>
        ELSE Discovers(n, r, u, up)
  BY DEF DiscoveryTick
<1> DEFINE r == OnDiscoveryTick(s, recent, expired)
<1>4. recent \in BOOLEAN
  OBVIOUS
<1> HIDE DEF recent
<1>5. /\ PresenceInterval \in Nat /\ MemberTimeout \in Nat
      /\ t.announces \in Nat /\ t.pulse \in Nat
  BY <1>1, TimedDurations DEF Clock
<1>6. Paced(t) /\ HeardOf(s, t, up)
  BY <1>1 DEF LiveInv
<1>7. t.announces = 0
  BY <1>2, <1>5, <1>6 DEF Paced
<1>8. /\ DOMAIN u = TimerFields /\ u.tick = PresenceInterval /\ u.announces = 0
      /\ Clock(u, s)
  BY <1>1, <1>5, <1>7, ClockSet DEF Clock, TimerFields
<1>9. /\ MachineInv(r) /\ Rest(s, r) /\ s.members \ r.members \subseteq expired \ {s.apelido}
      /\ s.discovery_deferred => r.members = s.members
      /\ \/ r.discovery_deferred = TRUE /\ r.members = s.members
         \/ r.out.presence = {} => Apelido \subseteq {s.apelido}
  <2>1. MachineInv(r)
    BY <1>1, <1>4, OnDiscoveryTickKeeps DEF Keeps
  <2> HIDE DEF s, u
  <2>2. Ticked(s, r, expired)
    BY <1>1, OnDiscoveryTickTable
  <2> HIDE DEF r
  <2>3. QED
    BY <2>1, <2>2 DEF Ticked
<1>10. up \ {n} \subseteq r.members
  <2>1. SUFFICES ASSUME NEW m \in up \ {n}, m \notin r.members
                 PROVE  FALSE
    OBVIOUS
  <2>2. m \in s.members
    BY <1>1, <1>6 DEF HeardOf
  <2>3. m \in expired /\ ~s.discovery_deferred
    BY <1>9, <2>1, <2>2
  <2>4. s.member_last_seen[m] + 0 <= PresenceInterval
    BY <1>1, <1>2, <1>6, <1>7, <2>3 DEF HeardOf
  <2>5. s.member_last_seen[m] \in Nat
    BY <1>1, TimedMachines DEF NodeStates
  <2>6. s.member_last_seen[m] >= MemberTimeout
    BY <1>5, <2>3, <2>5 DEF Overdue
  <2>7. QED
    BY <1>5, <2>4, <2>5, <2>6
<1>11. Paced(u)
  BY <1>5, <1>8 DEF Paced
<1>12. \/ r.out.presence = {} /\ Handles(n, r, u, 0, {}) /\ UNCHANGED budget
       \/ Discovers(n, r, u, up)
  BY <1>3
<1> HIDE DEF r, u
<1>13. r.apelido = n /\ Record(r) /\ SendsOwn(s, r) /\ Near(s, r)
  BY <1>1, <1>9, NearFacts DEF Rest
<1>14. CASE Discovers(n, r, u, up)
  BY <1>8, <1>9, <1>10, <1>11, <1>13, <1>14, DiscoversHeard
<1>15. CASE r.out.presence = {} /\ Handles(n, r, u, 0, {}) /\ UNCHANGED budget
  <2>1. r.discovery_deferred = TRUE \/ up \ {n} = {}
    BY <1>1, <1>9, <1>15, TimedMachines
  <2>2. HeardOf(r, u, up)
    BY <1>8, <1>10, <1>13, <2>1 DEF HeardOf
  <2>3. Own(r) /\ (s.queue = <<>> => r.queue = <<>> /\ r.out.data = {})
    BY <1>13, OwnFacts
  <2>4. r.members \in SUBSET Nat /\ n \in r.members
    BY <1>9, <1>13, MembersAreNaturals DEF MachineInv, RoleInv
  <2>5. \A d \in r.out.data : OnItsWay(d, up)
    BY <1>10, <1>13, <2>3, <2>4, OwnOnItsWay DEF Own
  <2>6. /\ budget'.misses = 0
        /\ \/ budget'.starts = 0
           \/ /\ budget'.sends = 0 /\ data = {} /\ \A m \in Machines : node[m].queue = <<>>
              /\ r.queue = <<>> /\ r.out.data = {}
    BY <1>1, <1>15, <2>3 DEF LiveInv
  <2>7. QED
    BY <1>8, <1>11, <1>13, <1>15, <2>2, <2>5, <2>6, HandlesHeard
<1>16. QED
  BY <1>12, <1>14, <1>15
\* ... and when it handles any other event of its own.
LEMMA EventsHeard ==
  ASSUME MachinesInv, LiveInv, PresenceInterval < MemberTimeout, NEW n \in up, Events(n)
  PROVE  LiveInv'
<1> DEFINE s == node[n]
           t == timer[n]
<1>1. /\ n \in Machines /\ MachineInv(s) /\ Record(s) /\ s.apelido = n
      /\ Clock(t, s) /\ DOMAIN t = TimerFields /\ Paced(t) /\ HeardOf(s, t, up)
  BY Running DEF Clock, TimerFields, LiveInv
<1>2. ASSUME NEW r, Calm(s, r), NEW u, DOMAIN u = TimerFields,
             u.tick = t.tick, u.announces = t.announces, u.pulse = t.pulse,
             NEW eaten, NEW read, Handles(n, r, u, eaten, read), UNCHANGED budget
      PROVE  LiveInv'
  BY <1>2, CalmHeard DEF Calm
<1>3. CASE RxToken(n)
  <2> DEFINE soon == s.last_token_rx < MinTokenInterval
             r == OnRxToken(s, soon, FALSE)
  <2>1. Handles(n, r, t, 1, {}) /\ UNCHANGED budget
    BY <1>3 DEF RxToken
  <2> HIDE DEF soon
  <2>2. Record(r) /\ SameTable(s, r) /\ SendsOwn(s, r)
    BY <1>1, OnRxTokenTable
  <2> HIDE DEF r
  <2>3. QED
    BY <1>1, <2>1, <2>2, CalmHeard
<1>4. CASE RxData(n)
  BY <1>4, RxDataHeard
<1>5. CASE TimerForwardToken(n)
  <2>1. PICK ep \in 0 .. MaxEpoch :
          Handles(n, OnTimerForwardToken(s, ep, FALSE), t, 0, {}) /\ UNCHANGED budget
    BY <1>5 DEF TimerForwardToken
  <2> DEFINE r == OnTimerForwardToken(s, ep, FALSE)
  <2>2. Record(r) /\ SameTable(s, r) /\ SendsOwn(s, r)
    BY <1>1, OnTimerForwardTokenTable
  <2>3. Handles(n, r, t, 0, {}) /\ UNCHANGED budget
    BY <2>1
  <2> HIDE DEF r
  <2>4. QED
    BY <1>1, <2>2, <2>3, CalmHeard
<1>6. CASE TimerDataReturnTimeout(n)
  <2>1. PICK attempt :
          Handles(n, OnTimerDataReturnTimeout(s, attempt), t, 0, {}) /\ UNCHANGED budget
    BY <1>6 DEF TimerDataReturnTimeout
  <2>2. Calm(s, OnTimerDataReturnTimeout(s, attempt))
    BY <1>1, OnTimerDataReturnTimeoutTable
  <2>3. QED
    BY <1>1, <1>2, <2>1, <2>2
<1>7. CASE MonitorThread(n)
  <2>1. Handles(n, MonitorFires(s), t, 0, {}) /\ UNCHANGED budget
    BY <1>7 DEF MonitorThread
  <2>2. Calm(s, MonitorFires(s))
    BY <1>1, OtherEventsTable
  <2>3. QED
    BY <1>1, <1>2, <2>1, <2>2
<1>8. CASE MonTokenTimeout(n)
  <2>1. Handles(n, OnMonTokenTimeout(s), t, 0, {}) /\ UNCHANGED budget
    BY <1>8 DEF MonTokenTimeout
  <2>2. Calm(s, OnMonTokenTimeout(s))
    BY <1>1, OtherEventsTable
  <2>3. QED
    BY <1>1, <1>2, <2>1, <2>2
<1>9. CASE EvalTimer(n)
  <2> DEFINE u == [t EXCEPT !.eval = Off]
  <2>1. Handles(n, EvalTimerFires(s), u, 0, {}) /\ UNCHANGED budget
    BY <1>9 DEF EvalTimer
  <2>2. Calm(s, EvalTimerFires(s))
    BY <1>1, OtherEventsTable
  <2>3. DOMAIN u = TimerFields /\ u.tick = t.tick /\ u.announces = t.announces /\ u.pulse = t.pulse
    BY <1>1 DEF TimerFields
  <2> HIDE DEF u
  <2>4. QED
    BY <1>2, <2>1, <2>2, <2>3
<1>10. CASE EvalFirstToken(n)
  <2>1. Handles(n, OnEvalFirstToken(s), t, 0, {}) /\ UNCHANGED budget
    BY <1>10 DEF EvalFirstToken
  <2>2. Calm(s, OnEvalFirstToken(s))
    BY <1>1, OtherEventsTable
  <2>3. QED
    BY <1>1, <1>2, <2>1, <2>2
<1>11. CASE DiscoveryTick(n)
  BY <1>11, TickHeard
<1>12. CASE AnnounceAgain(n)
  <2> DEFINE announces == t.announces - 1
             u == [t EXCEPT !.announces = announces, !.pulse = 1]
  <2>1. t.announces > 0 /\ t.pulse = 0 /\ Discovers(n, s, u, up)
    BY <1>12 DEF AnnounceAgain
  <2>2. /\ t.announces \in Nat /\ t.tick \in Nat
        /\ PresenceInterval \in Nat \ {0}
    BY <1>1, TimedDurations DEF Clock
  <2>3. announces \in Nat
    BY <2>1, <2>2
  <2>4. t.tick = t.announces
    BY <1>1, <2>1, <2>2 DEF Paced
  <2>5. Clock(u, s)
    BY <1>1, <2>3, ClockSet
  <2>6. u.tick = t.tick /\ u.announces = t.announces - 1 /\ u.pulse = 1
    BY <1>1 DEF TimerFields
  <2> HIDE DEF u, announces
  <2>7. Paced(u)
    BY <2>2, <2>4, <2>6 DEF Paced
  <2>8. Near(s, s) /\ SendsOwn(s, s) /\ up \ {n} \subseteq s.members
    BY <1>1, NearFacts DEF SendsOwn, HeardOf
  <2>9. QED
    BY <1>1, <2>1, <2>5, <2>7, <2>8, DiscoversHeard
<1>13. QED
  BY <1>3, <1>4, <1>5, <1>6, <1>7, <1>8, <1>9, <1>10, <1>11, <1>12 DEF Events

\* So it is when users act, when machines start and when they leave.
LEMMA UsersHeard ==
  ASSUME MachinesInv, LiveInv, NEW n \in Machines, Users(n)
  PROVE  LiveInv'
<1> DEFINE s == node[n]
           t == timer[n]
<1>1. up \in SUBSET Machines /\ budget \in Budgets /\ n \in Apelido /\ budget.misses = 0
  BY TimedMachines DEF MachinesInv, LiveInv
<1>2. ASSUME n \in up
      PROVE  /\ MachineInv(s) /\ s \in NodeStates /\ Record(s) /\ s.apelido = n
             /\ s.out.data = {} /\ DOMAIN t = TimerFields
             /\ Paced(t) /\ HeardOf(s, t, up)
  BY <1>2, Running DEF Clock, TimerFields, LiveInv, NoOut
<1>3. CASE Start(n)
  <2> DEFINE nodes == [node EXCEPT ![n] = Fresh(n)]
             alive == up \cup {n}
  <2>1. PICK deaf \in SUBSET up :
          /\ Cardinality(deaf) <= budget.misses
          /\ Settle(Presence(nodes, alive, n, deaf), timer, alive, n, 0, {})
          /\ budget' = [budget EXCEPT !.starts = @ - 1, !.misses = @ - Cardinality(deaf)]
    BY <1>3 DEF Start
  <2>2. n \notin up /\ budget.starts > 0
    BY <1>3 DEF Start
  <2>3. deaf = {} /\ Cardinality(deaf) = 0
    <3>1. IsFiniteSet(deaf)
      BY <1>1, <2>1, ApelidoAssumption, TimedMachines, FS_Subset
    <3>2. Cardinality(deaf) \in Nat
      BY <3>1, FS_CardinalityType
    <3>3. QED
      BY <1>1, <2>1, <3>1, <3>2, FS_EmptySet
  <2>4. budget'.misses = 0 /\ budget'.sends = budget.sends
    BY <1>1, <2>1, <2>3 DEF Budgets
  <2>5. Settle(Presence(nodes, alive, n, {}), timer, alive, n, 0, {})
    BY <2>1, <2>3
  <2>6. budget.sends = 0 /\ data = {} /\ \A m \in Machines : node[m].queue = <<>>
    BY <2>2 DEF LiveInv
  <2>7. ASSUME NEW m \in Machines
        PROVE  /\ MachineInv(nodes[m]) /\ nodes[m].apelido = m
               /\ \E u : Clock(timer[m], u) /\ Near(u, nodes[m])
               /\ m \notin alive => nodes[m] = node[m] /\ Cleared(nodes[m]) = Stopped(m)
               /\ nodes[m].queue = <<>> /\ nodes[m].out.data = {}
               /\ Paced(timer[m])
    <3>1. /\ MachineInv(node[m]) /\ node[m].apelido = m /\ Clock(timer[m], node[m])
          /\ m \notin up => node[m] = Stopped(m)
          /\ Near(node[m], node[m])
          /\ node[m].out.data = {} /\ Paced(timer[m])
      BY NearFacts DEF MachinesInv, NoOut, LiveInv
    <3>2. CASE m = n
      <4>1. nodes[m] = Fresh(n) /\ node[m] = Stopped(n)
        BY <2>2, <3>1, <3>2 DEF MachinesInv
      <4>2. /\ MachineInv(Fresh(n)) /\ MachineInv(Stopped(n)) /\ Fresh(n).apelido = n
            /\ Fresh(n).forward_timers = Stopped(n).forward_timers
            /\ Fresh(n).queue = <<>> /\ Fresh(n).out.data = {}
        BY FreshFacts
      <4>3. Near(Stopped(n), Fresh(n))
        BY <4>2, NearFacts
      <4>4. QED
        BY <3>1, <3>2, <4>1, <4>2, <4>3
    <3>3. CASE m # n
      <4>1. nodes[m] = node[m] /\ Cleared(Stopped(m)) = Stopped(m)
        BY <3>3, FreshFacts DEF MachinesInv
      <4>2. QED
        BY <2>6, <3>1, <4>1
    <3>4. QED
      BY <3>2, <3>3
  <2> HIDE DEF nodes
  <2>8. alive \in SUBSET Machines /\ n \in alive
    BY <1>1
  <2> HIDE DEF alive
  <2>9. Ready(nodes, timer, alive)
    BY <2>7 DEF Ready
  <2>10. QED
    BY <2>4, <2>5, <2>6, <2>7, <2>8, <2>9, PresenceHeard
<1>4. CASE Leave(n)
  <2> DEFINE nodes == [node EXCEPT ![n] = Stopped(n)]
             timers == [timer EXCEPT ![n] = StartedTimers]
             alive == up \ {n}
  <2>1. /\ Settle(nodes, timers, alive, n, 0, {})
        /\ budget' = [budget EXCEPT !.leaves = @ - 1]
    BY <1>4 DEF Leave
  <2>2. budget'.misses = 0 /\ budget'.starts = budget.starts /\ budget'.sends = budget.sends
    BY <1>1, <2>1 DEF Budgets
  <2>3. ASSUME NEW m \in Machines
        PROVE  /\ Record(nodes[m]) /\ DOMAIN timers[m] = TimerFields /\ Paced(timers[m])
               /\ nodes[m].out.data = {} /\ (node[m].queue = <<>> => nodes[m].queue = <<>>)
               /\ m \in alive => HeardOf(nodes[m], timers[m], alive)
    <3>1. CASE m = n
      <4>1. nodes[m] = Stopped(n) /\ timers[m] = StartedTimers
        BY <3>1 DEF MachinesInv
      <4>2. /\ Stopped(n) \in NodeStates /\ Stopped(n).queue = <<>> /\ Stopped(n).out.data = {}
            /\ Clock(StartedTimers, Stopped(n))
        BY FreshFacts DEF MachineInv
      <4>3. Paced(StartedTimers)
        BY TimedDurations DEF Paced, StartedTimers
      <4>4. QED
        BY <3>1, <4>1, <4>2, <4>3, RecordOf DEF Clock, TimerFields
    <3>2. CASE m # n
      <4>1. nodes[m] = node[m] /\ timers[m] = timer[m]
        BY <3>2 DEF MachinesInv
      <4>2. /\ node[m] \in NodeStates /\ node[m].out.data = {} /\ Clock(timer[m], node[m])
            /\ Paced(timer[m])
            /\ m \in up => HeardOf(node[m], timer[m], up)
        BY DEF MachinesInv, MachineInv, NoOut, LiveInv
      <4>3. QED
        BY <4>1, <4>2, RecordOf DEF HeardOf, Clock, TimerFields
    <3>3. QED
      BY <3>1, <3>2
  <2> HIDE DEF nodes, timers
  <2>4. alive \in SUBSET Machines /\ alive \subseteq up
    BY <1>1
  <2> HIDE DEF alive
  <2>5. AllHeard(nodes, timers, alive, budget')
    BY <2>2, <2>3, <2>4 DEF AllHeard, LiveInv
  <2>6. QED
    BY <2>1, <2>4, <2>5, SettleHeard
<1>5. CASE CmdSend(n)
  <2>1. PICK destino \in Destinos \ {n}, text \in Text :
          Handles(n, OnCmdSend(s, destino, text, budget.sends), t, 0, {})
    BY <1>5 DEF CmdSend
  <2> DEFINE r == OnCmdSend(s, destino, text, budget.sends)
  <2>2. /\ n \in up /\ budget.sends > 0
        /\ budget'.misses = 0 /\ budget'.starts = budget.starts
    BY <1>1, <1>5 DEF CmdSend, Budgets
  <2>3. Record(r) /\ SameTable(s, r) /\ r.out.data = {}
    BY <1>2, <2>2, OnCmdSendTable
  <2>4. Handles(n, r, t, 0, {})
    BY <2>1
  <2> HIDE DEF r
  <2>5. HeardOf(r, t, up) /\ budget'.starts = 0
    BY <1>2, <2>2, <2>3 DEF HeardOf, SameTable, LiveInv
  <2> HIDE DEF s, t
  <2>6. QED
    BY <1>2, <2>2, <2>3, <2>4, <2>5, HandlesHeard
<1>6. CASE CmdAddToken(n)
  <2>1. /\ n \in up /\ Handles(n, OnCmdAddToken(s), t, 0, {})
        /\ budget' = [budget EXCEPT !.injects = @ - 1]
    BY <1>6 DEF CmdAddToken
  <2>2. budget'.misses = 0 /\ budget'.starts = budget.starts /\ budget'.sends = budget.sends
    BY <1>1, <2>1 DEF Budgets
  <2> DEFINE r == OnCmdAddToken(s)
  <2>3. Record(r) /\ SameTable(s, r) /\ SendsOwn(s, r) /\ r.apelido = n
    BY <1>2, <2>1, OtherEventsTable DEF Calm, SameTable
  <2>4. Handles(n, r, t, 0, {})
    BY <2>1
  <2> HIDE DEF r
  <2>5. Own(r) /\ (s.queue = <<>> => r.queue = <<>> /\ r.out.data = {})
    BY <2>1, <2>3, OwnFacts
  <2>6. /\ HeardOf(r, t, up) /\ r.members \in SUBSET Nat /\ n \in r.members
        /\ up \ {n} \subseteq r.members
    BY <1>2, <2>1, <2>3, MembersAreNaturals DEF HeardOf, SameTable, MachineInv, RoleInv
  <2>7. \A d \in r.out.data : OnItsWay(d, up)
    BY <2>3, <2>5, <2>6, OwnOnItsWay DEF Own
  <2>8. \/ budget'.starts = 0
        \/ /\ budget'.sends = 0 /\ data = {} /\ \A m \in Machines : node[m].queue = <<>>
           /\ r.queue = <<>> /\ r.out.data = {}
    BY <2>2, <2>5 DEF LiveInv
  <2>9. QED
    BY <1>2, <2>1, <2>2, <2>3, <2>4, <2>6, <2>7, <2>8, HandlesHeard
<1>7. CASE CmdJoin(n)
  <2>1. /\ n \in up /\ Settle(Presence(node, up, n, {}), timer, up, n, 0, {})
        /\ budget' = [budget EXCEPT !.joins = @ - 1]
    BY <1>7 DEF CmdJoin
  <2>2. budget'.misses = 0 /\ budget'.starts = budget.starts /\ budget'.sends = budget.sends
    BY <1>1, <2>1 DEF Budgets
  <2>3. Ready(node, timer, up)
    <3>1. ASSUME NEW m \in Machines
          PROVE  /\ MachineInv(node[m]) /\ node[m].apelido = m
                 /\ \E u : Clock(timer[m], u) /\ Near(u, node[m])
                 /\ m \notin up => Cleared(node[m]) = Stopped(m)
      BY NearFacts, FreshFacts DEF MachinesInv
    <3>2. QED
      BY <3>1 DEF Ready
  <2>4. \A m \in Machines : Paced(timer[m]) /\ node[m].out.data = {}
    BY DEF LiveInv, MachinesInv, NoOut
  <2>5. \A m \in up : up \ {m} \subseteq node[m].members /\ Own(node[m])
    BY OthersOwn
  <2>6. \/ budget'.starts = 0
        \/ /\ budget'.sends = 0 /\ data = {}
           /\ \A m \in Machines : node[m].queue = <<>> /\ node[m].out.data = {}
    BY <2>2, <2>4 DEF LiveInv
  <2>7. QED
    BY <1>1, <2>1, <2>2, <2>3, <2>4, <2>5, <2>6, PresenceHeard
<1>8. QED
  BY <1>3, <1>4, <1>5, <1>6, <1>7 DEF Users
\* Time passes only when nothing is due, so nobody's next round is missed.
LEMMA PassHeard ==
  ASSUME MachinesInv, LiveInv, Pass
  PROVE  LiveInv'
<1>1. UNCHANGED <<up, data, budget>> /\ up \in SUBSET Machines
  BY DEF Pass, MachinesInv
<1>2. ASSUME NEW n \in Machines
      PROVE  /\ node'[n].queue = node[n].queue
             /\ Paced(timer'[n])
             /\ n \in up => HeardOf(node'[n], timer'[n], up)
  <2> DEFINE s == node[n]
             t == timer[n]
  <2>1. /\ MachineInv(s) /\ s \in NodeStates /\ s.apelido = n /\ Clock(t, s) /\ Paced(t)
        /\ n \in up => HeardOf(s, t, up)
    BY DEF MachinesInv, MachineInv, LiveInv
  <2>2. CASE n \notin up
    <3>1. node'[n] = s /\ timer'[n] = t
      BY <2>2 DEF Pass
    <3>2. QED
      BY <2>1, <2>2, <3>1
  <2>3. CASE n \in up
    <3>1. node'[n] = Older(s) /\ timer'[n] = Sooner(t) /\ ~Due(n)
      BY <2>3 DEF Pass
    <3> DEFINE r == Older(s)
               u == Sooner(t)
    <3>2. /\ Quiet(s, r) /\ r \in NodeStates
          /\ r.discovery_deferred = s.discovery_deferred
          /\ \A m \in Apelido : r.member_last_seen[m] <= s.member_last_seen[m] + 1
      BY <2>1, OlderFacts DEF MachineInv
    <3>3. u.tick = Down(t.tick) /\ u.announces = t.announces /\ u.pulse = Down(t.pulse)
      BY <2>1, SoonerFacts
    <3>4. t.tick # 0 /\ (t.announces > 0 => t.pulse # 0)
      BY <3>1 DEF Due
    <3>5. /\ t.tick \in Nat /\ t.announces \in Nat /\ t.pulse \in Nat
          /\ PresenceInterval \in Nat
      BY <2>1, TimedDurations DEF Clock
    <3> HIDE DEF r, u
    <3>6. /\ u.tick = t.tick - 1
          /\ t.announces > 0 => t.pulse = 1 /\ u.pulse = 0
      BY <2>1, <3>3, <3>4, <3>5 DEF Down, Paced
    <3>7. Paced(u)
      BY <2>1, <3>3, <3>4, <3>5, <3>6 DEF Paced
    <3>8. ASSUME NEW m \in up \ {n}
          PROVE  /\ m \in r.members
                 /\ u.announces > 0 => r.member_last_seen[m] + u.pulse <= 1
                 /\ u.announces = 0 /\ ~r.discovery_deferred =>
                      r.member_last_seen[m] + u.tick <= PresenceInterval
      <4> DEFINE before == s.member_last_seen[m]
                 now == r.member_last_seen[m]
      <4>1. m \in Apelido
        BY <1>1, TimedMachines
      <4>2. before \in Nat /\ now \in Nat /\ now <= before + 1
        BY <2>1, <3>2, <4>1 DEF NodeStates
      <4>3. /\ m \in s.members
            /\ t.announces > 0 => before + t.pulse <= 1
            /\ t.announces = 0 /\ ~s.discovery_deferred => before + t.tick <= PresenceInterval
        BY <2>1, <2>3 DEF HeardOf
      <4> HIDE DEF before, now
      <4>4. /\ u.announces > 0 => now + u.pulse <= 1
            /\ u.announces = 0 /\ ~r.discovery_deferred => now + u.tick <= PresenceInterval
        BY <3>2, <3>3, <3>4, <3>5, <3>6, <4>2, <4>3
      <4>5. m \in r.members
        BY <3>2, <4>3 DEF Quiet, SameRole
      <4>6. QED
        BY <4>4, <4>5 DEF now
    <3>9. r.apelido = n /\ r.queue = s.queue
      BY <2>1, <3>2 DEF Quiet, SameRole
    <3>10. HeardOf(r, u, up)
      BY <3>8, <3>9 DEF HeardOf
    <3>11. QED
      BY <3>1, <3>7, <3>9, <3>10 DEF r, u
  <2>4. QED
    BY <2>2, <2>3
<1>3. QED
  BY <1>1, <1>2 DEF LiveInv

\* Machines that start together know each other.
LEMMA InitHeard ==
  ASSUME SteadyRing, Init
  PROVE  LiveInv
<1>1. /\ budget \in Scenarios /\ up = budget.boot /\ data = {} /\ up \in SUBSET Machines
      /\ budget.misses = 0 /\ (budget.starts = 0 \/ budget.sends = 0)
  BY TimedScenarios DEF Init, SteadyRing
<1> DEFINE started == [StartedTimers EXCEPT !.eval = DiscoveryWindow]
<1>2. \A t \in {StartedTimers, started} :
        Paced(t) /\ (t.announces > 0 => t.pulse = 1) /\ t.pulse \in Nat
  BY TimedDurations DEF Paced, StartedTimers
<1>3. ASSUME NEW n \in Machines
      PROVE  /\ node[n].queue = <<>> /\ Paced(timer[n])
             /\ n \in up => HeardOf(node[n], timer[n], up)
  <2>1. CASE n \notin up
    <3>1. node[n] = Stopped(n) /\ timer[n] = StartedTimers
      BY <1>1, <2>1 DEF Init
    <3>2. Stopped(n).queue = <<>>
      BY FreshFacts
    <3>3. QED
      BY <1>2, <2>1, <3>1, <3>2
  <2>2. CASE n \in up
    <3> DEFINE b == Booted(n, up)
    <3>1. node[n] = b /\ timer[n] = started
      BY <1>1, <2>2 DEF Init
    <3>2. /\ b.apelido = n /\ b.members = up /\ b.queue = <<>>
          /\ \A m \in Apelido : b.member_last_seen[m] = 0
      BY <1>1, <2>2, BootedFacts
    <3> HIDE DEF b
    <3>3. /\ Paced(started) /\ (started.announces > 0 => started.pulse = 1)
          /\ started.tick \in Nat
      BY <1>2, TimedDurations DEF StartedTimers
    <3> HIDE DEF started
    <3>4. HeardOf(b, started, up)
      BY <1>1, <3>2, <3>3, TimedMachines DEF HeardOf, Paced
    <3>5. QED
      BY <2>2, <3>1, <3>2, <3>3, <3>4
  <2>3. QED
    BY <2>1, <2>2
<1>4. QED
  BY <1>1, <1>3 DEF LiveInv

LEMMA NextHeard ==
  ASSUME SteadyRing, MachinesInv, LiveInv, [Next]_vars
  PROVE  LiveInv'
<1>1. CASE Pass
  BY <1>1, PassHeard
<1>2. CASE \E n \in up : Events(n)
  BY <1>2, EventsHeard DEF SteadyRing
<1>3. CASE \E n \in Machines : Users(n)
  BY <1>3, UsersHeard
<1>4. CASE UNCHANGED vars
  BY <1>4 DEF vars, LiveInv
<1>5. QED
  BY <1>1, <1>2, <1>3, <1>4 DEF Next, System

\* A machine is not up any more only because it has left.
LEMMA WhoIsGone ==
  ASSUME MachinesInv, [Next]_vars, NEW m \in up, m \notin up'
  PROVE  Leave(m)
<1>1. ASSUME NEW n \in up, Events(n)
      PROVE  up' = up
  BY <1>1 DEF Events, RxToken, RxData, TimerForwardToken, TimerDataReturnTimeout, MonitorThread,
              MonTokenTimeout, EvalTimer, EvalFirstToken, DiscoveryTick, AnnounceAgain,
              Handles, Discovers, Settle
<1>2. ASSUME NEW n \in Machines, Users(n)
      PROVE  \/ up \subseteq up'
             \/ Leave(n) /\ up' = up \ {n}
  BY <1>2 DEF Users, Start, Leave, CmdSend, CmdAddToken, CmdJoin, Handles, Settle
<1>3. ~Pass /\ ~UNCHANGED vars
  BY DEF Pass, vars
<1>4. QED
  BY <1>1, <1>2, <1>3 DEF Next, System

\* Whoever is up stays a member: the machines that are up are members of
\* each other after every step, and a departure removes nobody from a table.
\* A round that comes when it is due finds nobody old who is up.
LEMMA RoundKeeps ==
  ASSUME MachinesInv, LiveInv, PresenceInterval < MemberTimeout, NEW n \in up,
         timer[n].tick = 0, NEW m \in up, m \in node[n].members
  PROVE  m \in Kept(n)
<1> DEFINE s == node[n]
           t == timer[n]
           recent == s.last_data_activity < DataQuietPeriod
           expired == Overdue(n, MemberTimeout)
<1>1. /\ n \in Machines /\ n \in Apelido /\ up \in SUBSET Machines
      /\ MachineInv(s) /\ s \in NodeStates /\ Record(s)
      /\ s.apelido = n /\ Clock(t, s)
  BY Running
<1>2. /\ PresenceInterval \in Nat /\ MemberTimeout \in Nat
      /\ t.announces \in Nat /\ t.pulse \in Nat
  BY <1>1, TimedDurations DEF Clock
<1>3. Paced(t) /\ HeardOf(s, t, up)
  BY <1>1 DEF LiveInv
<1>4. t.announces = 0
  BY <1>2, <1>3 DEF Paced
<1> DEFINE r == OnDiscoveryTick(s, recent, expired)
<1> HIDE DEF recent, expired
<1>5. Ticked(s, r, expired)
  BY <1>1, OnDiscoveryTickTable
<1>6. Kept(n) = r.members
  BY DEF Kept, recent, expired
<1> HIDE DEF r
<1>7. CASE m \in r.members
  BY <1>6, <1>7
<1>8. CASE m \notin r.members
  <2>1. m \in expired /\ m # n /\ ~s.discovery_deferred
    BY <1>1, <1>5, <1>8 DEF Ticked
  <2>2. s.member_last_seen[m] + 0 <= PresenceInterval
    BY <1>1, <1>3, <1>4, <2>1 DEF HeardOf
  <2>3. s.member_last_seen[m] \in Nat
    BY <1>1, TimedMachines DEF NodeStates
  <2>4. s.member_last_seen[m] >= MemberTimeout
    BY <2>1 DEF Overdue, expired
  <2>5. QED
    BY <1>2, <2>2, <2>3, <2>4
<1>9. QED
  BY <1>7, <1>8

LEMMA StepLiveStay ==
  ASSUME SteadyRing, MachinesInv, LiveInv, [Next]_vars,
         NEW n \in up, NEW m \in up, n \in up', m \in node[n].members
  PROVE  m \in node'[n].members /\ (timer[n].tick = 0 => m \in Kept(n))
<1>1. MachinesInv' /\ LiveInv'
  BY NextMachines, NextHeard
<1>2. n \in Machines /\ MachineInv(node'[n]) /\ node'[n].apelido = n
  BY <1>1, Running DEF MachinesInv
<1>3. timer[n].tick = 0 => m \in Kept(n)
  BY RoundKeeps DEF SteadyRing
<1>4. CASE m \in up'
  <2>1. CASE m = n
    BY <1>2, <1>3, <2>1 DEF MachineInv, RoleInv
  <2>2. CASE m # n
    <3>1. HeardOf(node'[n], timer'[n], up')
      BY <1>1 DEF LiveInv
    <3>2. QED
      BY <1>2, <1>3, <1>4, <2>2, <3>1 DEF HeardOf
  <2>3. QED
    BY <2>1, <2>2
<1>5. CASE m \notin up'
  <2>1. Leave(m)
    BY <1>5, WhoIsGone
  <2>2. n # m
    BY <1>5
  <2>3. node'[n] = Cleared(node[n])
    BY <1>2, <2>1, <2>2 DEF Leave, Settle, Cleared, MachinesInv
  <2>4. SameTable(node[n], node'[n])
    BY <2>3, Running, ClearedFacts
  <2>5. QED
    BY <1>3, <2>4 DEF SameTable
<1>6. QED
  BY <1>3, <1>4, <1>5

\* In a steady ring of any machines, with any durations as long as
\* presence_interval is below member_timeout, whoever leaves and whatever
\* messages go round, nobody removes a machine that is up.
THEOREM TimedLiveStay ==
  ASSUME SteadyRing
  PROVE  Spec => LiveStay
<1> DEFINE Inv == MachinesInv /\ LiveInv
           Step == \A n, m \in up :
                     n \in up' /\ m \in node[n].members =>
                       m \in node'[n].members /\ (timer[n].tick = 0 => m \in Kept(n))
<1>1. Init => Inv
  BY InitMachines, InitHeard
<1>2. Inv /\ [Next]_vars => Inv'
  BY NextMachines, NextHeard
<1>3. Inv /\ [Next]_vars => [Step]_vars
  BY StepLiveStay
<1>4. QED
  BY <1>1, <1>2, <1>3, PTL DEF Spec, LiveStay
=============================================================================
