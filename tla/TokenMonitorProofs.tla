------------------------- MODULE TokenMonitorProofs -------------------------
(***************************************************************************)
(* Proofs about TokenMonitor: the types; that two timeouts are never       *)
(* pending; and that no token is counted lost but by a controller, and     *)
(* none while there is one.                                                *)
(*                                                                         *)
(* What a state must satisfy depends on where the engine is in a handler,  *)
(* that is, on the statements it has left.  The invariants therefore speak *)
(* of groups of lists of statements.                                       *)
(***************************************************************************)
EXTENDS TokenMonitor, TLAPS, SequenceTheorems, FiniteSetTheorems

\* A thread is not delayed for longer than the timeout.
LagFits == MaxLag <= TokenTimeout

\* The timeout is longer than what keeps a token from being seen: a round and
\* a thread that is late, or the time a token is held with a thread that is
\* late at either end.
TimeoutFits ==
  /\ MaxRound + MaxLag <= TokenTimeout
  /\ TokenTime + MaxLag + MaxLag <= TokenTimeout

-----------------------------------------------------------------------------
\* What may be left of a handler

\* _forward_token after `give', and after the pause is refreshed
Passing2 == <<"refresh", "send_token", "note">>
Passing3 == <<"send_token", "note">>
LastNote == <<"note">>

\* The end of a DATA round for a return, for a return that is kept, for a
\* timeout, and _complete_data_round
Ending1 == <<"drop", "unwait", "refresh", "give", "refresh", "send_token", "note">>
Returned == <<"note", "drop", "unwait", "refresh", "give", "refresh", "send_token", "note">>
Kept1 == <<"keep", "unwait", "refresh", "give", "refresh", "send_token", "note">>
KeptReturned == <<"note", "keep", "unwait", "refresh", "give", "refresh", "send_token", "note">>
Ending2 == <<"unwait", "refresh", "give", "refresh", "send_token", "note">>
Ending3 == <<"refresh", "give", "refresh", "send_token", "note">>

\* _on_mon_token_timeout
Counting == <<"count", "enable", "give", "refresh", "send_token", "note">>

\* _send_data_packet on the way
Sending2 == <<"refresh", "start_return_timer", "send_data", "note">>
Sending3 == <<"start_return_timer", "send_data", "note">>
Sending4 == <<"send_data", "note">>

\* _on_rx_token, for a machine that transmits and for one that holds
Receiving1 ==
  <<"note", "take", "refresh", "wait", "refresh", "start_return_timer", "send_data", "note">>
Receiving2 == <<"take", "refresh", "wait", "refresh", "start_return_timer", "send_data", "note">>
Receiving3 == <<"refresh", "wait", "refresh", "start_return_timer", "send_data", "note">>
Holding1 == <<"note", "take", "refresh", "start_forward_timer">>
Holding2 == <<"take", "refresh", "start_forward_timer">>
Holding3 == <<"refresh", "start_forward_timer">>
Holding4 == <<"start_forward_timer">>

\* _on_rx_token, for a second token that is passed on
Relay1 == <<"note", "send_token">>
Relay2 == <<"send_token">>

\* The other handlers
Queueing == <<"enqueue">>
Demoted1 == <<"lose_control", "disable">>
Demoted2 == <<"disable">>
Promoted1 == <<"gain_control", "note", "enable">>
Promoted2 == <<"note", "enable">>
Promoted3 == <<"enable">>

\* The machine is as it is between handlers; or it is sending DATA, taking
\* the token, has taken it, is ending a DATA round, releases the token, or
\* passes on a second one.
RestLists == {<<>>, LastNote, Queueing, Demoted1, Demoted2, Promoted1, Promoted2, Promoted3}
SendLists == {SendDataPacket, Sending2, Sending3, Sending4}
TakeLists == {Receiving1, Receiving2, Holding1, Holding2}
TakenLists == {Receiving3, Holding3, Holding4}
EndLists == {Returned, KeptReturned, Ending1, Kept1, Ending2}
PassLists == {GenerateToken, Ending3, ForwardToken, Passing2, Passing3}
RelayLists == {Relay1, Relay2}
Lists ==
  RestLists \cup SendLists \cup TakeLists \cup TakenLists \cup EndLists \cup PassLists
    \cup RelayLists \cup {Counting}

\* Where the engine is, by what it has left.
Place(q) ==
  IF q \in RestLists THEN IF q = LastNote THEN "noting" ELSE "resting"
  ELSE IF q \in SendLists THEN IF q = SendDataPacket THEN "sending" ELSE "waiting"
  ELSE IF q \in TakeLists THEN "taking"
  ELSE IF q \in TakenLists THEN IF q = Holding4 THEN "holding" ELSE "taken"
  ELSE IF q \in EndLists THEN "ending"
  ELSE IF q \in PassLists
       THEN IF q = Passing2 THEN "given" ELSE IF q = Passing3 THEN "watching" ELSE "passing"
  ELSE IF q \in RelayLists THEN "relaying"
  ELSE "counting"

-----------------------------------------------------------------------------
\* The invariants

RxEvents == {"RX_TOKEN", "RX_DATA"}
Events ==
  RxEvents \cup {"TIMER_FORWARD_TOKEN", "TIMER_DATA_RETURN_TIMEOUT", "MON_TOKEN_TIMEOUT",
                 "CMD_SEND", "RX_HELLO", "DISCOVERY_TICK"}

\* An event has been posted; it has been posted once at most.
Has(b, event) == \E i \in DOMAIN b : b[i] = event
Once(b, event) == \A i, j \in DOMAIN b : b[i] = event /\ b[j] = event => i = j

Types ==
  /\ machine \in [has_token : BOOLEAN, waiting : BOOLEAN, queue : Nat, retransmit_used : BOOLEAN,
                  is_controller : BOOLEAN, tokens_perdidos : Nat]
  /\ monitor \in [silence : Nat, paused : BOOLEAN, enabled : BOOLEAN]
  /\ thread \in [at : {"sleep", "awake", "fire"}, nap : Nat, since : Nat]
  /\ todo \in Lists
  /\ bus \in Seq(Events)
  /\ rx \in RxEvents \cup {Nothing}
  /\ timer \in [forward : {Off} \cup 0 .. TokenTime, return : {Off} \cup 0 .. TokenTimeout]
  /\ ring \in [tokens : Seq(0 .. MaxRound), data : {Off} \cup 0 .. MaxRound]
  /\ lag \in 0 .. MaxLag
  /\ budget \in [sends : Nat, tokens : Nat, data : 0 .. MaxLoseData, roles : Nat]

\* Who holds what, and the pause, as far as the handler has come.
ControlInv ==
  /\ machine.waiting => machine.has_token
  /\ Place(todo) \in {"resting", "noting", "sending", "waiting", "holding", "ending", "watching",
                     "relaying"}
       => monitor.paused = machine.has_token
  /\ Place(todo) \in {"sending", "waiting", "taken", "holding", "ending", "relaying"}
       => machine.has_token
  /\ Place(todo) \in {"given", "watching"} => ~machine.has_token
  /\ Place(todo) = "waiting" => machine.waiting
  /\ Place(todo) = "counting" => machine.is_controller
  /\ Place(todo) \in {"taking", "taken", "holding", "passing", "given", "watching", "counting"}
       => ~machine.waiting

MonitorInv == Types /\ ControlInv

\* A timeout has been declared and not handled.
Pending == thread.at = "fire" \/ Has(bus, "MON_TOKEN_TIMEOUT")

\* The window restarts when a timeout is declared, and all are late together.
LagInv ==
  /\ thread.at # "sleep" => thread.since <= lag
  /\ Pending \/ Place(todo) = "counting" => monitor.silence <= lag
  /\ Once(bus, "MON_TOKEN_TIMEOUT")
  /\ thread.at = "fire" => ~Has(bus, "MON_TOKEN_TIMEOUT")

\* No DATA has been lost.
Intact == budget.data = MaxLoseData

\* The token is at the machine, or the machine is taking it or releasing it.
InHand == machine.has_token \/ Place(todo) \in {"taking", "passing", "given", "watching"}

\* How long the silence may be once a thread has something to do: at the
\* least, and at the most if no timeout is to follow.
Low == monitor.silence <= lag
High == monitor.silence <= TokenTimeout - MaxLag + lag

\* The silence is as old as what is away, which may be about to arrive.
Fresh(age) ==
  monitor.silence <= age \/ (age = MaxRound /\ monitor.silence <= age + lag)

\* There is one token at most.
OneToken ==
  /\ Len(ring.tokens) <= 1
  /\ Once(bus, "RX_TOKEN")
  /\ ring.tokens # <<>> => rx # "RX_TOKEN" /\ ~Has(bus, "RX_TOKEN") /\ ~InHand
  /\ rx = "RX_TOKEN" => ~Has(bus, "RX_TOKEN") /\ ~InHand
  /\ Has(bus, "RX_TOKEN") => ~InHand

\* A timeout is declared when there is none, and handled before another.
NoTokenWhilePending ==
  /\ Pending \/ Place(todo) = "counting" =>
       ring.tokens = <<>> /\ rx # "RX_TOKEN" /\ ~Has(bus, "RX_TOKEN") /\ ~InHand
  /\ Pending => Place(todo) # "counting"

\* How long the silence can be, for every place where the token is: arrived,
\* away, being released, held, and here until the DATA is back.
ArrivedInv ==
  rx = "RX_TOKEN" \/ Has(bus, "RX_TOKEN") \/ Place(todo) \in {"taking", "taken", "holding"} => Low
AwayInv == ring.tokens # <<>> => Fresh(ring.tokens[1]) \/ (Place(todo) = "noting" /\ High)
ReleaseInv == Place(todo) \in {"ending", "passing", "given", "watching"} => High
HeldInv ==
  Place(todo) \in {"resting", "noting"} /\ machine.has_token /\ ~machine.waiting =>
    \/ timer.forward > 0 /\ monitor.silence + timer.forward <= TokenTime + MaxLag
    \/ /\ timer.forward = 0 \/ Has(bus, "TIMER_FORWARD_TOKEN")
       /\ monitor.silence <= TokenTime + MaxLag + lag
ReturnInv ==
  Place(todo) \in {"resting", "noting"} /\ machine.waiting =>
    \/ ring.data # Off /\ (Fresh(ring.data) \/ Place(todo) = "noting")
    \/ (rx = "RX_DATA" \/ Has(bus, "RX_DATA")) /\ Low

\* There is no second token to pass on.
NoRelay == Place(todo) # "relaying"

SilenceInv == ArrivedInv /\ AwayInv /\ ReleaseInv /\ HeldInv /\ ReturnInv

AlarmInv == Intact => OneToken /\ NoTokenWhilePending /\ SilenceInv /\ NoRelay

-----------------------------------------------------------------------------
\* The lists, statement by statement

Statements ==
  {"note", "take", "give", "wait", "unwait", "drop", "keep", "refresh", "enable", "disable", "count",
   "enqueue", "lose_control", "gain_control", "send_token", "send_data", "start_forward_timer",
   "start_return_timer"}

\* When a sequence is the concatenation of two others.
LEMMA ConcatIs ==
  ASSUME NEW S, NEW q \in Seq(S), NEW r \in Seq(S), NEW t \in Seq(S),
         Len(t) = Len(q) + Len(r),
         \A i \in 1 .. Len(q) : t[i] = q[i],
         \A i \in 1 .. Len(r) : t[Len(q) + i] = r[i]
  PROVE  q \o r = t
<1>1. /\ q \o r \in Seq(S)
      /\ Len(q \o r) = Len(q) + Len(r)
      /\ \A i \in 1 .. Len(q) + Len(r) :
           (q \o r)[i] = IF i <= Len(q) THEN q[i] ELSE r[i - Len(q)]
  BY ConcatProperties
<1>2. Len(q) \in Nat /\ Len(r) \in Nat
  BY LenProperties
<1>3. ASSUME NEW i \in 1 .. Len(q \o r)
      PROVE  (q \o r)[i] = t[i]
  <2>1. CASE i <= Len(q)
    BY <1>1, <1>2, <2>1
  <2>2. CASE i > Len(q)
    <3>1. i - Len(q) \in 1 .. Len(r) /\ Len(q) + (i - Len(q)) = i
      BY <1>1, <1>2, <2>2
    <3>2. t[i] = r[i - Len(q)]
      BY <3>1
    <3>3. QED
      BY <1>1, <1>2, <2>2, <3>1, <3>2
  <2>3. QED
    BY <2>1, <2>2, <1>1, <1>2
<1>4. QED
  BY <1>1, <1>3, SeqEqual

\* _complete_data_round, as one list.
LEMMA RoundList == CompleteDataRound = Ending2
<1> DEFINE p == <<"unwait", "refresh">>
           q == <<"give", "refresh", "send_token", "note">>
           t == <<"unwait", "refresh", "give", "refresh", "send_token", "note">>
<1>1. p \in Seq(Statements) /\ q \in Seq(Statements) /\ t \in Seq(Statements)
  BY DEF Statements
<1>2. Len(t) = Len(p) + Len(q)
  OBVIOUS
<1>3. \A i \in 1 .. Len(p) : t[i] = p[i]
  OBVIOUS
<1>4. \A i \in 1 .. Len(q) : t[Len(p) + i] = q[i]
  OBVIOUS
<1>5. CompleteDataRound = p \o q /\ Ending2 = t
  BY DEF CompleteDataRound, ForwardToken, Ending2
<1> HIDE DEF p, q, t
<1>6. p \o q = t
  BY <1>1, <1>2, <1>3, <1>4, ConcatIs
<1>7. QED
  BY <1>5, <1>6

\* The end of a round whose message is dropped,
LEMMA EndingList == <<"drop">> \o CompleteDataRound = Ending1
<1> DEFINE p == <<"drop">>
           q == <<"unwait", "refresh", "give", "refresh", "send_token", "note">>
           t == <<"drop", "unwait", "refresh", "give", "refresh", "send_token", "note">>
<1>1. p \in Seq(Statements) /\ q \in Seq(Statements) /\ t \in Seq(Statements)
  BY DEF Statements
<1>2. Len(t) = Len(p) + Len(q)
  OBVIOUS
<1>3. \A i \in 1 .. Len(p) : t[i] = p[i]
  OBVIOUS
<1>4. \A i \in 1 .. Len(q) : t[Len(p) + i] = q[i]
  OBVIOUS
<1>5. <<"drop">> \o CompleteDataRound = p \o q /\ Ending1 = t
  BY RoundList DEF Ending1, Ending2
<1> HIDE DEF p, q, t
<1>6. p \o q = t
  BY <1>1, <1>2, <1>3, <1>4, ConcatIs
<1>7. QED
  BY <1>5, <1>6

\* and of one whose message is kept.
LEMMA KeptList == <<"keep">> \o CompleteDataRound = Kept1
<1> DEFINE p == <<"keep">>
           q == <<"unwait", "refresh", "give", "refresh", "send_token", "note">>
           t == <<"keep", "unwait", "refresh", "give", "refresh", "send_token", "note">>
<1>1. p \in Seq(Statements) /\ q \in Seq(Statements) /\ t \in Seq(Statements)
  BY DEF Statements
<1>2. Len(t) = Len(p) + Len(q)
  OBVIOUS
<1>3. \A i \in 1 .. Len(p) : t[i] = p[i]
  OBVIOUS
<1>4. \A i \in 1 .. Len(q) : t[Len(p) + i] = q[i]
  OBVIOUS
<1>5. <<"keep">> \o CompleteDataRound = p \o q /\ Kept1 = t
  BY RoundList DEF Kept1, Ending2
<1> HIDE DEF p, q, t
<1>6. p \o q = t
  BY <1>1, <1>2, <1>3, <1>4, ConcatIs
<1>7. QED
  BY <1>5, <1>6

\* The handler of DATA that is back,
LEMMA ReturnedList == <<"note">> \o Ending1 = Returned
<1> DEFINE p == <<"note">>
           q == <<"drop", "unwait", "refresh", "give", "refresh", "send_token", "note">>
           t == <<"note", "drop", "unwait", "refresh", "give", "refresh", "send_token", "note">>
<1>1. p \in Seq(Statements) /\ q \in Seq(Statements) /\ t \in Seq(Statements)
  BY DEF Statements
<1>2. Len(t) = Len(p) + Len(q)
  OBVIOUS
<1>3. \A i \in 1 .. Len(p) : t[i] = p[i]
  OBVIOUS
<1>4. \A i \in 1 .. Len(q) : t[Len(p) + i] = q[i]
  OBVIOUS
<1>5. <<"note">> \o Ending1 = p \o q /\ Returned = t
  BY DEF Returned, Ending1
<1> HIDE DEF p, q, t
<1>6. p \o q = t
  BY <1>1, <1>2, <1>3, <1>4, ConcatIs
<1>7. QED
  BY <1>5, <1>6

\* and of DATA that is back with its first NAK.
LEMMA KeptReturnedList == <<"note">> \o Kept1 = KeptReturned
<1> DEFINE p == <<"note">>
           q == <<"keep", "unwait", "refresh", "give", "refresh", "send_token", "note">>
           t == <<"note", "keep", "unwait", "refresh", "give", "refresh", "send_token", "note">>
<1>1. p \in Seq(Statements) /\ q \in Seq(Statements) /\ t \in Seq(Statements)
  BY DEF Statements
<1>2. Len(t) = Len(p) + Len(q)
  OBVIOUS
<1>3. \A i \in 1 .. Len(p) : t[i] = p[i]
  OBVIOUS
<1>4. \A i \in 1 .. Len(q) : t[Len(p) + i] = q[i]
  OBVIOUS
<1>5. <<"note">> \o Kept1 = p \o q /\ KeptReturned = t
  BY DEF KeptReturned, Kept1
<1> HIDE DEF p, q, t
<1>6. p \o q = t
  BY <1>1, <1>2, <1>3, <1>4, ConcatIs
<1>7. QED
  BY <1>5, <1>6

\* _on_mon_token_timeout, when it makes a token.
LEMMA CountingList == <<"count">> \o GenerateToken = Counting
<1> DEFINE p == <<"count">>
           q == <<"enable", "give", "refresh", "send_token", "note">>
           t == <<"count", "enable", "give", "refresh", "send_token", "note">>
<1>1. p \in Seq(Statements) /\ q \in Seq(Statements) /\ t \in Seq(Statements)
  BY DEF Statements
<1>2. Len(t) = Len(p) + Len(q)
  OBVIOUS
<1>3. \A i \in 1 .. Len(p) : t[i] = p[i]
  OBVIOUS
<1>4. \A i \in 1 .. Len(q) : t[Len(p) + i] = q[i]
  OBVIOUS
<1>5. <<"count">> \o GenerateToken = p \o q /\ Counting = t
  BY DEF GenerateToken, Counting
<1> HIDE DEF p, q, t
<1>6. p \o q = t
  BY <1>1, <1>2, <1>3, <1>4, ConcatIs
<1>7. QED
  BY <1>5, <1>6

\* _on_rx_token by a machine that transmits.
LEMMA ReceivingList == <<"note", "take", "refresh">> \o SendDataPacket = Receiving1
<1> DEFINE p == <<"note", "take", "refresh">>
           q == <<"wait", "refresh", "start_return_timer", "send_data", "note">>
           t == <<"note", "take", "refresh", "wait", "refresh", "start_return_timer", "send_data",
                  "note">>
<1>1. p \in Seq(Statements) /\ q \in Seq(Statements) /\ t \in Seq(Statements)
  BY DEF Statements
<1>2. Len(t) = Len(p) + Len(q)
  OBVIOUS
<1>3. \A i \in 1 .. Len(p) : t[i] = p[i]
  OBVIOUS
<1>4. \A i \in 1 .. Len(q) : t[Len(p) + i] = q[i]
  OBVIOUS
<1>5. <<"note", "take", "refresh">> \o SendDataPacket = p \o q /\ Receiving1 = t
  BY DEF SendDataPacket, Receiving1
<1> HIDE DEF p, q, t
<1>6. p \o q = t
  BY <1>1, <1>2, <1>3, <1>4, ConcatIs
<1>7. QED
  BY <1>5, <1>6

\* _on_rx_token by a machine that holds the token.
LEMMA HoldingList == <<"note", "take", "refresh">> \o <<"start_forward_timer">> = Holding1
<1> DEFINE p == <<"note", "take", "refresh">>
           q == <<"start_forward_timer">>
           t == <<"note", "take", "refresh", "start_forward_timer">>
<1>1. p \in Seq(Statements) /\ q \in Seq(Statements) /\ t \in Seq(Statements)
  BY DEF Statements
<1>2. Len(t) = Len(p) + Len(q)
  OBVIOUS
<1>3. \A i \in 1 .. Len(p) : t[i] = p[i]
  OBVIOUS
<1>4. \A i \in 1 .. Len(q) : t[Len(p) + i] = q[i]
  OBVIOUS
<1>5. <<"note", "take", "refresh">> \o <<"start_forward_timer">> = p \o q /\ Holding1 = t
  BY DEF Holding1
<1> HIDE DEF p, q, t
<1>6. p \o q = t
  BY <1>1, <1>2, <1>3, <1>4, ConcatIs
<1>7. QED
  BY <1>5, <1>6

\* What is done first, and what is left then, by releasing the token,
LEMMA PassFacts ==
  /\ Head(GenerateToken) = "enable" /\ Tail(GenerateToken) = ForwardToken /\ Len(GenerateToken) = 5
  /\ Head(ForwardToken) = "give" /\ Tail(ForwardToken) = Passing2 /\ Len(ForwardToken) = 4
  /\ Head(Passing2) = "refresh" /\ Tail(Passing2) = Passing3 /\ Len(Passing2) = 3
  /\ Head(Passing3) = "send_token" /\ Tail(Passing3) = LastNote /\ Len(Passing3) = 2
  /\ Head(Ending3) = "refresh" /\ Tail(Ending3) = ForwardToken /\ Len(Ending3) = 5
  /\ Head(Counting) = "count" /\ Tail(Counting) = GenerateToken /\ Len(Counting) = 6
  BY DEF GenerateToken, ForwardToken, Passing2, Passing3, LastNote, Ending3, Counting

\* by sending DATA,
LEMMA SendFacts ==
  /\ Head(SendDataPacket) = "wait" /\ Tail(SendDataPacket) = Sending2 /\ Len(SendDataPacket) = 5
  /\ Head(Sending2) = "refresh" /\ Tail(Sending2) = Sending3 /\ Len(Sending2) = 4
  /\ Head(Sending3) = "start_return_timer" /\ Tail(Sending3) = Sending4 /\ Len(Sending3) = 3
  /\ Head(Sending4) = "send_data" /\ Tail(Sending4) = LastNote /\ Len(Sending4) = 2
  BY DEF SendDataPacket, Sending2, Sending3, Sending4, LastNote

\* by ending a DATA round,
LEMMA EndFacts ==
  /\ Head(Returned) = "note" /\ Tail(Returned) = Ending1 /\ Len(Returned) = 8
  /\ Head(KeptReturned) = "note" /\ Tail(KeptReturned) = Kept1 /\ Len(KeptReturned) = 8
  /\ Head(Ending1) = "drop" /\ Tail(Ending1) = Ending2 /\ Len(Ending1) = 7
  /\ Head(Kept1) = "keep" /\ Tail(Kept1) = Ending2 /\ Len(Kept1) = 7
  /\ Head(Ending2) = "unwait" /\ Tail(Ending2) = Ending3 /\ Len(Ending2) = 6
  BY DEF Returned, KeptReturned, Ending1, Kept1, Ending2, Ending3

\* by taking the token,
LEMMA TakeFacts ==
  /\ Head(Receiving1) = "note" /\ Tail(Receiving1) = Receiving2 /\ Len(Receiving1) = 8
  /\ Head(Receiving2) = "take" /\ Tail(Receiving2) = Receiving3 /\ Len(Receiving2) = 7
  /\ Head(Receiving3) = "refresh" /\ Tail(Receiving3) = SendDataPacket /\ Len(Receiving3) = 6
  /\ Head(Holding1) = "note" /\ Tail(Holding1) = Holding2 /\ Len(Holding1) = 4
  /\ Head(Holding2) = "take" /\ Tail(Holding2) = Holding3 /\ Len(Holding2) = 3
  /\ Head(Holding3) = "refresh" /\ Tail(Holding3) = Holding4 /\ Len(Holding3) = 2
  /\ Head(Holding4) = "start_forward_timer" /\ Tail(Holding4) = <<>> /\ Len(Holding4) = 1
  BY DEF Receiving1, Receiving2, Receiving3, SendDataPacket, Holding1, Holding2, Holding3,
         Holding4

\* by passing on a second one,
LEMMA RelayFacts ==
  /\ Head(Relay1) = "note" /\ Tail(Relay1) = Relay2 /\ Len(Relay1) = 2
  /\ Head(Relay2) = "send_token" /\ Tail(Relay2) = <<>> /\ Len(Relay2) = 1
  /\ Head(Tail(Relay1)) = "send_token"
  BY DEF Relay1, Relay2

\* and by the other handlers.
LEMMA RestFacts ==
  /\ Head(LastNote) = "note" /\ Tail(LastNote) = <<>> /\ Len(LastNote) = 1
  /\ Head(Queueing) = "enqueue" /\ Tail(Queueing) = <<>> /\ Len(Queueing) = 1
  /\ Head(Demoted1) = "lose_control" /\ Tail(Demoted1) = Demoted2 /\ Len(Demoted1) = 2
  /\ Head(Demoted2) = "disable" /\ Tail(Demoted2) = <<>> /\ Len(Demoted2) = 1
  /\ Head(Promoted1) = "gain_control" /\ Tail(Promoted1) = Promoted2 /\ Len(Promoted1) = 3
  /\ Head(Promoted2) = "note" /\ Tail(Promoted2) = Promoted3 /\ Len(Promoted2) = 2
  /\ Head(Tail(Promoted2)) = "enable"
  /\ Head(Promoted3) = "enable" /\ Tail(Promoted3) = <<>> /\ Len(Promoted3) = 1
  BY DEF LastNote, Queueing, Demoted1, Demoted2, Promoted1, Promoted2, Promoted3

\* Which statement a list begins with, and how long it is.
LEMMA Shapes ==
  /\ \A q \in RestLists :
       \/ Len(q) = 0
       \/ Head(q) = "note" /\ Len(q) = 1
       \/ Head(q) = "note" /\ Len(q) = 2 /\ Head(Tail(q)) = "enable"
       \/ Head(q) = "enable" /\ Len(q) = 1
       \/ Head(q) \in {"enqueue", "lose_control", "disable", "gain_control"}
  /\ \A q \in SendLists :
       \/ Head(q) = "wait" /\ Len(q) = 5
       \/ Head(q) = "refresh" /\ Len(q) = 4
       \/ Head(q) = "start_return_timer" /\ Len(q) = 3
       \/ Head(q) = "send_data" /\ Len(q) = 2
  /\ \A q \in TakeLists :
       \/ Head(q) = "note" /\ Len(q) \in {4, 8} /\ Head(Tail(q)) = "take"
       \/ Head(q) = "take" /\ Len(q) \in {3, 7}
  /\ \A q \in TakenLists :
       \/ Head(q) = "refresh" /\ Len(q) \in {2, 6}
       \/ Head(q) = "start_forward_timer" /\ Len(q) = 1
  /\ \A q \in EndLists :
       \/ Head(q) = "note" /\ Len(q) = 8 /\ Head(Tail(q)) \in {"drop", "keep"}
       \/ Head(q) \in {"drop", "keep"} /\ Len(q) = 7
       \/ Head(q) = "unwait" /\ Len(q) = 6
  /\ \A q \in PassLists :
       \/ Head(q) = "enable" /\ Len(q) = 5
       \/ Head(q) = "refresh" /\ Len(q) \in {3, 5}
       \/ Head(q) = "give" /\ Len(q) = 4
       \/ Head(q) = "send_token" /\ Len(q) = 2
  /\ \A q \in RelayLists :
       \/ Head(q) = "note" /\ Len(q) = 2 /\ Head(Tail(q)) = "send_token"
       \/ Head(q) = "send_token" /\ Len(q) = 1
<1>1. \A q \in RestLists :
       \/ Len(q) = 0
       \/ Head(q) = "note" /\ Len(q) = 1
       \/ Head(q) = "note" /\ Len(q) = 2 /\ Head(Tail(q)) = "enable"
       \/ Head(q) = "enable" /\ Len(q) = 1
       \/ Head(q) \in {"enqueue", "lose_control", "disable", "gain_control"}
  BY RestFacts DEF RestLists
<1>2. \A q \in SendLists :
       \/ Head(q) = "wait" /\ Len(q) = 5
       \/ Head(q) = "refresh" /\ Len(q) = 4
       \/ Head(q) = "start_return_timer" /\ Len(q) = 3
       \/ Head(q) = "send_data" /\ Len(q) = 2
  BY SendFacts DEF SendLists
<1>3. \A q \in TakeLists :
       \/ Head(q) = "note" /\ Len(q) \in {4, 8} /\ Head(Tail(q)) = "take"
       \/ Head(q) = "take" /\ Len(q) \in {3, 7}
  BY TakeFacts DEF TakeLists
<1>4. \A q \in TakenLists :
       \/ Head(q) = "refresh" /\ Len(q) \in {2, 6}
       \/ Head(q) = "start_forward_timer" /\ Len(q) = 1
  BY TakeFacts DEF TakenLists
<1>5. \A q \in EndLists :
       \/ Head(q) = "note" /\ Len(q) = 8 /\ Head(Tail(q)) \in {"drop", "keep"}
       \/ Head(q) \in {"drop", "keep"} /\ Len(q) = 7
       \/ Head(q) = "unwait" /\ Len(q) = 6
  BY EndFacts DEF EndLists
<1>6. \A q \in PassLists :
       \/ Head(q) = "enable" /\ Len(q) = 5
       \/ Head(q) = "refresh" /\ Len(q) \in {3, 5}
       \/ Head(q) = "give" /\ Len(q) = 4
       \/ Head(q) = "send_token" /\ Len(q) = 2
  BY PassFacts DEF PassLists
<1>7. \A q \in RelayLists :
       \/ Head(q) = "note" /\ Len(q) = 2 /\ Head(Tail(q)) = "send_token"
       \/ Head(q) = "send_token" /\ Len(q) = 1
  BY RelayFacts DEF RelayLists
<1>8. QED
  BY <1>1, <1>2, <1>3, <1>4, <1>5, <1>6, <1>7

\* The groups have no list in common.
LEMMA Groups ==
  /\ \A q \in RestLists :
       q \notin SendLists \cup TakeLists \cup TakenLists \cup EndLists \cup PassLists
                  \cup {Counting}
  /\ \A q \in SendLists :
       q \notin TakeLists \cup TakenLists \cup EndLists \cup PassLists \cup {Counting}
  /\ \A q \in TakeLists : q \notin TakenLists \cup EndLists \cup PassLists \cup {Counting}
  /\ \A q \in TakenLists : q \notin EndLists \cup PassLists \cup {Counting}
  /\ \A q \in EndLists : q \notin PassLists \cup {Counting}
  /\ Counting \notin PassLists
  /\ \A q \in RelayLists :
       q \notin RestLists \cup SendLists \cup TakeLists \cup TakenLists \cup EndLists
                  \cup PassLists \cup {Counting}
<1>1. Head(Counting) = "count" /\ Len(Counting) = 6
  BY PassFacts
<1>2. \A q \in RestLists :
        q \notin SendLists \cup TakeLists \cup TakenLists \cup EndLists \cup PassLists
                  \cup {Counting}
  BY SMTT(30), Shapes, <1>1
<1>3. \A q \in SendLists :
        q \notin TakeLists \cup TakenLists \cup EndLists \cup PassLists \cup {Counting}
  <2>1. \A q \in SendLists : q \notin TakeLists \cup EndLists \cup {Counting}
    BY Shapes, <1>1
  <2>2. ASSUME NEW q \in SendLists, q \in TakenLists
        PROVE  FALSE
    <3>1. Head(q) = "refresh" /\ (Len(q) = 2 \/ Len(q) = 6)
      BY Shapes, <2>2
    <3>2. Len(q) = 4
      BY Shapes, <2>2, <3>1
    <3>3. QED
      BY <3>1, <3>2
  <2>3. ASSUME NEW q \in SendLists, q \in PassLists
        PROVE  FALSE
    <3>1. Head(q) = "refresh" /\ (Len(q) = 3 \/ Len(q) = 5)
      BY Shapes, <2>3
    <3>2. Len(q) = 4
      BY Shapes, <2>3, <3>1
    <3>3. QED
      BY <3>1, <3>2
  <2>4. QED
    BY <2>1, <2>2, <2>3
<1>4. \A q \in TakeLists : q \notin TakenLists \cup EndLists \cup PassLists \cup {Counting}
  BY Shapes, <1>1
<1>5. \A q \in TakenLists : q \notin EndLists \cup PassLists \cup {Counting}
  <2>1. \A q \in TakenLists : q \notin EndLists \cup {Counting}
    BY Shapes, <1>1
  <2>2. ASSUME NEW q \in TakenLists, q \in PassLists
        PROVE  FALSE
    <3>1. Head(q) = "refresh" /\ (Len(q) = 2 \/ Len(q) = 6)
      BY Shapes, <2>2
    <3>2. Len(q) = 3 \/ Len(q) = 5
      BY Shapes, <2>2, <3>1
    <3>3. QED
      BY <3>1, <3>2
  <2>3. QED
    BY <2>1, <2>2
<1>6. \A q \in EndLists : q \notin PassLists \cup {Counting}
  BY Shapes, <1>1
<1>7. Counting \notin PassLists
  BY Shapes, <1>1
<1>8. ASSUME NEW q \in RelayLists
      PROVE  q \notin RestLists \cup SendLists \cup TakeLists \cup TakenLists \cup EndLists
                       \cup PassLists \cup {Counting}
  <2>1. CASE Head(q) = "note" /\ Len(q) = 2 /\ Head(Tail(q)) = "send_token"
    BY SMTT(30), <2>1, Shapes, <1>1
  <2>2. CASE Head(q) = "send_token" /\ Len(q) = 1
    BY SMTT(30), <2>2, Shapes, <1>1
  <2>3. QED
    BY <2>1, <2>2, Shapes
<1>9. QED
  BY <1>2, <1>3, <1>4, <1>5, <1>6, <1>7, <1>8

\* The lists of a group that the invariants tell from the others.
LEMMA Apart ==
  /\ \A q \in {Queueing, Demoted1, Demoted2, Promoted1, Promoted2, Promoted3, <<>>} : q # LastNote
  /\ \A q \in {Sending2, Sending3, Sending4} : q # SendDataPacket
  /\ \A q \in {Receiving3, Holding3} : q # Holding4
  /\ \A q \in {GenerateToken, Ending3, ForwardToken} : q # Passing2 /\ q # Passing3
  /\ Passing2 # Passing3
<1>1. \A q \in {Queueing, Demoted1, Demoted2, Promoted1, Promoted2, Promoted3, <<>>} : q # LastNote
  <2>1. Len(<<>>) = 0
    OBVIOUS
  <2>2. /\ Len(LastNote) = 1 /\ Head(LastNote) = "note"
        /\ Head(Queueing) = "enqueue" /\ Head(Demoted1) = "lose_control"
        /\ Head(Demoted2) = "disable" /\ Head(Promoted1) = "gain_control"
        /\ Len(Promoted2) = 2 /\ Head(Promoted3) = "enable"
    BY RestFacts
  <2>3. QED
    BY <2>1, <2>2
<1>2. \A q \in {Sending2, Sending3, Sending4} : q # SendDataPacket
  BY SendFacts
<1>3. \A q \in {Receiving3, Holding3} : q # Holding4
  BY TakeFacts
<1>4. /\ \A q \in {GenerateToken, Ending3, ForwardToken} : q # Passing2 /\ q # Passing3
      /\ Passing2 # Passing3
  BY PassFacts
<1>5. QED
  BY <1>1, <1>2, <1>3, <1>4

\* Where every list is.
LEMMA Places ==
  /\ \A q \in {<<>>, Queueing, Demoted1, Demoted2, Promoted1, Promoted2, Promoted3} :
       Place(q) = "resting"
  /\ Place(LastNote) = "noting"
  /\ Place(SendDataPacket) = "sending"
  /\ \A q \in {Sending2, Sending3, Sending4} : Place(q) = "waiting"
  /\ \A q \in {Receiving1, Receiving2, Holding1, Holding2} : Place(q) = "taking"
  /\ \A q \in {Receiving3, Holding3} : Place(q) = "taken"
  /\ Place(Holding4) = "holding"
  /\ \A q \in {Returned, KeptReturned, Ending1, Kept1, Ending2} : Place(q) = "ending"
  /\ \A q \in {GenerateToken, Ending3, ForwardToken} : Place(q) = "passing"
  /\ Place(Passing2) = "given"
  /\ Place(Passing3) = "watching"
  /\ Place(Counting) = "counting"
  /\ \A q \in {Relay1, Relay2} : Place(q) = "relaying"
<1>1. \A q \in {<<>>, Queueing, Demoted1, Demoted2, Promoted1, Promoted2, Promoted3} :
        Place(q) = "resting"
  BY Groups, Apart DEF Place, RestLists
<1>2. Place(LastNote) = "noting"
  BY Groups, Apart DEF Place, RestLists
<1>3. Place(SendDataPacket) = "sending"
  BY Groups, Apart DEF Place, SendLists
<1>4. \A q \in {Sending2, Sending3, Sending4} : Place(q) = "waiting"
  BY Groups, Apart DEF Place, SendLists
<1>5. \A q \in {Receiving1, Receiving2, Holding1, Holding2} : Place(q) = "taking"
  BY Groups, Apart DEF Place, TakeLists
<1>6. \A q \in {Receiving3, Holding3} : Place(q) = "taken"
  BY Groups, Apart DEF Place, TakenLists
<1>7. Place(Holding4) = "holding"
  BY Groups, Apart DEF Place, TakenLists
<1>8. \A q \in {Returned, KeptReturned, Ending1, Kept1, Ending2} : Place(q) = "ending"
  BY Groups, Apart DEF Place, EndLists
<1>9. \A q \in {GenerateToken, Ending3, ForwardToken} : Place(q) = "passing"
  BY Groups, Apart DEF Place, PassLists
<1>10. Place(Passing2) = "given"
  BY Groups, Apart DEF Place, PassLists
<1>11. Place(Passing3) = "watching"
  BY Groups, Apart DEF Place, PassLists
<1>12. Place(Counting) = "counting"
  BY Groups, Apart DEF Place
<1>13. \A q \in {Relay1, Relay2} : Place(q) = "relaying"
  BY Groups DEF Place, RelayLists
<1>14. QED
  BY <1>1, <1>2, <1>3, <1>4, <1>5, <1>6, <1>7, <1>8, <1>9, <1>10, <1>11, <1>12, <1>13

\* The first statement of q is s, and doing it leads from p to r.
Goes(q, s, p, r) == Head(q) = s /\ Place(q) = p /\ Tail(q) \in Lists /\ Place(Tail(q)) = r

\* Every statement leads from a place to a place.
LEMMA Progress ==
  ASSUME NEW q \in Lists, q # <<>>
  PROVE  \/ Goes(q, "note", "noting", "resting")
         \/ Goes(q, "enqueue", "resting", "resting")
         \/ Goes(q, "lose_control", "resting", "resting")
         \/ Goes(q, "disable", "resting", "resting")
         \/ Goes(q, "gain_control", "resting", "resting")
         \/ Goes(q, "note", "resting", "resting")
         \/ Goes(q, "enable", "resting", "resting")
         \/ Goes(q, "wait", "sending", "waiting")
         \/ Goes(q, "refresh", "waiting", "waiting")
         \/ Goes(q, "start_return_timer", "waiting", "waiting")
         \/ Goes(q, "send_data", "waiting", "noting")
         \/ Goes(q, "note", "taking", "taking")
         \/ Goes(q, "take", "taking", "taken")
         \/ Goes(q, "refresh", "taken", "sending")
         \/ Goes(q, "refresh", "taken", "holding")
         \/ Goes(q, "start_forward_timer", "holding", "resting")
         \/ Goes(q, "note", "ending", "ending")
         \/ Goes(q, "drop", "ending", "ending")
         \/ Goes(q, "unwait", "ending", "passing")
         \/ Goes(q, "enable", "passing", "passing")
         \/ Goes(q, "refresh", "passing", "passing")
         \/ Goes(q, "give", "passing", "given")
         \/ Goes(q, "refresh", "given", "watching")
         \/ Goes(q, "send_token", "watching", "noting")
         \/ Goes(q, "count", "counting", "passing")
         \/ Goes(q, "keep", "ending", "ending")
         \/ Goes(q, "note", "relaying", "relaying")
         \/ Goes(q, "send_token", "relaying", "resting")
<1>1. Goes(LastNote, "note", "noting", "resting")
  BY RestFacts, Places
     DEF Goes, Lists, RestLists, SendLists, TakeLists, TakenLists, EndLists, PassLists, RelayLists
<1>2. Goes(Queueing, "enqueue", "resting", "resting")
  BY RestFacts, Places
     DEF Goes, Lists, RestLists, SendLists, TakeLists, TakenLists, EndLists, PassLists, RelayLists
<1>3. Goes(Demoted1, "lose_control", "resting", "resting")
  BY RestFacts, Places
     DEF Goes, Lists, RestLists, SendLists, TakeLists, TakenLists, EndLists, PassLists, RelayLists
<1>4. Goes(Demoted2, "disable", "resting", "resting")
  BY RestFacts, Places
     DEF Goes, Lists, RestLists, SendLists, TakeLists, TakenLists, EndLists, PassLists, RelayLists
<1>5. Goes(Promoted1, "gain_control", "resting", "resting")
  BY RestFacts, Places
     DEF Goes, Lists, RestLists, SendLists, TakeLists, TakenLists, EndLists, PassLists, RelayLists
<1>6. Goes(Promoted2, "note", "resting", "resting")
  BY RestFacts, Places
     DEF Goes, Lists, RestLists, SendLists, TakeLists, TakenLists, EndLists, PassLists, RelayLists
<1>7. Goes(Promoted3, "enable", "resting", "resting")
  BY RestFacts, Places
     DEF Goes, Lists, RestLists, SendLists, TakeLists, TakenLists, EndLists, PassLists, RelayLists
<1>8. Goes(SendDataPacket, "wait", "sending", "waiting")
  BY SendFacts, Places
     DEF Goes, Lists, RestLists, SendLists, TakeLists, TakenLists, EndLists, PassLists, RelayLists
<1>9. Goes(Sending2, "refresh", "waiting", "waiting")
  BY SendFacts, Places
     DEF Goes, Lists, RestLists, SendLists, TakeLists, TakenLists, EndLists, PassLists, RelayLists
<1>10. Goes(Sending3, "start_return_timer", "waiting", "waiting")
  BY SendFacts, Places
     DEF Goes, Lists, RestLists, SendLists, TakeLists, TakenLists, EndLists, PassLists, RelayLists
<1>11. Goes(Sending4, "send_data", "waiting", "noting")
  BY SendFacts, Places
     DEF Goes, Lists, RestLists, SendLists, TakeLists, TakenLists, EndLists, PassLists, RelayLists
<1>12. \A l \in {Receiving1, Holding1} : Goes(l, "note", "taking", "taking")
  BY ZenonT(60), TakeFacts, Places
     DEF Goes, Lists, RestLists, SendLists, TakeLists, TakenLists, EndLists, PassLists, RelayLists
<1>13. \A l \in {Receiving2, Holding2} : Goes(l, "take", "taking", "taken")
  BY ZenonT(60), TakeFacts, Places
     DEF Goes, Lists, RestLists, SendLists, TakeLists, TakenLists, EndLists, PassLists, RelayLists
<1>14. Goes(Receiving3, "refresh", "taken", "sending")
  BY TakeFacts, Places
     DEF Goes, Lists, RestLists, SendLists, TakeLists, TakenLists, EndLists, PassLists, RelayLists
<1>15. Goes(Holding3, "refresh", "taken", "holding")
  BY TakeFacts, Places
     DEF Goes, Lists, RestLists, SendLists, TakeLists, TakenLists, EndLists, PassLists, RelayLists
<1>16. Goes(Holding4, "start_forward_timer", "holding", "resting")
  BY TakeFacts, Places
     DEF Goes, Lists, RestLists, SendLists, TakeLists, TakenLists, EndLists, PassLists, RelayLists
<1>17. \A l \in {Returned, KeptReturned} : Goes(l, "note", "ending", "ending")
  BY ZenonT(60), EndFacts, Places
     DEF Goes, Lists, RestLists, SendLists, TakeLists, TakenLists, EndLists, PassLists, RelayLists
<1>18. Goes(Ending1, "drop", "ending", "ending")
  BY EndFacts, Places
     DEF Goes, Lists, RestLists, SendLists, TakeLists, TakenLists, EndLists, PassLists, RelayLists
<1>19. Goes(Ending2, "unwait", "ending", "passing")
  BY EndFacts, Places
     DEF Goes, Lists, RestLists, SendLists, TakeLists, TakenLists, EndLists, PassLists, RelayLists
<1>20. Goes(GenerateToken, "enable", "passing", "passing")
  BY PassFacts, Places
     DEF Goes, Lists, RestLists, SendLists, TakeLists, TakenLists, EndLists, PassLists, RelayLists
<1>21. Goes(Ending3, "refresh", "passing", "passing")
  BY PassFacts, Places
     DEF Goes, Lists, RestLists, SendLists, TakeLists, TakenLists, EndLists, PassLists, RelayLists
<1>22. Goes(ForwardToken, "give", "passing", "given")
  BY PassFacts, Places
     DEF Goes, Lists, RestLists, SendLists, TakeLists, TakenLists, EndLists, PassLists, RelayLists
<1>23. Goes(Passing2, "refresh", "given", "watching")
  BY PassFacts, Places
     DEF Goes, Lists, RestLists, SendLists, TakeLists, TakenLists, EndLists, PassLists, RelayLists
<1>24. Goes(Passing3, "send_token", "watching", "noting")
  BY PassFacts, Places
     DEF Goes, Lists, RestLists, SendLists, TakeLists, TakenLists, EndLists, PassLists, RelayLists
<1>25. Goes(Counting, "count", "counting", "passing")
  BY PassFacts, Places
     DEF Goes, Lists, RestLists, SendLists, TakeLists, TakenLists, EndLists, PassLists, RelayLists
<1>26. Goes(Kept1, "keep", "ending", "ending")
  BY EndFacts, Places
     DEF Goes, Lists, RestLists, SendLists, TakeLists, TakenLists, EndLists, PassLists, RelayLists
<1>27. Goes(Relay1, "note", "relaying", "relaying")
  BY RelayFacts, Places
     DEF Goes, Lists, RestLists, SendLists, TakeLists, TakenLists, EndLists, PassLists, RelayLists
<1>28. Goes(Relay2, "send_token", "relaying", "resting")
  BY RelayFacts, Places
     DEF Goes, Lists, RestLists, SendLists, TakeLists, TakenLists, EndLists, PassLists, RelayLists
<1>29. q \in RestLists \cup SendLists \cup TakeLists \cup TakenLists \cup EndLists \cup PassLists
       \cup RelayLists \cup {Counting}
  BY DEF Lists
<1>30. QED
  BY <1>1, <1>2, <1>3, <1>4, <1>5, <1>6, <1>7, <1>8, <1>9, <1>10, <1>11, <1>12, <1>13, <1>14,
     <1>15, <1>16, <1>17, <1>18, <1>19, <1>20, <1>21, <1>22, <1>23, <1>24, <1>25, <1>26, <1>27,
     <1>28, <1>29
     DEF RestLists, SendLists, TakeLists, TakenLists, EndLists, PassLists, RelayLists

-----------------------------------------------------------------------------
\* The bus

\* What an event posted changes.
LEMMA Posted ==
  ASSUME NEW b \in Seq(Events), NEW e \in Events
  PROVE  /\ Append(b, e) \in Seq(Events)
         /\ Has(Append(b, e), e)
         /\ \A f \in Events : f # e => (Has(Append(b, e), f) <=> Has(b, f))
         /\ \A f \in Events : f # e /\ Once(b, f) => Once(Append(b, e), f)
         /\ ~Has(b, e) => Once(Append(b, e), e)
<1>1. /\ Append(b, e) \in Seq(Events)
      /\ Len(Append(b, e)) = Len(b) + 1
      /\ \A i \in 1 .. Len(b) : Append(b, e)[i] = b[i]
      /\ Append(b, e)[Len(b) + 1] = e
  BY AppendProperties
<1>2. Len(b) \in Nat /\ DOMAIN b = 1 .. Len(b) /\ DOMAIN Append(b, e) = 1 .. Len(b) + 1
  BY <1>1, LenProperties
<1>3. Has(Append(b, e), e)
  BY <1>1, <1>2 DEF Has
<1>4. ASSUME NEW f \in Events, f # e
      PROVE  /\ Has(Append(b, e), f) <=> Has(b, f)
             /\ Once(b, f) => Once(Append(b, e), f)
  <2>1. \A i \in DOMAIN Append(b, e) : Append(b, e)[i] = f => i \in DOMAIN b /\ b[i] = f
    BY <1>1, <1>2, <1>4
  <2>2. \A i \in DOMAIN b : i \in DOMAIN Append(b, e) /\ Append(b, e)[i] = b[i]
    BY <1>1, <1>2
  <2>3. Has(Append(b, e), f) <=> Has(b, f)
    BY <2>1, <2>2 DEF Has
  <2>4. Once(b, f) => Once(Append(b, e), f)
    BY <2>1 DEF Once
  <2>5. QED
    BY <2>3, <2>4
<1>5. ASSUME ~Has(b, e)
      PROVE  Once(Append(b, e), e)
  <2>1. \A i \in DOMAIN Append(b, e) : Append(b, e)[i] = e => i = Len(b) + 1
    BY <1>1, <1>2, <1>5 DEF Has
  <2>2. QED
    BY <2>1 DEF Once
<1>6. QED
  BY <1>1, <1>3, <1>4, <1>5

\* What an event taken changes.
LEMMA Taken ==
  ASSUME NEW b \in Seq(Events), b # <<>>
  PROVE  /\ Tail(b) \in Seq(Events)
         /\ Head(b) \in Events /\ Has(b, Head(b))
         /\ \A f \in Events : Has(Tail(b), f) => Has(b, f)
         /\ \A f \in Events : f # Head(b) /\ Has(b, f) => Has(Tail(b), f)
         /\ \A f \in Events : Once(b, f) => Once(Tail(b), f)
         /\ Once(b, Head(b)) => ~Has(Tail(b), Head(b))
<1>1. /\ Tail(b) \in Seq(Events) /\ Len(Tail(b)) = Len(b) - 1
      /\ \A i \in 1 .. Len(Tail(b)) : Tail(b)[i] = b[i + 1]
      /\ Head(b) \in Events /\ Head(b) = b[1]
  BY HeadTailProperties
<1>2. /\ Len(b) \in Nat \ {0} /\ DOMAIN b = 1 .. Len(b) /\ DOMAIN Tail(b) = 1 .. Len(b) - 1
  BY <1>1, LenProperties, EmptySeq
<1>3. Has(b, Head(b))
  BY <1>1, <1>2 DEF Has
<1>4. \A i \in DOMAIN Tail(b) : i + 1 \in DOMAIN b /\ Tail(b)[i] = b[i + 1] /\ i \in Int
  BY <1>1, <1>2
<1>5. \A f \in Events : Has(Tail(b), f) => Has(b, f)
  BY <1>4 DEF Has
<1>6. ASSUME NEW f \in Events, f # Head(b), Has(b, f)
      PROVE  Has(Tail(b), f)
  <2>1. PICK i \in DOMAIN b : b[i] = f
    BY <1>6 DEF Has
  <2>2. i # 1 /\ i \in 1 .. Len(b)
    BY <1>1, <1>2, <1>6, <2>1
  <2>3. i - 1 \in DOMAIN Tail(b) /\ (i - 1) + 1 = i
    BY <1>2, <2>2
  <2>4. Tail(b)[i - 1] = f
    BY <1>4, <2>1, <2>3
  <2>5. QED
    BY <2>3, <2>4 DEF Has
<1>7. ASSUME NEW f \in Events, Once(b, f)
      PROVE  Once(Tail(b), f)
  <2>1. SUFFICES ASSUME NEW i \in DOMAIN Tail(b), NEW j \in DOMAIN Tail(b),
                        Tail(b)[i] = f, Tail(b)[j] = f
                 PROVE  i = j
    BY DEF Once
  <2>2. i + 1 = j + 1
    BY <1>4, <1>7, <2>1 DEF Once
  <2>3. QED
    BY <1>4, <2>2
<1>8. ASSUME Once(b, Head(b)), Has(Tail(b), Head(b))
      PROVE  FALSE
  <2>1. PICK i \in DOMAIN Tail(b) : Tail(b)[i] = Head(b)
    BY <1>8 DEF Has
  <2>2. i + 1 \in DOMAIN b /\ b[i + 1] = Head(b) /\ 1 \in DOMAIN b /\ b[1] = Head(b)
    BY <1>1, <1>2, <1>4, <2>1
  <2>3. i + 1 = 1
    BY <1>8, <2>2 DEF Once
  <2>4. QED
    BY <1>2, <2>3
<1>9. QED
  BY <1>1, <1>3, <1>5, <1>6, <1>7, <1>8

\* Before anything is posted.
LEMMA NothingPosted == <<>> \in Seq(Events) /\ \A f \in Events : ~Has(<<>>, f) /\ Once(<<>>, f)
  BY DEF Has, Once

-----------------------------------------------------------------------------
\* What a statement changes

\* The whole of it, by the statement.
LEMMA Effects ==
  ASSUME Execute
  PROVE  /\ todo # <<>> /\ todo' = Tail(todo)
         /\ UNCHANGED <<thread, bus, rx, lag, budget>>
         /\ Head(todo) = "note" =>
              monitor' = [monitor EXCEPT !.silence = 0] /\ UNCHANGED <<machine, timer, ring>>
         /\ Head(todo) = "refresh" =>
              /\ monitor' = [monitor EXCEPT !.paused = machine.has_token \/ machine.waiting]
              /\ UNCHANGED <<machine, timer, ring>>
         /\ Head(todo) = "enable" =>
              monitor' = [monitor EXCEPT !.enabled = TRUE] /\ UNCHANGED <<machine, timer, ring>>
         /\ Head(todo) = "disable" =>
              monitor' = [monitor EXCEPT !.enabled = FALSE] /\ UNCHANGED <<machine, timer, ring>>
         /\ Head(todo) = "take" =>
              machine' = [machine EXCEPT !.has_token = TRUE] /\ UNCHANGED <<monitor, timer, ring>>
         /\ Head(todo) = "give" =>
              machine' = [machine EXCEPT !.has_token = FALSE] /\ UNCHANGED <<monitor, timer, ring>>
         /\ Head(todo) = "wait" =>
              machine' = [machine EXCEPT !.waiting = TRUE] /\ UNCHANGED <<monitor, timer, ring>>
         /\ Head(todo) = "unwait" =>
              /\ machine' = [machine EXCEPT !.waiting = FALSE]
              /\ timer' = [timer EXCEPT !.return = Off]
              /\ UNCHANGED <<monitor, ring>>
         /\ Head(todo) = "enqueue" =>
              machine' = [machine EXCEPT !.queue = @ + 1] /\ UNCHANGED <<monitor, timer, ring>>
         /\ Head(todo) = "drop" =>
              /\ machine' = [machine EXCEPT !.queue = IF @ > 0 THEN @ - 1 ELSE 0,
                                            !.retransmit_used = FALSE]
              /\ UNCHANGED <<monitor, timer, ring>>
         /\ Head(todo) = "keep" =>
              /\ machine' = [machine EXCEPT !.retransmit_used = TRUE]
              /\ UNCHANGED <<monitor, timer, ring>>
         /\ Head(todo) = "count" =>
              /\ machine' = [machine EXCEPT !.tokens_perdidos = @ + 1]
              /\ UNCHANGED <<monitor, timer, ring>>
         /\ Head(todo) = "lose_control" =>
              machine' = [machine EXCEPT !.is_controller = FALSE] /\ UNCHANGED <<monitor, timer, ring>>
         /\ Head(todo) = "gain_control" =>
              machine' = [machine EXCEPT !.is_controller = TRUE] /\ UNCHANGED <<monitor, timer, ring>>
         /\ Head(todo) = "start_forward_timer" =>
              timer' = [timer EXCEPT !.forward = TokenTime] /\ UNCHANGED <<machine, monitor, ring>>
         /\ Head(todo) = "start_return_timer" =>
              timer' = [timer EXCEPT !.return = TokenTimeout] /\ UNCHANGED <<machine, monitor, ring>>
         /\ Head(todo) = "send_token" =>
              ring' = [ring EXCEPT !.tokens = Append(@, 0)] /\ UNCHANGED <<machine, monitor, timer>>
         /\ Head(todo) = "send_data" =>
              ring' = [ring EXCEPT !.data = 0] /\ UNCHANGED <<machine, monitor, timer>>
  BY DEF Execute, NoteActivity, RefreshMonitorPause, MachineAfter, TimerAfter, RingAfter

-----------------------------------------------------------------------------
\* Where the engine is once it has taken an event.
LEMMA Handlers ==
  ASSUME NEW e \in Events, NEW nak \in BOOLEAN
  PROVE  LET h == Handler(e, nak)
         IN  /\ h \in Lists
             /\ e = "RX_TOKEN" =>
                  \/ machine.has_token /\ Place(h) \in {"noting", "relaying"}
                  \/ ~machine.has_token /\ Place(h) = "taking"
             /\ e = "RX_DATA" =>
                  \/ machine.waiting /\ Place(h) = "ending"
                  \/ ~machine.waiting /\ Place(h) = "noting"
             /\ e = "TIMER_FORWARD_TOKEN" =>
                  \/ /\ machine.has_token /\ ~machine.waiting
                     /\ Place(h) = "sending" \/ Place(h) = "passing"
                  \/ ~(machine.has_token /\ ~machine.waiting) /\ Place(h) = "resting"
             /\ e = "TIMER_DATA_RETURN_TIMEOUT" =>
                  \/ machine.waiting /\ Place(h) = "ending"
                  \/ ~machine.waiting /\ Place(h) = "resting"
             /\ e = "MON_TOKEN_TIMEOUT" =>
                  \/ /\ machine.is_controller /\ ~machine.has_token /\ ~machine.waiting
                     /\ Place(h) = "counting"
                  \/ Place(h) = "resting"
             /\ e \in {"CMD_SEND", "RX_HELLO", "DISCOVERY_TICK"} => Place(h) = "resting"
<1> DEFINE h == Handler(e, nak)
<1>1. ASSUME e = "RX_TOKEN"
      PROVE  /\ machine.has_token => h \in {LastNote, Relay1}
             /\ ~machine.has_token => h \in {Receiving1, Holding1}
  BY <1>1, ReceivingList, HoldingList DEF Handler, RxTokenHandled, Transmits, LastNote, Relay1
<1>2. DataReturned(nak) \in {Ending1, Kept1} /\ DataReturned(FALSE) = Ending1
  BY EndingList, KeptList DEF DataReturned
<1>3. ASSUME e = "RX_DATA"
      PROVE  /\ machine.waiting => h \in {Returned, KeptReturned}
             /\ ~machine.waiting => h = LastNote
  <2>1. h = IF machine.waiting THEN <<"note">> \o DataReturned(nak) ELSE LastNote
    BY <1>3 DEF Handler, LastNote
  <2>2. QED
    BY <1>2, <2>1, ReturnedList, KeptReturnedList
<1>4. ASSUME e = "TIMER_FORWARD_TOKEN"
      PROVE  /\ machine.has_token /\ ~machine.waiting => h \in {SendDataPacket, ForwardToken}
             /\ ~(machine.has_token /\ ~machine.waiting) => h = <<>>
  BY <1>4 DEF Handler, Transmits
<1>5. ASSUME e = "TIMER_DATA_RETURN_TIMEOUT"
      PROVE  h = IF machine.waiting THEN Ending1 ELSE <<>>
  BY <1>2, <1>5 DEF Handler
<1>6. ASSUME e = "MON_TOKEN_TIMEOUT"
      PROVE  \/ machine.is_controller /\ ~machine.has_token /\ ~machine.waiting /\ h = Counting
             \/ h = <<>>
  BY <1>6, CountingList DEF Handler, MonTokenTimeout
<1>7. ASSUME e \in {"CMD_SEND", "RX_HELLO", "DISCOVERY_TICK"}
      PROVE  h \in {<<>>, Queueing, Demoted1, Promoted1}
  BY <1>7 DEF Handler, Queueing, Demoted1, Promoted1
<1> HIDE DEF h
<1>8. h \in Lists
  <2>1. h \in {<<>>, LastNote, Relay1, Receiving1, Holding1, Returned, KeptReturned, SendDataPacket,
               ForwardToken, Ending1, Counting, Queueing, Demoted1, Promoted1}
    BY <1>1, <1>3, <1>4, <1>5, <1>6, <1>7 DEF Events, RxEvents
  <2>2. QED
    BY <2>1 DEF Lists, RestLists, SendLists, TakeLists, TakenLists, EndLists, PassLists, RelayLists
<1>9. /\ e = "RX_TOKEN" =>
           \/ machine.has_token /\ Place(h) \in {"noting", "relaying"}
           \/ ~machine.has_token /\ Place(h) = "taking"
      /\ e = "RX_DATA" =>
           \/ machine.waiting /\ Place(h) = "ending"
           \/ ~machine.waiting /\ Place(h) = "noting"
  BY <1>1, <1>3, Places
<1>10. /\ e = "TIMER_FORWARD_TOKEN" =>
            \/ /\ machine.has_token /\ ~machine.waiting
               /\ Place(h) = "sending" \/ Place(h) = "passing"
            \/ ~(machine.has_token /\ ~machine.waiting) /\ Place(h) = "resting"
       /\ e = "TIMER_DATA_RETURN_TIMEOUT" =>
            \/ machine.waiting /\ Place(h) = "ending"
            \/ ~machine.waiting /\ Place(h) = "resting"
  BY <1>4, <1>5, Places
<1>11. /\ e = "MON_TOKEN_TIMEOUT" =>
            \/ /\ machine.is_controller /\ ~machine.has_token /\ ~machine.waiting
               /\ Place(h) = "counting"
            \/ Place(h) = "resting"
       /\ e \in {"CMD_SEND", "RX_HELLO", "DISCOVERY_TICK"} => Place(h) = "resting"
  BY <1>6, <1>7, Places
<1>12. QED
  BY <1>8, <1>9, <1>10, <1>11 DEF h

-----------------------------------------------------------------------------
\* The types

\* The constants are numbers.
LEMMA Durations ==
  /\ TokenTime \in Nat \ {0} /\ TokenTimeout \in Nat \ {0} /\ MaxRound \in Nat \ {0}
  /\ MaxLag \in Nat /\ MaxLoseData \in Nat
  BY MonitorDurations, MonitorBounds

\* The types, to begin with.
LEMMA TypesFirst == Init => Types
<1> SUFFICES ASSUME Init PROVE Types
  OBVIOUS
<1>1. <<>> \in Lists
  BY DEF Lists, RestLists
<1>2. <<>> \in Seq(Events) /\ <<0>> \in Seq(0 .. MaxRound)
  BY Durations
<1>3. QED
  BY <1>1, <1>2, Durations, MonitorBounds DEF Init, Types, Nothing, Off

\* What is away grows older.
LEMMA Ages ==
  ASSUME NEW q \in Seq(0 .. MaxRound)
  PROVE  LET r == [i \in DOMAIN q |-> Older(q[i], MaxRound)]
         IN  r \in Seq(0 .. MaxRound) /\ Len(r) = Len(q) /\ \A i \in DOMAIN q : r[i] = Older(q[i], MaxRound)
<1> DEFINE r == [i \in DOMAIN q |-> Older(q[i], MaxRound)]
<1>1. Len(q) \in Nat /\ DOMAIN q = 1 .. Len(q) /\ \A i \in DOMAIN q : q[i] \in 0 .. MaxRound
  BY LenProperties, ElementOfSeq
<1>2. \A i \in DOMAIN q : Older(q[i], MaxRound) \in 0 .. MaxRound
  BY <1>1, Durations DEF Older, Off
<1>3. r \in [1 .. Len(q) -> 0 .. MaxRound]
  BY <1>1, <1>2
<1>4. r \in Seq(0 .. MaxRound)
  BY <1>1, <1>3, SeqDef
<1>5. Len(r) = Len(q)
  BY <1>1, <1>3, <1>4, LenProperties
<1>6. QED
  BY <1>4, <1>5

\* No step leaves the types.
LEMMA TypesStep == Types /\ [Next]_vars => Types'
<1> SUFFICES ASSUME Types, [Next]_vars PROVE Types'
  OBVIOUS
<1>1. CASE RxToken
  <2>1. ring.tokens # <<>> /\ ring.tokens \in Seq(0 .. MaxRound)
    BY <1>1 DEF RxToken, Types
  <2>2. Tail(ring.tokens) \in Seq(0 .. MaxRound)
    BY <2>1, HeadTailProperties
  <2>3. QED
    BY <1>1, <2>2 DEF RxToken, NoteActivity, Types, RxEvents
<1>2. CASE RxData
  BY <1>2 DEF RxData, NoteActivity, Types, RxEvents
<1>3. CASE PostRx
  <2>1. rx \in Events
    BY <1>3 DEF PostRx, Types, Events
  <2>2. Append(bus, rx) \in Seq(Events)
    BY <2>1, Posted DEF Types
  <2>3. QED
    BY <1>3, <2>2 DEF PostRx, Posts, Types
<1>4. CASE TakeEvent
  <2>1. bus \in Seq(Events) /\ bus # <<>>
    BY <1>4 DEF TakeEvent, Types
  <2>2. Head(bus) \in Events /\ Tail(bus) \in Seq(Events)
    BY <2>1, Taken
  <2>3. PICK nak \in BOOLEAN : todo' = Handler(Head(bus), nak)
    BY <1>4 DEF TakeEvent
  <2>4. todo' \in Lists
    BY <2>2, <2>3, Handlers
  <2>5. QED
    BY <1>4, <2>2, <2>4 DEF TakeEvent, Types
<1>5. CASE Execute
  <2>1. todo \in Lists /\ todo # <<>> /\ todo' = Tail(todo)
    BY <1>5, Effects DEF Types
  <2>2. Tail(todo) \in Lists /\ Head(todo) \in Statements
    BY <2>1, Progress DEF Goes, Statements
  <2>3. Append(ring.tokens, 0) \in Seq(0 .. MaxRound)
    BY Durations, AppendProperties DEF Types
  <2>4. machine' \in [has_token : BOOLEAN, waiting : BOOLEAN, queue : Nat, retransmit_used : BOOLEAN,
                      is_controller : BOOLEAN, tokens_perdidos : Nat]
    <3> DEFINE lost == machine.tokens_perdidos + 1
               longer == machine.queue + 1
               shorter == IF machine.queue > 0 THEN machine.queue - 1 ELSE 0
    <3>1. lost \in Nat /\ longer \in Nat /\ shorter \in Nat
      BY DEF Types
    <3>2. /\ Head(todo) = "count" => machine' = [machine EXCEPT !.tokens_perdidos = lost]
          /\ Head(todo) = "enqueue" => machine' = [machine EXCEPT !.queue = longer]
          /\ Head(todo) = "drop" =>
               machine' = [machine EXCEPT !.queue = shorter, !.retransmit_used = FALSE]
      BY <1>5, Effects
    <3> HIDE DEF lost, longer, shorter
    <3>3. machine' \in {machine,
                        [machine EXCEPT !.tokens_perdidos = lost], [machine EXCEPT !.queue = longer],
                        [machine EXCEPT !.queue = shorter, !.retransmit_used = FALSE],
                        [machine EXCEPT !.retransmit_used = TRUE],
                        [machine EXCEPT !.has_token = TRUE], [machine EXCEPT !.has_token = FALSE],
                        [machine EXCEPT !.waiting = TRUE], [machine EXCEPT !.waiting = FALSE],
                        [machine EXCEPT !.is_controller = TRUE],
                        [machine EXCEPT !.is_controller = FALSE]}
      BY <1>5, <2>2, <3>2, Effects DEF Statements
    <3>4. machine \in [has_token : BOOLEAN, waiting : BOOLEAN, queue : Nat, retransmit_used : BOOLEAN,
                       is_controller : BOOLEAN, tokens_perdidos : Nat]
      BY DEF Types
    <3>5. QED
      BY <3>1, <3>3, <3>4
  <2>5. monitor' \in [silence : Nat, paused : BOOLEAN, enabled : BOOLEAN]
    <3> DEFINE pause == IF machine.has_token \/ machine.waiting THEN TRUE ELSE FALSE
    <3>1. pause \in BOOLEAN /\ pause = (machine.has_token \/ machine.waiting)
      BY DEF Types
    <3>2. Head(todo) = "refresh" => monitor' = [monitor EXCEPT !.paused = pause]
      BY <1>5, <3>1, Effects
    <3> HIDE DEF pause
    <3>3. CASE Head(todo) = "refresh"
      BY <3>1, <3>2, <3>3 DEF Types
    <3>4. CASE Head(todo) # "refresh"
      <4>1. \/ monitor' = monitor \/ monitor' = [monitor EXCEPT !.silence = 0]
            \/ monitor' = [monitor EXCEPT !.enabled = TRUE]
            \/ monitor' = [monitor EXCEPT !.enabled = FALSE]
        BY <1>5, <2>2, <3>4, Effects DEF Statements
      <4>2. monitor \in [silence : Nat, paused : BOOLEAN, enabled : BOOLEAN]
        BY DEF Types
      <4>3. CASE monitor' = monitor
        BY <4>2, <4>3
      <4>4. CASE monitor' = [monitor EXCEPT !.silence = 0]
        BY <4>2, <4>4
      <4>5. CASE monitor' = [monitor EXCEPT !.enabled = TRUE]
        BY <4>2, <4>5
      <4>6. CASE monitor' = [monitor EXCEPT !.enabled = FALSE]
        BY <4>2, <4>6
      <4>7. QED
        BY <4>1, <4>3, <4>4, <4>5, <4>6
    <3>5. QED
      BY <3>3, <3>4
  <2>6. timer' \in [forward : {Off} \cup 0 .. TokenTime, return : {Off} \cup 0 .. TokenTimeout]
    <3>1. timer \in [forward : {Off} \cup 0 .. TokenTime, return : {Off} \cup 0 .. TokenTimeout]
      BY DEF Types
    <3>2. TokenTime \in {Off} \cup 0 .. TokenTime /\ TokenTimeout \in {Off} \cup 0 .. TokenTimeout
      BY Durations
    <3>3. \/ timer' = timer \/ timer' = [timer EXCEPT !.forward = TokenTime]
          \/ timer' = [timer EXCEPT !.return = TokenTimeout] \/ timer' = [timer EXCEPT !.return = Off]
      BY <1>5, <2>2, Effects DEF Statements
    <3>4. QED
      BY <3>1, <3>2, <3>3
  <2>7. ring' \in [tokens : Seq(0 .. MaxRound), data : {Off} \cup 0 .. MaxRound]
    <3> DEFINE sent == Append(ring.tokens, 0)
    <3>1. sent \in Seq(0 .. MaxRound)
      BY <2>3
    <3>2. Head(todo) = "send_token" => ring' = [ring EXCEPT !.tokens = sent]
      BY <1>5, Effects
    <3> HIDE DEF sent
    <3>3. CASE Head(todo) = "send_token"
      <4>1. ring \in [tokens : Seq(0 .. MaxRound), data : {Off} \cup 0 .. MaxRound]
        BY DEF Types
      <4>2. QED
        BY <3>1, <3>2, <3>3, <4>1
    <3>4. CASE Head(todo) # "send_token"
      <4>1. ring' = ring \/ ring' = [ring EXCEPT !.data = 0]
        BY <1>5, <2>2, <3>4, Effects DEF Statements
      <4>2. 0 \in {Off} \cup 0 .. MaxRound
        BY Durations
      <4>3. QED
        BY <4>1, <4>2 DEF Types
    <3>5. QED
      BY <3>3, <3>4
  <2>8. QED
    BY <1>5, <2>1, <2>2, <2>4, <2>5, <2>6, <2>7 DEF Types, Execute
<1>6. CASE ForwardTimer
  <2>1. Append(bus, "TIMER_FORWARD_TOKEN") \in Seq(Events)
    BY Posted DEF Types, Events
  <2>2. QED
    BY <1>6, <2>1 DEF ForwardTimer, Posts, Types
<1>7. CASE ReturnTimer
  <2>1. Append(bus, "TIMER_DATA_RETURN_TIMEOUT") \in Seq(Events)
    BY Posted DEF Types, Events
  <2>2. QED
    BY <1>7, <2>1 DEF ReturnTimer, Posts, Types
<1>8. CASE Wake
  BY <1>8 DEF Wake, Types
<1>9. CASE Decide
  BY SMTT(30), <1>9 DEF Decide, Types
<1>10. CASE OnTimeout
  <2>1. Append(bus, "MON_TOKEN_TIMEOUT") \in Seq(Events)
    BY Posted DEF Types, Events
  <2>2. QED
    BY <1>10, <2>1 DEF OnTimeout, Posts, Types
<1>11. CASE Tick
  <2>1. ring'.tokens \in Seq(0 .. MaxRound)
    BY <1>11, Ages DEF Tick, Types
  <2>2. Older(ring.data, MaxRound) \in {Off} \cup 0 .. MaxRound
    BY SMTT(30), Durations DEF Types, Older, Off
  <2>3. ring' \in [tokens : Seq(0 .. MaxRound), data : {Off} \cup 0 .. MaxRound]
    BY <1>11, <2>1, <2>2 DEF Tick
  <2>4. timer' \in [forward : {Off} \cup 0 .. TokenTime, return : {Off} \cup 0 .. TokenTimeout]
    <3>1. timer.forward \in {Off} \cup 0 .. TokenTime /\ timer.return \in {Off} \cup 0 .. TokenTimeout
      BY DEF Types
    <3>2. Down(timer.forward) \in {Off} \cup 0 .. TokenTime
      BY <3>1, Durations DEF Down, Off
    <3>3. Down(timer.return) \in {Off} \cup 0 .. TokenTimeout
      BY <3>1, Durations DEF Down, Off
    <3>4. QED
      BY <1>11, <3>2, <3>3 DEF Tick
  <2>5. monitor' \in [silence : Nat, paused : BOOLEAN, enabled : BOOLEAN]
    <3>1. Older(monitor.silence, TokenTimeout + MaxLag + 1) \in Nat
      BY Durations DEF Types, Older, Off
    <3>2. QED
      BY <1>11, <3>1 DEF Tick, Types
  <2>6. thread' \in [at : {"sleep", "awake", "fire"}, nap : Nat, since : Nat]
    <3>1. Down(thread.nap) \in Nat
      BY DEF Types, Down
    <3>2. (IF thread.at = "sleep" THEN 0 ELSE thread.since + 1) \in Nat
      BY DEF Types
    <3>3. QED
      BY <1>11, <3>1, <3>2 DEF Tick, Types
  <2>7. lag' \in 0 .. MaxLag
    <3>1. lag \in 0 .. MaxLag /\ MaxLag \in Nat
      BY Durations DEF Types
    <3>2. (Due => lag < MaxLag) /\ lag' = IF Due THEN lag + 1 ELSE 0
      BY <1>11 DEF Tick
    <3>3. QED
      BY <3>1, <3>2
  <2>8. QED
    BY <1>11, <2>3, <2>4, <2>5, <2>6, <2>7 DEF Tick, Types
<1>12. CASE CmdSend
  <2>1. Append(bus, "CMD_SEND") \in Seq(Events)
    BY Posted DEF Types, Events
  <2>2. budget.sends - 1 \in Nat
    BY <1>12 DEF CmdSend, Types
  <2>3. QED
    BY ZenonT(60), <1>12, <2>1, <2>2 DEF CmdSend, Posts, Types
<1>13. CASE SmallerEnters
  <2>1. Append(bus, "RX_HELLO") \in Seq(Events)
    BY Posted DEF Types, Events
  <2>2. budget.roles - 1 \in Nat
    BY <1>13 DEF SmallerEnters, Types
  <2>3. QED
    BY ZenonT(60), <1>13, <2>1, <2>2 DEF SmallerEnters, Posts, Types
<1>14. CASE LoseToken
  <2>1. budget.tokens - 1 \in Nat
    BY <1>14 DEF LoseToken, Types
  <2>2. Tail(ring.tokens) \in Seq(0 .. MaxRound)
    BY <1>14, HeadTailProperties DEF LoseToken, Types
  <2>3. QED
    BY ZenonT(60), <1>14, <2>1, <2>2 DEF LoseToken, Types
<1>15. CASE LoseData
  <2>1. budget.data - 1 \in 0 .. MaxLoseData
    <3>1. budget.data \in 0 .. MaxLoseData
      BY DEF Types
    <3>2. budget.data > 0
      BY <1>15 DEF LoseData
    <3>3. QED
      BY <3>1, <3>2, Durations
  <2>2. QED
    BY ZenonT(60), <1>15, <2>1 DEF LoseData, Types
<1>16. CASE UNCHANGED vars
  BY <1>16 DEF vars, Types
<1>17. CASE SmallerExpires
  <2>1. Append(bus, "DISCOVERY_TICK") \in Seq(Events)
    BY Posted DEF Types, Events
  <2>2. QED
    BY <1>17, <2>1 DEF SmallerExpires, Posts, Types
<1>18. QED
  BY <1>1, <1>2, <1>3, <1>4, <1>5, <1>6, <1>7, <1>8, <1>9, <1>10, <1>11, <1>12, <1>13, <1>14,
     <1>15, <1>16, <1>17
     DEF Next, System

-----------------------------------------------------------------------------
\* The control of a handler

\* What a statement changes, field by field.
LEMMA Fields ==
  ASSUME Types, Execute
  PROVE  /\ todo \in Lists /\ todo # <<>> /\ todo' = Tail(todo)
         /\ machine'.has_token = IF Head(todo) = "take" THEN TRUE
                                 ELSE IF Head(todo) = "give" THEN FALSE ELSE machine.has_token
         /\ machine'.waiting = IF Head(todo) = "wait" THEN TRUE
                               ELSE IF Head(todo) = "unwait" THEN FALSE ELSE machine.waiting
         /\ machine'.is_controller = IF Head(todo) = "gain_control" THEN TRUE
                                     ELSE IF Head(todo) = "lose_control" THEN FALSE
                                     ELSE machine.is_controller
         /\ machine'.tokens_perdidos = IF Head(todo) = "count" THEN machine.tokens_perdidos + 1
                                       ELSE machine.tokens_perdidos
         /\ monitor'.paused = IF Head(todo) = "refresh" THEN machine.has_token \/ machine.waiting
                              ELSE monitor.paused
         /\ monitor'.silence = IF Head(todo) = "note" THEN 0 ELSE monitor.silence
         /\ timer'.forward = IF Head(todo) = "start_forward_timer" THEN TokenTime ELSE timer.forward
         /\ ring'.tokens = IF Head(todo) = "send_token" THEN Append(ring.tokens, 0) ELSE ring.tokens
         /\ ring'.data = IF Head(todo) = "send_data" THEN 0 ELSE ring.data
         /\ UNCHANGED <<thread, bus, rx, lag, budget>>
<1>1. todo \in Lists /\ todo # <<>> /\ todo' = Tail(todo) /\ UNCHANGED <<thread, bus, rx, lag, budget>>
  BY Effects DEF Types
<1>2. Head(todo) \in Statements
  BY <1>1, Progress DEF Goes, Statements
<1>3. /\ DOMAIN machine = {"has_token", "waiting", "queue", "retransmit_used", "is_controller",
                         "tokens_perdidos"}
      /\ DOMAIN monitor = {"silence", "paused", "enabled"}
      /\ DOMAIN timer = {"forward", "return"} /\ DOMAIN ring = {"tokens", "data"}
  BY DEF Types
<1>4. /\ machine'.has_token = IF Head(todo) = "take" THEN TRUE
                              ELSE IF Head(todo) = "give" THEN FALSE ELSE machine.has_token
      /\ machine'.waiting = IF Head(todo) = "wait" THEN TRUE
                            ELSE IF Head(todo) = "unwait" THEN FALSE ELSE machine.waiting
      /\ machine'.is_controller = IF Head(todo) = "gain_control" THEN TRUE
                                  ELSE IF Head(todo) = "lose_control" THEN FALSE
                                  ELSE machine.is_controller
      /\ machine'.tokens_perdidos = IF Head(todo) = "count" THEN machine.tokens_perdidos + 1
                                    ELSE machine.tokens_perdidos
  BY ZenonT(60), <1>2, <1>3, Effects DEF Statements
<1>5. monitor'.silence = IF Head(todo) = "note" THEN 0 ELSE monitor.silence
  BY <1>2, <1>3, Effects DEF Statements
<1>6. monitor'.paused = IF Head(todo) = "refresh" THEN machine.has_token \/ machine.waiting
                        ELSE monitor.paused
  BY <1>2, <1>3, Effects DEF Statements
<1>7. timer'.forward = IF Head(todo) = "start_forward_timer" THEN TokenTime ELSE timer.forward
  BY <1>2, <1>3, Effects DEF Statements
<1>8. /\ ring'.tokens = IF Head(todo) = "send_token" THEN Append(ring.tokens, 0) ELSE ring.tokens
      /\ ring'.data = IF Head(todo) = "send_data" THEN 0 ELSE ring.data
  BY <1>2, <1>3, Effects DEF Statements
<1>9. QED
  BY <1>1, <1>4, <1>5, <1>6, <1>7, <1>8

\* The machine is between two handlers.
LEMMA ControlFirst == Init => ControlInv
<1> SUFFICES ASSUME Init PROVE ControlInv
  OBVIOUS
<1>1. Place(todo) = "resting"
  BY Places DEF Init
<1>2. QED
  BY <1>1 DEF Init, ControlInv

\* A statement of a handler.
LEMMA ControlExecute == Types /\ ControlInv /\ Execute => ControlInv'
<1> SUFFICES ASSUME Types, ControlInv, Execute PROVE ControlInv'
  OBVIOUS
<1>1. machine.has_token \in BOOLEAN /\ machine.waiting \in BOOLEAN /\ monitor.paused \in BOOLEAN
  BY DEF Types
<1>2. todo \in Lists /\ todo # <<>> /\ todo' = Tail(todo)
  BY Fields
<1>3. (machine.waiting => machine.has_token)'
  BY <1>1, <1>2, Fields, Progress DEF ControlInv, Goes
<1>4. (Place(todo) \in {"resting", "noting", "sending", "waiting", "holding", "ending", "watching",
                         "relaying"}
         => monitor.paused = machine.has_token)'
  <2>1. CASE Head(todo) = "refresh"
    <3>1. (machine.has_token \/ machine.waiting) = machine.has_token
      BY <1>1 DEF ControlInv
    <3>2. monitor'.paused = machine.has_token /\ machine'.has_token = machine.has_token
      BY <2>1, <3>1, Fields
    <3>3. QED
      BY <3>2
  <2>2. CASE Head(todo) # "refresh"
    <3>1. monitor'.paused = monitor.paused
      BY <2>2, Fields
    <3>2. QED
      BY <1>1, <1>2, <2>2, <3>1, Fields, Progress DEF ControlInv, Goes
  <2>3. QED
    BY <2>1, <2>2
<1>5. (Place(todo) \in {"sending", "waiting", "taken", "holding", "ending", "relaying"}
         => machine.has_token)'
  BY <1>1, <1>2, Fields, Progress DEF ControlInv, Goes
<1>6. (Place(todo) \in {"given", "watching"} => ~machine.has_token)'
  BY <1>1, <1>2, Fields, Progress DEF ControlInv, Goes
<1>7. (Place(todo) = "waiting" => machine.waiting)'
  BY <1>1, <1>2, Fields, Progress DEF ControlInv, Goes
<1>8. (Place(todo) \in {"taking", "taken", "holding", "passing", "given", "watching", "counting"}
         => ~machine.waiting)'
  BY <1>1, <1>2, Fields, Progress DEF ControlInv, Goes
<1>9. (Place(todo) = "counting" => machine.is_controller)'
  BY <1>2, Progress DEF Goes
<1>10. QED
  BY <1>3, <1>4, <1>5, <1>6, <1>7, <1>8, <1>9 DEF ControlInv

\* No other step than a statement and the taking of an event moves the engine.
LEMMA Still ==
  ASSUME Types, [Next]_vars, ~TakeEvent, ~Execute
  PROVE  todo' = todo /\ machine' = machine /\ monitor'.paused = monitor.paused
<1>1. DOMAIN monitor = {"silence", "paused", "enabled"}
  BY DEF Types
<1>2. QED
  BY <1>1 DEF Next, System, vars, RxToken, RxData, PostRx, ForwardTimer, ReturnTimer, Wake, Decide,
              OnTimeout, CmdSend, SmallerEnters, SmallerExpires, LoseToken, LoseData, Tick, NoteActivity

\* No step makes the invariant of the control false.
LEMMA ControlStep == Types /\ ControlInv /\ [Next]_vars => ControlInv'
<1> SUFFICES ASSUME Types, ControlInv, [Next]_vars PROVE ControlInv'
  OBVIOUS
<1>1. CASE TakeEvent
  <2>1. /\ todo = <<>> /\ bus \in Seq(Events) /\ bus # <<>>
        /\ \E nak \in BOOLEAN : todo' = Handler(Head(bus), nak)
        /\ machine' = machine /\ monitor' = monitor
    BY <1>1 DEF TakeEvent, Types
  <2>2. Head(bus) \in Events /\ Place(todo) = "resting"
    BY <2>1, Taken, Places
  <2>3. QED
    BY <2>1, <2>2, Handlers DEF ControlInv, Events, RxEvents
<1>2. CASE Execute
  BY <1>2, ControlExecute
<1>3. CASE ~TakeEvent /\ ~Execute
  BY <1>3, Still DEF ControlInv
<1>4. QED
  BY <1>1, <1>2, <1>3

\* The control agrees with the statements left of the handler, always.
THEOREM MonitorInvariant == Spec => []MonitorInv
<1>1. Init => MonitorInv
  BY TypesFirst, ControlFirst DEF MonitorInv
<1>2. MonitorInv /\ [Next]_vars => MonitorInv'
  BY TypesStep, ControlStep DEF MonitorInv
<1>3. QED
  BY <1>1, <1>2, PTL DEF Spec

\* The machine, the monitor and the timers keep their types, and a machine
\* that waits for its DATA has the token.
THEOREM MonitorTypes == Spec => []TypeOK
<1>1. MonitorInv => TypeOK
  BY DEF MonitorInv, Types, ControlInv, TypeOK
<1>2. QED
  BY <1>1, MonitorInvariant, PTL

-----------------------------------------------------------------------------
\* One timeout at a time

\* Nothing is declared and nothing is late.
LEMMA LagFirst == Init => LagInv
<1> SUFFICES ASSUME Init PROVE LagInv
  OBVIOUS
<1>1. Place(todo) = "resting"
  BY Places DEF Init
<1>2. ~Has(bus, "MON_TOKEN_TIMEOUT") /\ Once(bus, "MON_TOKEN_TIMEOUT")
  BY NothingPosted DEF Init, Events
<1>3. QED
  BY <1>1, <1>2 DEF Init, LagInv, Pending

\* What a tick does to the lag and to the silence.
LEMMA Ticks ==
  ASSUME Types, Tick
  PROVE  /\ Due => lag' = lag + 1
         /\ ~Due => lag' = 0
         /\ monitor'.silence \in Nat /\ monitor'.silence <= monitor.silence + 1
         /\ monitor'.paused = monitor.paused
         /\ thread'.at = thread.at
         /\ thread.at # "sleep" => thread'.since = thread.since + 1
         /\ timer'.forward = Down(timer.forward)
         /\ ring'.data = Older(ring.data, MaxRound)
         /\ ring'.tokens = [i \in DOMAIN ring.tokens |-> Older(ring.tokens[i], MaxRound)]
         /\ UNCHANGED <<machine, todo, bus, rx, budget>>
<1>1. DOMAIN monitor = {"silence", "paused", "enabled"} /\ DOMAIN thread = {"at", "nap", "since"}
  BY DEF Types
<1>2. monitor.silence \in Nat
  BY DEF Types
<1>3. /\ Older(monitor.silence, TokenTimeout + MaxLag + 1) \in Nat
      /\ Older(monitor.silence, TokenTimeout + MaxLag + 1) <= monitor.silence + 1
  BY <1>2, Durations DEF Older, Off
<1>4. monitor'.silence = Older(monitor.silence, TokenTimeout + MaxLag + 1)
  BY <1>1 DEF Tick
<1>5. monitor'.paused = monitor.paused
  BY <1>1 DEF Tick
<1>6. thread'.at = thread.at /\ (thread.at # "sleep" => thread'.since = thread.since + 1)
  BY <1>1 DEF Tick
<1>7. QED
  BY <1>3, <1>4, <1>5, <1>6 DEF Tick

\* The steps that do not concern the thread, the monitor's event or the window.
LEMMA LagStill ==
  ASSUME LagInv, lag' = lag, thread' = thread,
         monitor'.silence = monitor.silence \/ monitor'.silence = 0, lag \in Nat,
         Has(bus', "MON_TOKEN_TIMEOUT") => Has(bus, "MON_TOKEN_TIMEOUT"),
         Once(bus', "MON_TOKEN_TIMEOUT"),
         Place(todo') = "counting" => Place(todo) = "counting" \/ Pending
  PROVE  LagInv'
  BY DEF LagInv, Pending

\* No step makes the invariant of the window false.
LEMMA LagStep == ASSUME LagFits PROVE Types /\ LagInv /\ [Next]_vars => LagInv'
<1> SUFFICES ASSUME Types, LagInv, [Next]_vars PROVE LagInv'
  OBVIOUS
<1>1. /\ lag \in Nat /\ lag <= MaxLag /\ monitor.silence \in Nat /\ thread.since \in Nat
      /\ DOMAIN monitor = {"silence", "paused", "enabled"} /\ DOMAIN thread = {"at", "nap", "since"}
      /\ bus \in Seq(Events)
  BY Durations DEF Types
<1>2. "MON_TOKEN_TIMEOUT" \in Events /\ RxEvents \subseteq Events \ {"MON_TOKEN_TIMEOUT"}
  BY DEF Events, RxEvents
<1>3. CASE RxToken
  BY <1>1, <1>3, LagStill DEF RxToken, NoteActivity, LagInv
<1>4. CASE RxData
  BY <1>1, <1>4, LagStill DEF RxData, NoteActivity, LagInv
<1>5. CASE PostRx
  <2>1. rx \in Events /\ rx # "MON_TOKEN_TIMEOUT" /\ bus' = Append(bus, rx)
    BY <1>2, <1>5 DEF PostRx, Posts, Types
  <2>2. /\ Has(bus', "MON_TOKEN_TIMEOUT") => Has(bus, "MON_TOKEN_TIMEOUT")
        /\ Once(bus', "MON_TOKEN_TIMEOUT")
    BY <1>1, <1>2, <2>1, Posted DEF LagInv
  <2>3. QED
    BY <1>1, <1>5, <2>2, LagStill DEF PostRx
<1>6. CASE TakeEvent
  <2>1. /\ bus # <<>> /\ bus' = Tail(bus) /\ \E nak \in BOOLEAN : todo' = Handler(Head(bus), nak)
        /\ lag' = lag /\ thread' = thread /\ monitor' = monitor
    BY <1>6 DEF TakeEvent
  <2>2. /\ Has(bus', "MON_TOKEN_TIMEOUT") => Has(bus, "MON_TOKEN_TIMEOUT")
        /\ Once(bus', "MON_TOKEN_TIMEOUT") /\ Head(bus) \in Events /\ Has(bus, Head(bus))
    BY <1>1, <1>2, <2>1, Taken DEF LagInv
  <2>3. Place(todo') = "counting" => Pending
    BY <2>1, <2>2, Handlers DEF Events, RxEvents, Pending
  <2>4. QED
    BY <1>1, <2>1, <2>2, <2>3, LagStill
<1>7. CASE Execute
  <2>1. /\ lag' = lag /\ thread' = thread /\ bus' = bus
        /\ monitor'.silence = monitor.silence \/ monitor'.silence = 0
    BY <1>7, Fields
  <2>2. Place(todo') # "counting"
    BY <1>7, Fields, Progress DEF Goes
  <2>3. QED
    BY <1>1, <2>1, <2>2, LagStill DEF LagInv
<1>8. CASE ForwardTimer
  <2>1. "TIMER_FORWARD_TOKEN" \in Events /\ bus' = Append(bus, "TIMER_FORWARD_TOKEN")
    BY <1>8 DEF ForwardTimer, Posts, Events
  <2>2. /\ Has(bus', "MON_TOKEN_TIMEOUT") => Has(bus, "MON_TOKEN_TIMEOUT")
        /\ Once(bus', "MON_TOKEN_TIMEOUT")
    BY <1>1, <1>2, <2>1, Posted DEF LagInv
  <2>3. QED
    BY <1>1, <1>8, <2>2, LagStill DEF ForwardTimer
<1>9. CASE ReturnTimer
  <2>1. "TIMER_DATA_RETURN_TIMEOUT" \in Events /\ bus' = Append(bus, "TIMER_DATA_RETURN_TIMEOUT")
    BY <1>9 DEF ReturnTimer, Posts, Events
  <2>2. /\ Has(bus', "MON_TOKEN_TIMEOUT") => Has(bus, "MON_TOKEN_TIMEOUT")
        /\ Once(bus', "MON_TOKEN_TIMEOUT")
    BY <1>1, <1>2, <2>1, Posted DEF LagInv
  <2>3. QED
    BY <1>1, <1>9, <2>2, LagStill DEF ReturnTimer
<1>10. CASE Wake
  BY <1>1, <1>10 DEF Wake, LagInv, Pending
<1>11. CASE Decide
  <2>1. /\ bus' = bus /\ todo' = todo /\ lag' = lag /\ thread.at = "awake"
    BY <1>11 DEF Decide
  <2>2. CASE Fires
    <3>1. thread'.at = "fire" /\ thread'.since = thread.since /\ monitor'.silence = thread.since
      BY <1>1, <1>11, <2>2 DEF Decide
    <3>2. monitor.silence > TokenTimeout
      BY <1>1, <2>2, Durations DEF Fires
    <3>3. ~Has(bus, "MON_TOKEN_TIMEOUT")
      BY <1>1, <3>2, Durations DEF LagInv, LagFits, Pending
    <3>4. QED
      BY <1>1, <2>1, <3>1, <3>3 DEF LagInv
  <2>3. CASE ~Fires
    <3>1. thread'.at = "sleep" /\ monitor' = monitor
      BY <1>11, <2>3 DEF Decide
    <3>2. QED
      BY <2>1, <3>1 DEF LagInv, Pending
  <2>4. QED
    BY <2>2, <2>3
<1>12. CASE OnTimeout
  <2>1. /\ thread.at = "fire" /\ bus' = Append(bus, "MON_TOKEN_TIMEOUT") /\ thread'.at = "sleep"
        /\ monitor' = monitor /\ todo' = todo /\ lag' = lag
    BY <1>12 DEF OnTimeout, Posts
  <2>2. Once(bus', "MON_TOKEN_TIMEOUT")
    BY <1>1, <1>2, <2>1, Posted DEF LagInv
  <2>3. QED
    BY <2>1, <2>2 DEF LagInv, Pending
<1>13. CASE Tick
  <2>1. (thread.at # "sleep" => thread.since <= lag)'
    <3>1. SUFFICES ASSUME thread.at # "sleep" PROVE thread'.since <= lag'
      BY <1>13, Ticks
    <3>2. Due
      BY <3>1 DEF Due
    <3>3. QED
      BY <1>1, <1>13, <3>1, <3>2, Ticks DEF LagInv
  <2>2. (Pending \/ Place(todo) = "counting" => monitor.silence <= lag)'
    <3>1. SUFFICES ASSUME Pending \/ Place(todo) = "counting" PROVE monitor'.silence <= lag'
      BY <1>13, Ticks DEF Pending
    <3>2. Place(<<>>) = "resting" /\ ~Has(<<>>, "MON_TOKEN_TIMEOUT")
      BY <1>2, Places, NothingPosted
    <3>3. Due
      BY <3>1, <3>2 DEF Due, Pending
    <3>4. QED
      BY <1>1, <1>13, <3>1, <3>3, Ticks DEF LagInv
  <2>3. QED
    BY <1>13, <2>1, <2>2, Ticks DEF LagInv
<1>14. CASE CmdSend
  <2>1. "CMD_SEND" \in Events /\ bus' = Append(bus, "CMD_SEND")
    BY <1>14 DEF CmdSend, Posts, Events
  <2>2. /\ Has(bus', "MON_TOKEN_TIMEOUT") => Has(bus, "MON_TOKEN_TIMEOUT")
        /\ Once(bus', "MON_TOKEN_TIMEOUT")
    BY <1>1, <1>2, <2>1, Posted DEF LagInv
  <2>3. QED
    BY <1>1, <1>14, <2>2, LagStill DEF CmdSend
<1>15. CASE SmallerEnters
  <2>1. "RX_HELLO" \in Events /\ bus' = Append(bus, "RX_HELLO")
    BY <1>15 DEF SmallerEnters, Posts, Events
  <2>2. /\ Has(bus', "MON_TOKEN_TIMEOUT") => Has(bus, "MON_TOKEN_TIMEOUT")
        /\ Once(bus', "MON_TOKEN_TIMEOUT")
    BY <1>1, <1>2, <2>1, Posted DEF LagInv
  <2>3. QED
    BY <1>1, <1>15, <2>2, LagStill DEF SmallerEnters
<1>16. CASE LoseToken
  BY <1>1, <1>16, LagStill DEF LoseToken, LagInv
<1>17. CASE LoseData
  BY <1>1, <1>17, LagStill DEF LoseData, LagInv
<1>18. CASE UNCHANGED vars
  BY <1>1, <1>18, LagStill DEF vars, LagInv
<1>19. CASE SmallerExpires
  <2>1. "DISCOVERY_TICK" \in Events /\ bus' = Append(bus, "DISCOVERY_TICK")
    BY <1>19 DEF SmallerExpires, Posts, Events
  <2>2. /\ Has(bus', "MON_TOKEN_TIMEOUT") => Has(bus, "MON_TOKEN_TIMEOUT")
        /\ Once(bus', "MON_TOKEN_TIMEOUT")
    BY <1>1, <1>2, <2>1, Posted DEF LagInv
  <2>3. QED
    BY <1>1, <1>19, <2>2, LagStill DEF SmallerExpires
<1>20. QED
  BY <1>3, <1>4, <1>5, <1>6, <1>7, <1>8, <1>9, <1>10, <1>11, <1>12, <1>13, <1>14, <1>15, <1>16,
     <1>17, <1>18, <1>19
     DEF Next, System

\* A timeout is declared when no other is to be handled, and the silence that
\* follows is no longer than the threads are late.
THEOREM LagInvariant == ASSUME LagFits PROVE Spec => []LagInv
<1>1. Init => LagInv
  BY LagFirst
<1>2. MonitorInv /\ LagInv /\ [Next]_vars => LagInv'
  BY LagStep DEF MonitorInv
<1>3. QED
  BY <1>1, <1>2, MonitorInvariant, PTL DEF Spec

\* If no thread is delayed for longer than the timeout, two timeouts of the
\* monitor are never pending.
THEOREM OneTimeout == ASSUME LagFits PROVE Spec => []OneTimeoutOnBus
<1>1. LagInv => OneTimeoutOnBus
  <2> SUFFICES ASSUME LagInv PROVE OneTimeoutOnBus
    OBVIOUS
  <2> DEFINE posted == {i \in DOMAIN bus : bus[i] = "MON_TOKEN_TIMEOUT"}
  <2>1. CASE posted = {}
    <3>1. Cardinality(posted) = 0
      BY <2>1, FS_EmptySet
    <3>2. QED
      BY <3>1 DEF OneTimeoutOnBus
  <2>2. CASE posted # {}
    <3>1. PICK i \in DOMAIN bus : bus[i] = "MON_TOKEN_TIMEOUT"
      BY <2>2
    <3>2. posted = {i}
      BY <3>1 DEF LagInv, Once
    <3>3. Cardinality(posted) = 1
      BY <3>2, FS_Singleton
    <3>4. thread.at # "fire"
      BY <3>1 DEF LagInv, Has
    <3>5. QED
      BY <3>3, <3>4 DEF OneTimeoutOnBus
  <2>3. QED
    BY <2>1, <2>2
<1>2. QED
  BY <1>1, LagInvariant, PTL

-----------------------------------------------------------------------------
\* No false alarm

AlarmFacts == OneToken /\ NoTokenWhilePending /\ SilenceInv /\ NoRelay

\* What the types say of what the invariants compare.
LEMMA Scalars ==
  ASSUME Types
  PROVE  /\ lag \in Nat /\ lag <= MaxLag
         /\ monitor.silence \in Nat /\ thread.since \in Nat
         /\ timer.forward \in Int /\ ring.data \in Int /\ ring.data <= MaxRound
         /\ ring.tokens \in Seq(0 .. MaxRound) /\ bus \in Seq(Events)
         /\ machine.has_token \in BOOLEAN /\ machine.waiting \in BOOLEAN
         /\ monitor.paused \in BOOLEAN
         /\ rx \in RxEvents \cup {Nothing} /\ todo \in Lists
  BY Durations DEF Types, Off

\* The token that is away arrives.
LEMMA OneAway ==
  ASSUME NEW q \in Seq(0 .. MaxRound), q # <<>>
  PROVE  /\ q[1] \in 0 .. MaxRound
         /\ Len(q) <= 1 => Tail(q) = <<>>
<1>1. Len(q) \in Nat \ {0} /\ q[1] \in 0 .. MaxRound
  <2>1. Len(q) \in Nat
    BY LenProperties
  <2>2. Len(q) # 0
    BY EmptySeq
  <2>3. 1 \in 1 .. Len(q)
    BY <2>1, <2>2
  <2>4. QED
    BY <2>1, <2>2, <2>3, ElementOfSeq
<1>2. Tail(q) \in Seq(0 .. MaxRound) /\ Len(Tail(q)) = Len(q) - 1
  BY HeadTailProperties
<1>3. Len(q) <= 1 => Tail(q) = <<>>
  BY <1>1, <1>2, EmptySeq
<1>4. QED
  BY <1>1, <1>3

\* The token is away, and nothing is overdue.
LEMMA AlarmFirst == Init => AlarmFacts
<1> SUFFICES ASSUME Init PROVE AlarmFacts
  OBVIOUS
<1>1. Place(todo) = "resting"
  BY Places DEF Init
<1>2. \A e \in Events : ~Has(bus, e) /\ Once(bus, e)
  BY NothingPosted DEF Init
<1>3. ring.tokens = <<0>> /\ Len(ring.tokens) = 1 /\ ring.tokens[1] = 0 /\ monitor.silence = 0
  BY DEF Init
<1>4. OneToken
  BY <1>1, <1>2, <1>3 DEF Init, OneToken, InHand, Nothing, Events, RxEvents
<1>5. NoTokenWhilePending
  BY <1>1, <1>2 DEF Init, NoTokenWhilePending, Pending, Events, RxEvents
<1>6. SilenceInv
  BY <1>1, <1>2, <1>3, Durations
     DEF Init, SilenceInv, ArrivedInv, AwayInv, ReleaseInv, HeldInv, ReturnInv, Fresh, Nothing,
         Events, RxEvents
<1>7. QED
  BY <1>1, <1>4, <1>5, <1>6 DEF AlarmFacts, NoRelay

\* The receiver notes a token: it is the only one, and the silence is over.
LEMMA AlarmRxToken == ASSUME TimeoutFits PROVE Types /\ AlarmFacts /\ RxToken => AlarmFacts'
<1> SUFFICES ASSUME Types, AlarmFacts, RxToken PROVE AlarmFacts'
  OBVIOUS
<1>1. /\ rx = Nothing /\ rx' = "RX_TOKEN" /\ ring.tokens # <<>> /\ ring'.tokens = Tail(ring.tokens)
      /\ ring'.data = ring.data /\ monitor'.silence = 0
      /\ UNCHANGED <<machine, thread, todo, bus, timer, lag, budget>>
  BY DEF RxToken, NoteActivity, Types
<1>2. ring'.tokens = <<>>
  BY <1>1, Scalars, OneAway DEF AlarmFacts, OneToken
<1>3. Len(ring'.tokens) = 0
  BY <1>2
<1>4. ~Has(bus, "RX_TOKEN") /\ ~InHand /\ Once(bus, "RX_TOKEN")
  BY <1>1 DEF AlarmFacts, OneToken
<1>5. ~Pending /\ Place(todo) # "counting"
  BY <1>1 DEF AlarmFacts, NoTokenWhilePending
<1>6. OneToken'
  <2>1. ~InHand'
    BY <1>1, <1>4 DEF InHand
  <2>2. Len(ring'.tokens) <= 1
    BY <1>3
  <2>3. Once(bus', "RX_TOKEN") /\ ~Has(bus', "RX_TOKEN")
    BY <1>1, <1>4
  <2>4. QED
    BY <1>2, <2>1, <2>2, <2>3 DEF OneToken
<1>7. NoTokenWhilePending'
  BY <1>1, <1>5 DEF NoTokenWhilePending, Pending
<1>8. SilenceInv'
  <2>1. Low' /\ High'
    BY <1>1, Scalars, Durations DEF Low, High, TimeoutFits
  <2>2. ArrivedInv' /\ ReleaseInv'
    BY <2>1 DEF ArrivedInv, ReleaseInv
  <2>3. AwayInv'
    BY <1>2 DEF AwayInv
  <2>4. HeldInv'
    BY SMTT(30), <1>1, Scalars, Durations DEF AlarmFacts, SilenceInv, HeldInv, InHand
  <2>5. ReturnInv'
    BY <1>1, <2>1, Scalars, Durations DEF AlarmFacts, SilenceInv, ReturnInv, Fresh, Nothing
  <2>6. QED
    BY <2>2, <2>3, <2>4, <2>5 DEF SilenceInv
<1>9. QED
  BY <1>1, <1>6, <1>7, <1>8 DEF AlarmFacts, NoRelay

\* The receiver notes DATA.
LEMMA AlarmRxData == ASSUME TimeoutFits PROVE Types /\ AlarmFacts /\ RxData => AlarmFacts'
<1> SUFFICES ASSUME Types, AlarmFacts, RxData PROVE AlarmFacts'
  OBVIOUS
<1>1. /\ rx = Nothing /\ rx' = "RX_DATA" /\ ring'.tokens = ring.tokens /\ monitor'.silence = 0
      /\ UNCHANGED <<machine, thread, todo, bus, timer, lag, budget>>
  BY DEF RxData, NoteActivity, Types
<1>2. OneToken'
  BY <1>1 DEF AlarmFacts, OneToken, InHand
<1>3. NoTokenWhilePending'
  BY <1>1 DEF AlarmFacts, NoTokenWhilePending, Pending, InHand
<1>4. Low' /\ High'
  BY <1>1, Scalars, Durations DEF Low, High, TimeoutFits
<1>5. ArrivedInv' /\ ReleaseInv'
  BY <1>4 DEF ArrivedInv, ReleaseInv
<1>6. AwayInv'
  <2>1. ring.tokens # <<>> => Fresh(ring.tokens[1])'
    BY <1>1, Scalars, OneAway DEF Fresh
  <2>2. QED
    BY <1>1, <2>1 DEF AwayInv, Fresh
<1>7. HeldInv'
  BY SMTT(30), <1>1, Scalars, Durations DEF AlarmFacts, SilenceInv, HeldInv
<1>8. ReturnInv'
  BY <1>1, <1>4 DEF ReturnInv
<1>9. QED
  BY <1>1, <1>2, <1>3, <1>5, <1>6, <1>7, <1>8 DEF AlarmFacts, SilenceInv, NoRelay

\* A step that leaves the machine, what is away and the forward timer alone,
\* and what has been posted of the token, of DATA and of that timer.
LEMMA AlarmStill ==
  ASSUME Types, AlarmFacts,
         machine' = machine, todo' = todo, rx' = rx, lag' = lag,
         ring'.tokens = ring.tokens, ring'.data = ring.data, timer'.forward = timer.forward,
         monitor'.silence \in Nat, monitor'.silence <= monitor.silence,
         Once(bus', "RX_TOKEN"), Has(bus', "RX_TOKEN") => Has(bus, "RX_TOKEN"),
         Has(bus, "RX_DATA") => Has(bus', "RX_DATA"),
         Has(bus, "TIMER_FORWARD_TOKEN") => Has(bus', "TIMER_FORWARD_TOKEN"),
         Pending' => Pending
  PROVE  AlarmFacts'
<1>1. InHand' <=> InHand
  BY DEF InHand
<1>2. OneToken'
  BY <1>1 DEF AlarmFacts, OneToken
<1>3. NoTokenWhilePending'
  BY <1>1 DEF AlarmFacts, NoTokenWhilePending
<1>4. (Low => Low') /\ (High => High')
  BY Scalars, Durations DEF Low, High
<1>5. ArrivedInv' /\ ReleaseInv'
  BY <1>4 DEF AlarmFacts, SilenceInv, ArrivedInv, ReleaseInv
<1>6. ASSUME NEW age \in Int, Fresh(age)
      PROVE  monitor'.silence <= age \/ (age = MaxRound /\ monitor'.silence <= age + lag')
  BY <1>6, Scalars DEF Fresh
<1>7. AwayInv'
  <2>1. SUFFICES ASSUME ring.tokens # <<>>
                 PROVE  Fresh(ring.tokens[1])' \/ (Place(todo) = "noting" /\ High)'
    BY DEF AwayInv
  <2>2. ring.tokens[1] \in Int
    BY <2>1, Scalars, OneAway
  <2>3. Fresh(ring.tokens[1]) \/ (Place(todo) = "noting" /\ High)
    BY <2>1 DEF AlarmFacts, SilenceInv, AwayInv
  <2>4. QED
    BY <1>4, <1>6, <2>2, <2>3 DEF Fresh
<1>8. HeldInv'
  BY SMTT(30), Scalars, Durations DEF AlarmFacts, SilenceInv, HeldInv
<1>9. ReturnInv'
  <2>1. SUFFICES ASSUME Place(todo) \in {"resting", "noting"}, machine.waiting
                 PROVE  \/ ring'.data # Off /\ (Fresh(ring.data)' \/ Place(todo') = "noting")
                        \/ (rx' = "RX_DATA" \/ Has(bus', "RX_DATA")) /\ Low'
    BY DEF ReturnInv
  <2>2. \/ ring.data # Off /\ (Fresh(ring.data) \/ Place(todo) = "noting")
        \/ (rx = "RX_DATA" \/ Has(bus, "RX_DATA")) /\ Low
    BY <2>1 DEF AlarmFacts, SilenceInv, ReturnInv
  <2>3. QED
    BY <1>4, <1>6, <2>2, Scalars DEF Fresh
<1>10. QED
  BY <1>2, <1>3, <1>5, <1>7, <1>8, <1>9 DEF AlarmFacts, SilenceInv, NoRelay

\* The receiver posts what it has noted.
LEMMA AlarmPostRx == Types /\ AlarmFacts /\ PostRx => AlarmFacts'
<1> SUFFICES ASSUME Types, AlarmFacts, PostRx PROVE AlarmFacts'
  OBVIOUS
<1>1. /\ rx \in RxEvents /\ rx \in Events /\ rx' = Nothing /\ bus' = Append(bus, rx)
      /\ UNCHANGED <<machine, monitor, thread, todo, timer, ring, lag, budget>>
  BY DEF PostRx, Posts, Types, Events
<1>2. /\ Has(bus', rx)
      /\ \A f \in Events : f # rx => (Has(bus', f) <=> Has(bus, f))
      /\ \A f \in Events : f # rx /\ Once(bus, f) => Once(bus', f)
      /\ ~Has(bus, rx) => Once(bus', rx)
  BY <1>1, Scalars, Posted
<1>3. rx = "RX_TOKEN" \/ rx = "RX_DATA"
  BY <1>1 DEF RxEvents
<1>4. {"RX_TOKEN", "RX_DATA", "MON_TOKEN_TIMEOUT", "TIMER_FORWARD_TOKEN"} \subseteq Events
  BY DEF Events, RxEvents
<1>5. (InHand' <=> InHand) /\ (Pending' <=> Pending)
  BY <1>1, <1>2, <1>3, <1>4 DEF InHand, Pending
<1>6. OneToken'
  BY <1>1, <1>2, <1>3, <1>4, <1>5 DEF AlarmFacts, OneToken, Nothing
<1>7. NoTokenWhilePending'
  BY <1>1, <1>2, <1>3, <1>4, <1>5 DEF AlarmFacts, NoTokenWhilePending, Nothing
<1>8. (Low' <=> Low) /\ (High' <=> High)
  BY <1>1 DEF Low, High
<1>9. ArrivedInv'
  BY <1>1, <1>2, <1>3, <1>4, <1>8 DEF AlarmFacts, SilenceInv, ArrivedInv, Nothing
<1>10. AwayInv' /\ ReleaseInv'
  BY <1>1 DEF AlarmFacts, SilenceInv, AwayInv, ReleaseInv, Fresh, Low, High
<1>11. HeldInv'
  BY <1>1, <1>2, <1>3, <1>4 DEF AlarmFacts, SilenceInv, HeldInv
<1>12. ReturnInv'
  <2>1. rx = "RX_DATA" \/ Has(bus, "RX_DATA") => Has(bus', "RX_DATA")
    BY <1>2, <1>3, <1>4
  <2>2. QED
    BY <1>1, <1>8, <2>1 DEF AlarmFacts, SilenceInv, ReturnInv, Fresh
<1>13. QED
  BY <1>1, <1>6, <1>7, <1>9, <1>10, <1>11, <1>12 DEF AlarmFacts, SilenceInv, NoRelay

\* The forward timer posts its event.
LEMMA AlarmForwardTimer == Types /\ AlarmFacts /\ ForwardTimer => AlarmFacts'
<1> SUFFICES ASSUME Types, AlarmFacts, ForwardTimer PROVE AlarmFacts'
  OBVIOUS
<1> DEFINE e == "TIMER_FORWARD_TOKEN"
<1>1. /\ timer.forward = 0 /\ timer'.forward = Off /\ bus' = Append(bus, e)
      /\ UNCHANGED <<machine, monitor, thread, todo, rx, ring, lag, budget>>
  BY DEF ForwardTimer, Posts, Types
<1>2. e \in Events /\ {"RX_TOKEN", "RX_DATA", "MON_TOKEN_TIMEOUT"} \subseteq Events \ {e}
  BY DEF Events, RxEvents
<1>3. /\ Has(bus', e)
      /\ \A f \in Events : f # e => (Has(bus', f) <=> Has(bus, f))
      /\ \A f \in Events : f # e /\ Once(bus, f) => Once(bus', f)
  BY <1>1, <1>2, Scalars, Posted
<1>4. (InHand' <=> InHand) /\ (Pending' <=> Pending)
  BY <1>1, <1>2, <1>3 DEF InHand, Pending
<1>5. OneToken'
  BY <1>1, <1>2, <1>3, <1>4 DEF AlarmFacts, OneToken
<1>6. NoTokenWhilePending'
  BY <1>1, <1>2, <1>3, <1>4 DEF AlarmFacts, NoTokenWhilePending
<1>7. ArrivedInv' /\ AwayInv' /\ ReleaseInv' /\ ReturnInv'
  BY <1>1, <1>2, <1>3
     DEF AlarmFacts, SilenceInv, ArrivedInv, AwayInv, ReleaseInv, ReturnInv, Fresh, Low, High
<1>8. HeldInv'
  BY <1>1, <1>3 DEF AlarmFacts, SilenceInv, HeldInv
<1>9. QED
  BY <1>1, <1>5, <1>6, <1>7, <1>8 DEF AlarmFacts, SilenceInv, NoRelay

\* The thread declares a timeout only when there is no token.
LEMMA AlarmDecide ==
  ASSUME TimeoutFits
  PROVE  Types /\ ControlInv /\ LagInv /\ AlarmFacts /\ Decide => AlarmFacts'
<1> SUFFICES ASSUME Types, ControlInv, LagInv, AlarmFacts, Decide PROVE AlarmFacts'
  OBVIOUS
<1>1. /\ thread.at = "awake"
      /\ UNCHANGED <<machine, todo, bus, rx, timer, ring, lag, budget>>
  BY DEF Decide
<1>2. CASE ~Fires
  <2>1. thread'.at = "sleep" /\ monitor' = monitor
    BY <1>2 DEF Decide
  <2>2. Pending' => Pending
    BY <1>1, <2>1 DEF Pending
  <2>3. QED
    BY <1>1, <2>1, <2>2, Scalars, AlarmStill DEF AlarmFacts, OneToken
<1>3. CASE Fires
  <2>1. thread'.at = "fire" /\ monitor'.silence = thread.since
    BY <1>3 DEF Decide, Types
  <2>2. ~monitor.paused /\ monitor.silence > TokenTimeout /\ thread.since < monitor.silence
    BY <1>3, Scalars, Durations DEF Fires
  <2>3. ~Low /\ ~High
    BY <2>2, Scalars, Durations DEF Low, High, TimeoutFits
  <2>4. ASSUME NEW age \in Int, age <= MaxRound
        PROVE  ~Fresh(age)
    BY <2>2, <2>4, Scalars, Durations DEF Fresh, TimeoutFits
  <2>5. /\ rx # "RX_TOKEN" /\ ~Has(bus, "RX_TOKEN")
        /\ Place(todo) \notin {"taking", "taken", "holding", "ending", "passing", "given", "watching"}
    BY <2>3 DEF AlarmFacts, SilenceInv, ArrivedInv, ReleaseInv
  <2>6. ring.tokens = <<>>
    <3>1. SUFFICES ASSUME ring.tokens # <<>> PROVE FALSE
      OBVIOUS
    <3>2. ring.tokens[1] \in 0 .. MaxRound
      BY <3>1, Scalars, OneAway
    <3>3. ~Fresh(ring.tokens[1])
      BY <2>4, <3>2, Durations
    <3>4. QED
      BY <2>3, <3>1, <3>3 DEF AlarmFacts, SilenceInv, AwayInv
  <2>7. Place(todo) # "counting"
    BY <2>3 DEF LagInv, Low
  <2>8. Place(todo) \in {"resting", "noting", "sending", "waiting"}
    BY <2>5, <2>7 DEF AlarmFacts, NoRelay, Place
  <2>9. ~machine.has_token
    BY <2>2, <2>8 DEF ControlInv
  <2>10. ~InHand'
    BY <1>1, <2>5, <2>9 DEF InHand
  <2>11. OneToken'
    BY <1>1, <2>10 DEF AlarmFacts, OneToken
  <2>12. NoTokenWhilePending'
    BY <1>1, <2>5, <2>6, <2>7, <2>10 DEF NoTokenWhilePending
  <2>13. ArrivedInv' /\ AwayInv' /\ ReleaseInv'
    BY <1>1, <2>5, <2>6 DEF ArrivedInv, AwayInv, ReleaseInv
  <2>14. HeldInv' /\ ReturnInv'
    BY <1>1, <2>9 DEF HeldInv, ReturnInv, ControlInv
  <2>15. QED
    BY <1>1, <2>11, <2>12, <2>13, <2>14 DEF AlarmFacts, SilenceInv, NoRelay
<1>4. QED
  BY <1>2, <1>3

\* The thread posts the timeout it has declared.
LEMMA AlarmOnTimeout == Types /\ AlarmFacts /\ OnTimeout => AlarmFacts'
<1> SUFFICES ASSUME Types, AlarmFacts, OnTimeout PROVE AlarmFacts'
  OBVIOUS
<1> DEFINE e == "MON_TOKEN_TIMEOUT"
<1>1. /\ thread.at = "fire" /\ bus' = Append(bus, e)
      /\ UNCHANGED <<machine, monitor, todo, rx, timer, ring, lag, budget>>
  BY DEF OnTimeout, Posts
<1>2. e \in Events /\ {"RX_TOKEN", "RX_DATA", "TIMER_FORWARD_TOKEN"} \subseteq Events \ {e}
  BY DEF Events, RxEvents
<1>3. /\ \A f \in Events : f # e => (Has(bus', f) <=> Has(bus, f))
      /\ \A f \in Events : f # e /\ Once(bus, f) => Once(bus', f)
  BY <1>1, <1>2, Scalars, Posted
<1>4. Pending
  BY <1>1 DEF Pending
<1>5. QED
  BY <1>1, <1>2, <1>3, <1>4, Scalars, AlarmStill DEF AlarmFacts, OneToken

\* What else is posted does not concern the token.
LEMMA AlarmOthers ==
  ASSUME Types, AlarmFacts,
         ReturnTimer \/ Wake \/ CmdSend \/ SmallerEnters \/ SmallerExpires \/ UNCHANGED vars
  PROVE  AlarmFacts'
<1>1. Once(bus, "RX_TOKEN")
  BY DEF AlarmFacts, OneToken
<1>2. CASE Wake \/ UNCHANGED vars
  BY <1>1, <1>2, Scalars, AlarmStill DEF Wake, vars, Pending
<1>3. ASSUME NEW e \in {"TIMER_DATA_RETURN_TIMEOUT", "CMD_SEND", "RX_HELLO", "DISCOVERY_TICK"},
             bus' = Append(bus, e)
      PROVE  /\ Once(bus', "RX_TOKEN") /\ (Has(bus', "RX_TOKEN") <=> Has(bus, "RX_TOKEN"))
             /\ Has(bus', "RX_DATA") <=> Has(bus, "RX_DATA")
             /\ Has(bus', "TIMER_FORWARD_TOKEN") <=> Has(bus, "TIMER_FORWARD_TOKEN")
             /\ Has(bus', "MON_TOKEN_TIMEOUT") <=> Has(bus, "MON_TOKEN_TIMEOUT")
  <2>1. /\ e \in Events
        /\ {"RX_TOKEN", "RX_DATA", "TIMER_FORWARD_TOKEN", "MON_TOKEN_TIMEOUT"} \subseteq Events \ {e}
    BY DEF Events, RxEvents
  <2>2. QED
    BY <1>1, <1>3, <2>1, Scalars, Posted
<1>4. CASE ReturnTimer
  <2>1. /\ bus' = Append(bus, "TIMER_DATA_RETURN_TIMEOUT") /\ timer'.forward = timer.forward
        /\ UNCHANGED <<machine, monitor, thread, todo, rx, ring, lag, budget>>
    BY <1>4 DEF ReturnTimer, Posts, Types
  <2>2. Pending' => Pending
    BY <1>3, <2>1 DEF Pending
  <2>3. QED
    BY <1>3, <2>1, <2>2, Scalars, AlarmStill
<1>5. CASE CmdSend
  <2>1. /\ bus' = Append(bus, "CMD_SEND")
        /\ UNCHANGED <<machine, monitor, thread, todo, rx, timer, ring, lag>>
    BY <1>5 DEF CmdSend, Posts
  <2>2. Pending' => Pending
    BY <1>3, <2>1 DEF Pending
  <2>3. QED
    BY <1>3, <2>1, <2>2, Scalars, AlarmStill
<1>6. CASE SmallerEnters
  <2>1. /\ bus' = Append(bus, "RX_HELLO")
        /\ UNCHANGED <<machine, monitor, thread, todo, rx, timer, ring, lag>>
    BY <1>6 DEF SmallerEnters, Posts
  <2>2. Pending' => Pending
    BY <1>3, <2>1 DEF Pending
  <2>3. QED
    BY <1>3, <2>1, <2>2, Scalars, AlarmStill
<1>7. CASE SmallerExpires
  <2>1. /\ bus' = Append(bus, "DISCOVERY_TICK")
        /\ UNCHANGED <<machine, monitor, thread, todo, rx, timer, ring, lag>>
    BY <1>7 DEF SmallerExpires, Posts
  <2>2. Pending' => Pending
    BY <1>3, <2>1 DEF Pending
  <2>3. QED
    BY <1>3, <2>1, <2>2, Scalars, AlarmStill
<1>8. QED
  BY <1>2, <1>4, <1>5, <1>6, <1>7

\* The token that is away is lost.
LEMMA AlarmLoseToken == Types /\ AlarmFacts /\ LoseToken => AlarmFacts'
<1> SUFFICES ASSUME Types, AlarmFacts, LoseToken PROVE AlarmFacts'
  OBVIOUS
<1>1. /\ ring.tokens # <<>> /\ ring'.tokens = Tail(ring.tokens) /\ ring'.data = ring.data
      /\ UNCHANGED <<machine, monitor, thread, todo, bus, rx, timer, lag>>
  BY DEF LoseToken, Types
<1>2. ring'.tokens = <<>>
  BY <1>1, Scalars, OneAway DEF AlarmFacts, OneToken
<1>3. Len(ring'.tokens) = 0
  BY <1>2
<1>4. (InHand' <=> InHand) /\ (Pending' <=> Pending)
  BY <1>1 DEF InHand, Pending
<1>5. OneToken'
  <2>1. Len(ring'.tokens) <= 1
    BY <1>3
  <2>2. QED
    BY <1>1, <1>2, <1>4, <2>1 DEF AlarmFacts, OneToken
<1>6. NoTokenWhilePending'
  BY <1>1, <1>2, <1>4 DEF AlarmFacts, NoTokenWhilePending
<1>7. AwayInv'
  BY <1>2 DEF AwayInv
<1>8. ArrivedInv' /\ ReleaseInv' /\ HeldInv' /\ ReturnInv'
  BY <1>1
     DEF AlarmFacts, SilenceInv, ArrivedInv, ReleaseInv, HeldInv, ReturnInv, Fresh, Low, High
<1>9. QED
  BY <1>1, <1>5, <1>6, <1>7, <1>8 DEF AlarmFacts, SilenceInv, NoRelay

\* An event is handled: the token is taken, held on to or released, or its
\* loss is counted when there is none.
LEMMA AlarmTakeEvent ==
  ASSUME TimeoutFits
  PROVE  Types /\ ControlInv /\ LagInv /\ AlarmFacts /\ TakeEvent => AlarmFacts'
<1> SUFFICES ASSUME Types, ControlInv, LagInv, AlarmFacts, TakeEvent PROVE AlarmFacts'
  OBVIOUS
<1> DEFINE e == Head(bus)
<1>1. /\ todo = <<>> /\ bus # <<>> /\ bus' = Tail(bus)
      /\ \E nak \in BOOLEAN : todo' = Handler(e, nak)
      /\ UNCHANGED <<machine, monitor, thread, rx, timer, ring, lag, budget>>
  BY DEF TakeEvent
<1>2. /\ e \in Events /\ Has(bus, e)
      /\ \A f \in Events : Has(bus', f) => Has(bus, f)
      /\ \A f \in Events : f # e /\ Has(bus, f) => Has(bus', f)
      /\ \A f \in Events : Once(bus, f) => Once(bus', f)
      /\ Once(bus, e) => ~Has(bus', e)
  BY <1>1, Scalars, Taken
<1> HIDE DEF e
<1>3. Place(todo) = "resting"
  BY <1>1, Places
<1>4. {"RX_TOKEN", "RX_DATA", "MON_TOKEN_TIMEOUT", "TIMER_FORWARD_TOKEN"} \subseteq Events
  BY DEF Events, RxEvents
<1>5. /\ Pending' => Pending
      /\ e = "MON_TOKEN_TIMEOUT" => Pending /\ ~Pending'
  BY <1>1, <1>2, <1>4 DEF Pending, LagInv
<1>6. e = "RX_TOKEN" => ~machine.has_token
  BY <1>2 DEF AlarmFacts, OneToken, InHand
<1>7. Place(todo') \in {"noting", "resting", "taking", "ending", "sending", "passing", "counting"}
  BY <1>1, <1>2, <1>6, Handlers DEF Events, RxEvents
<1>8. /\ Place(todo') = "taking" => e = "RX_TOKEN" /\ ~machine.has_token
      /\ Place(todo') = "passing" => e = "TIMER_FORWARD_TOKEN" /\ machine.has_token /\ ~machine.waiting
      /\ Place(todo') = "ending" => machine.waiting
      /\ Place(todo') = "counting" => e = "MON_TOKEN_TIMEOUT" /\ ~machine.has_token
      /\ Place(todo') \in {"resting", "noting"} /\ e = "RX_TOKEN" => machine.has_token
      /\ Place(todo') \in {"resting", "noting"} /\ e = "RX_DATA" => ~machine.waiting
      /\ Place(todo') \in {"resting", "noting"} /\ e = "TIMER_FORWARD_TOKEN" =>
           ~(machine.has_token /\ ~machine.waiting)
  BY <1>1, <1>2, Handlers DEF Events, RxEvents
<1>9. InHand' => InHand \/ e = "RX_TOKEN"
  BY <1>1, <1>7, <1>8 DEF InHand
<1>10. OneToken'
  BY <1>1, <1>2, <1>4, <1>9 DEF AlarmFacts, OneToken
<1>11. NoTokenWhilePending'
  <2>1. Pending' \/ Place(todo') = "counting" => Pending
    BY <1>5, <1>8
  <2>2. Pending => e # "RX_TOKEN"
    BY <1>2 DEF AlarmFacts, NoTokenWhilePending
  <2>3. Pending' => Place(todo') # "counting"
    BY <1>5, <1>8
  <2>4. QED
    BY <1>1, <1>2, <1>4, <1>9, <2>1, <2>2, <2>3 DEF AlarmFacts, NoTokenWhilePending
<1>12. (Low' <=> Low) /\ (High' <=> High)
  BY <1>1 DEF Low, High
<1>13. ArrivedInv'
  BY <1>1, <1>2, <1>4, <1>7, <1>8, <1>12 DEF AlarmFacts, SilenceInv, ArrivedInv
<1>14. AwayInv'
  BY <1>1, <1>3 DEF AlarmFacts, SilenceInv, AwayInv, Fresh
<1>15. ReleaseInv'
  <2>1. ASSUME Place(todo') = "passing"
        PROVE  High
    <3>1. \/ timer.forward > 0 /\ monitor.silence + timer.forward <= TokenTime + MaxLag
          \/ monitor.silence <= TokenTime + MaxLag + lag
      BY <1>3, <1>8, <2>1 DEF AlarmFacts, SilenceInv, HeldInv
    <3>2. QED
      BY SMTT(30), <3>1, Scalars, Durations DEF High, TimeoutFits
  <2>2. ASSUME Place(todo') = "ending"
        PROVE  High
    <3>1. Fresh(ring.data) \/ Low
      BY <1>3, <1>8, <2>2 DEF AlarmFacts, SilenceInv, ReturnInv
    <3>2. QED
      BY <3>1, Scalars, Durations DEF Fresh, Low, High, TimeoutFits
  <2>3. QED
    BY <1>7, <1>12, <2>1, <2>2 DEF ReleaseInv
<1>16. HeldInv'
  BY <1>1, <1>2, <1>3, <1>4, <1>8 DEF AlarmFacts, SilenceInv, HeldInv
<1>17. ReturnInv'
  BY <1>1, <1>2, <1>3, <1>4, <1>8, <1>12 DEF AlarmFacts, SilenceInv, ReturnInv, Fresh
<1>18. QED
  BY <1>7, <1>10, <1>11, <1>13, <1>14, <1>15, <1>16, <1>17 DEF AlarmFacts, SilenceInv, NoRelay

\* A statement of a handler.
LEMMA AlarmExecute ==
  ASSUME TimeoutFits
  PROVE  Types /\ ControlInv /\ LagInv /\ AlarmFacts /\ Execute => AlarmFacts'
<1> SUFFICES ASSUME Types, ControlInv, LagInv, AlarmFacts, Execute PROVE AlarmFacts'
  OBVIOUS
<1>1. todo \in Lists /\ todo # <<>> /\ todo' = Tail(todo) /\ UNCHANGED <<thread, bus, rx, lag>>
  BY Fields
<1>2. Pending' <=> Pending
  BY <1>1 DEF Pending
<1>3. InHand' => InHand \/ Place(todo) = "counting"
  BY <1>1, Fields, Progress, Scalars DEF InHand, Goes, ControlInv
<1>4. CASE Head(todo) = "send_token"
  <2>1. Place(todo) = "watching" /\ Place(todo') = "noting"
    BY <1>1, <1>4, Progress DEF AlarmFacts, NoRelay, Goes
  <2>2. InHand /\ ~machine.has_token /\ ~machine.waiting
    BY <2>1 DEF InHand, ControlInv
  <2>3. ~machine'.has_token /\ ~machine'.waiting /\ monitor'.silence = monitor.silence
    BY <1>4, <2>2, Fields
  <2>4. ring.tokens = <<>> /\ rx # "RX_TOKEN" /\ ~Has(bus, "RX_TOKEN") /\ ~Pending
    BY <2>2 DEF AlarmFacts, OneToken, NoTokenWhilePending
  <2>5. Len(ring'.tokens) = 1
    <3>1. ring'.tokens = Append(ring.tokens, 0)
      BY <1>4, Fields
    <3>2. Len(ring.tokens) = 0
      BY <2>4
    <3>3. 0 \in 0 .. MaxRound
      BY Durations
    <3>4. QED
      BY <3>1, <3>2, <3>3, Scalars, AppendProperties
  <2>6. OneToken'
    BY <1>1, <2>1, <2>3, <2>4, <2>5 DEF AlarmFacts, OneToken, InHand
  <2>7. NoTokenWhilePending'
    BY <1>2, <2>1, <2>4 DEF NoTokenWhilePending
  <2>8. High'
    BY <1>1, <2>1, <2>3 DEF AlarmFacts, SilenceInv, ReleaseInv, High
  <2>9. SilenceInv'
    BY <1>1, <2>1, <2>3, <2>4, <2>8
       DEF SilenceInv, ArrivedInv, AwayInv, ReleaseInv, HeldInv, ReturnInv
  <2>10. QED
    BY <2>1, <2>6, <2>7, <2>9 DEF AlarmFacts, NoRelay
<1>5. CASE Head(todo) # "send_token"
  <2>1. ring'.tokens = ring.tokens /\ monitor'.silence \in Nat /\ monitor'.silence <= monitor.silence
    BY <1>5, Fields, Scalars
  <2>2. (Low => Low') /\ (High => High') /\ (Low => High)
    BY SMTT(30), <1>1, <2>1, Scalars, Durations DEF Low, High, TimeoutFits
  <2>3. Place(todo) = "counting" => ~InHand /\ ~Pending /\ Low
    BY DEF AlarmFacts, NoTokenWhilePending, LagInv, Low
  <2>4. OneToken'
    BY <1>1, <1>3, <2>1 DEF AlarmFacts, OneToken, NoTokenWhilePending
  <2>5. NoTokenWhilePending'
    <3>1. Place(todo') # "counting"
      BY <1>1, Progress DEF Goes
    <3>2. Pending => ~InHand'
      BY <1>3, <2>3 DEF AlarmFacts, NoTokenWhilePending
    <3>3. QED
      BY <1>1, <1>2, <2>1, <3>1, <3>2 DEF AlarmFacts, NoTokenWhilePending
  <2>6. ArrivedInv'
    <3>1. Place(todo') \in {"taking", "taken", "holding"} => Place(todo) \in {"taking", "taken", "holding"}
      BY <1>1, Progress DEF Goes
    <3>2. QED
      BY <1>1, <2>2, <3>1 DEF AlarmFacts, SilenceInv, ArrivedInv
  <2>7. AwayInv'
    <3>1. SUFFICES ASSUME ring.tokens # <<>> PROVE Fresh(ring.tokens[1])'
      BY <2>1 DEF AwayInv
    <3>2. ring.tokens[1] \in 0 .. MaxRound
      BY <3>1, Scalars, OneAway
    <3>3. CASE Place(todo) = "noting"
      <4>1. monitor'.silence = 0
        BY <1>1, <3>3, Fields, Progress DEF Goes
      <4>2. QED
        BY <2>1, <3>2, <4>1 DEF Fresh
    <3>4. CASE Place(todo) # "noting"
      <4>1. Fresh(ring.tokens[1])
        BY <3>1, <3>4 DEF AlarmFacts, SilenceInv, AwayInv
      <4>2. QED
        BY SMTT(30), <1>1, <2>1, <3>2, <4>1, Scalars DEF Fresh
    <3>5. QED
      BY <3>3, <3>4
  <2>8. ReleaseInv'
    <3>1. Place(todo') \in {"ending", "passing", "given", "watching"} =>
            Place(todo) \in {"ending", "passing", "given", "watching", "counting"}
      BY <1>1, Progress DEF Goes
    <3>2. QED
      BY <2>2, <2>3, <3>1 DEF AlarmFacts, SilenceInv, ReleaseInv
  <2>9. HeldInv'
    <3>1. SUFFICES ASSUME Place(todo') \in {"resting", "noting"}, machine'.has_token, ~machine'.waiting
                   PROVE  \/ timer'.forward > 0 /\ monitor'.silence + timer'.forward <= TokenTime + MaxLag
                          \/ /\ timer'.forward = 0 \/ Has(bus, "TIMER_FORWARD_TOKEN")
                             /\ monitor'.silence <= TokenTime + MaxLag + lag
      BY <1>1 DEF HeldInv
    <3>2. CASE Place(todo) = "holding"
      <4>1. Low /\ timer'.forward = TokenTime
        BY <1>1, <3>2, Fields, Progress DEF AlarmFacts, SilenceInv, ArrivedInv, Goes
      <4>2. QED
        BY <2>1, <4>1, Scalars, Durations DEF Low
    <3>3. CASE Place(todo) # "holding"
      <4>1. Place(todo) \in {"resting", "noting"} /\ machine.has_token /\ ~machine.waiting
        BY <1>1, <1>5, <3>1, <3>3, Fields, Progress DEF Goes, ControlInv
      <4>2. timer'.forward = timer.forward
        BY <1>1, <3>3, Fields, Progress DEF Goes
      <4>3. QED
        BY SMTT(30), <2>1, <4>1, <4>2, Scalars, Durations DEF AlarmFacts, SilenceInv, HeldInv
    <3>4. QED
      BY <3>2, <3>3
  <2>10. ReturnInv'
    <3>1. SUFFICES ASSUME Place(todo') \in {"resting", "noting"}, machine'.waiting
                   PROVE  \/ ring'.data # Off /\ (Fresh(ring.data)' \/ Place(todo') = "noting")
                          \/ (rx = "RX_DATA" \/ Has(bus, "RX_DATA")) /\ Low'
      BY <1>1 DEF ReturnInv
    <3>2. CASE Head(todo) = "send_data"
      <4>1. ring'.data = 0 /\ Place(todo') = "noting"
        BY <1>1, <3>2, Fields, Progress DEF Goes
      <4>2. QED
        BY <4>1 DEF Off
    <3>3. CASE Head(todo) # "send_data"
      <4>1. ring'.data = ring.data
        BY <3>3, Fields
      <4>2. Place(todo) \in {"resting", "noting"} /\ machine.waiting
        BY <1>1, <1>5, <3>1, <3>3, Fields, Progress DEF Goes, ControlInv
      <4>3. CASE Place(todo) = "noting"
        <5>1. monitor'.silence = 0
          BY <1>1, <4>3, Fields, Progress DEF Goes
        <5>2. ring.data # Off => ring.data >= 0
          BY DEF Types, Off
        <5>3. QED
          BY <2>2, <4>1, <4>2, <5>1, <5>2, Scalars DEF AlarmFacts, SilenceInv, ReturnInv, Fresh
      <4>4. CASE Place(todo) # "noting"
        BY <1>1, <2>1, <2>2, <4>1, <4>2, <4>4, Scalars DEF AlarmFacts, SilenceInv, ReturnInv, Fresh
      <4>5. QED
        BY <4>3, <4>4
    <3>4. QED
      BY <3>2, <3>3
  <2>11. NoRelay'
    BY <1>1, Progress DEF AlarmFacts, NoRelay, Goes
  <2>12. QED
    BY <2>4, <2>5, <2>6, <2>7, <2>8, <2>9, <2>10, <2>11 DEF AlarmFacts, SilenceInv
<1>6. QED
  BY <1>4, <1>5

\* Time goes on only when no thread is too late.
LEMMA AlarmTick ==
  ASSUME TimeoutFits
  PROVE  Types /\ AlarmFacts /\ Tick => AlarmFacts'
<1> SUFFICES ASSUME Types, AlarmFacts, Tick PROVE AlarmFacts'
  OBVIOUS
<1>1. /\ Due => lag' = lag + 1
      /\ monitor'.silence \in Nat /\ monitor'.silence <= monitor.silence + 1
      /\ thread'.at = thread.at
      /\ timer'.forward = Down(timer.forward) /\ ring'.data = Older(ring.data, MaxRound)
      /\ UNCHANGED <<machine, todo, bus, rx>>
  BY Ticks
<1>2. lag' \in Nat
  BY Scalars, Durations DEF Tick
<1>3. ring'.tokens = [i \in DOMAIN ring.tokens |-> Older(ring.tokens[i], MaxRound)]
  BY Ticks
<1>4. /\ ring'.tokens \in Seq(0 .. MaxRound) /\ Len(ring'.tokens) = Len(ring.tokens)
      /\ \A i \in DOMAIN ring.tokens : ring'.tokens[i] = Older(ring.tokens[i], MaxRound)
  BY <1>3, Scalars, Ages
<1>5. ring'.tokens = <<>> <=> ring.tokens = <<>>
  BY <1>4, Scalars, EmptySeq
<1>6. Place(todo) \notin {"resting"} \/ Has(bus, "RX_TOKEN") \/ Has(bus, "RX_DATA")
        \/ Has(bus, "TIMER_FORWARD_TOKEN") \/ rx # Nothing => Due
  <2>1. Place(<<>>) = "resting"
    BY Places
  <2>2. \A f \in Events : ~Has(<<>>, f)
    BY NothingPosted
  <2>3. QED
    BY <2>1, <2>2 DEF Due, Events, RxEvents
<1>7. Due => (Low => Low') /\ (High => High')
  BY SMTT(30), <1>1, <1>2, Scalars, Durations DEF Low, High
<1>8. ASSUME NEW age \in 0 .. MaxRound, Fresh(age), age >= MaxRound => Due
      PROVE  LET old == Older(age, MaxRound)
             IN  monitor'.silence <= old \/ (old = MaxRound /\ monitor'.silence <= old + lag')
  <2>1. CASE age < MaxRound
    <3>1. Older(age, MaxRound) = age + 1
      BY <2>1, Durations DEF Older, Off
    <3>2. monitor.silence <= age
      BY <1>8, <2>1, Durations DEF Fresh
    <3>3. QED
      BY <1>1, <3>1, <3>2, Scalars
  <2>2. CASE age >= MaxRound
    <3>1. Older(age, MaxRound) = age /\ age = MaxRound
      BY <2>2, Durations DEF Older
    <3>2. monitor.silence <= age + lag
      BY <1>8, Scalars, Durations DEF Fresh
    <3>3. lag' = lag + 1
      BY <1>1, <1>8, <2>2
    <3>4. QED
      BY SMTT(30), <1>1, <3>1, <3>2, <3>3, Scalars, Durations
  <2>3. QED
    BY <2>1, <2>2, Durations
<1>9. (InHand' <=> InHand) /\ (Pending' <=> Pending)
  BY <1>1 DEF InHand, Pending
<1>10. OneToken'
  BY <1>1, <1>4, <1>5, <1>9 DEF AlarmFacts, OneToken
<1>11. NoTokenWhilePending'
  BY <1>1, <1>5, <1>9 DEF AlarmFacts, NoTokenWhilePending
<1>12. ArrivedInv' /\ ReleaseInv'
  BY <1>1, <1>6, <1>7 DEF AlarmFacts, SilenceInv, ArrivedInv, ReleaseInv, Nothing
<1>13. AwayInv'
  <2>1. SUFFICES ASSUME ring.tokens # <<>>
                 PROVE  Fresh(ring.tokens[1])' \/ (Place(todo) = "noting" /\ High)'
    BY <1>5 DEF AwayInv
  <2>2. ring.tokens[1] \in 0 .. MaxRound /\ 1 \in DOMAIN ring.tokens
    BY <2>1, Scalars, OneAway, EmptySeq, LenProperties
  <2>3. ring'.tokens[1] = Older(ring.tokens[1], MaxRound)
    BY <1>4, <2>2
  <2>4. CASE Fresh(ring.tokens[1])
    <3>1. ring.tokens[1] >= MaxRound => Due
      BY <2>1 DEF Due
    <3>2. QED
      BY <1>8, <2>2, <2>3, <2>4, <3>1 DEF Fresh
  <2>5. CASE Place(todo) = "noting" /\ High
    BY <1>1, <1>6, <1>7, <2>5
  <2>6. QED
    BY <2>1, <2>4, <2>5 DEF AlarmFacts, SilenceInv, AwayInv
<1>14. HeldInv'
  <2>1. SUFFICES ASSUME Place(todo) \in {"resting", "noting"}, machine.has_token, ~machine.waiting
                 PROVE  \/ timer'.forward > 0 /\ monitor'.silence + timer'.forward <= TokenTime + MaxLag
                        \/ /\ timer'.forward = 0 \/ Has(bus, "TIMER_FORWARD_TOKEN")
                           /\ monitor'.silence <= TokenTime + MaxLag + lag'
    BY <1>1 DEF HeldInv
  <2>2. CASE timer.forward > 0 /\ monitor.silence + timer.forward <= TokenTime + MaxLag
    <3>1. timer'.forward = timer.forward - 1
      BY <1>1, <2>2 DEF Down
    <3>2. monitor'.silence + timer'.forward <= TokenTime + MaxLag
      <4>1. /\ monitor'.silence \in Nat /\ monitor'.silence <= monitor.silence + 1
            /\ monitor.silence \in Nat /\ timer.forward \in Int
            /\ TokenTime \in Nat /\ MaxLag \in Nat
        BY <1>1, Scalars, Durations
      <4>2. QED
        BY <2>2, <3>1, <4>1
    <3>3. CASE timer.forward = 1
      <4>1. timer'.forward = 0 /\ monitor'.silence <= TokenTime + MaxLag + lag'
        BY <1>1, <1>2, <3>1, <3>2, <3>3, Scalars, Durations
      <4>2. QED
        BY <4>1
    <3>4. CASE timer.forward # 1
      <4>1. timer'.forward > 0
        BY <2>2, <3>1, <3>4, Scalars
      <4>2. QED
        BY <3>2, <4>1
    <3>5. QED
      BY <3>3, <3>4
  <2>3. CASE /\ timer.forward = 0 \/ Has(bus, "TIMER_FORWARD_TOKEN")
             /\ monitor.silence <= TokenTime + MaxLag + lag
    <3>1. lag' = lag + 1
      BY <1>1, <1>6, <2>3 DEF Due
    <3>2. timer.forward = 0 => timer'.forward = 0
      BY <1>1 DEF Down
    <3>3. QED
      BY SMTT(30), <1>1, <2>3, <3>1, <3>2, Scalars, Durations
  <2>4. QED
    BY <2>1, <2>2, <2>3 DEF AlarmFacts, SilenceInv, HeldInv
<1>15. ReturnInv'
  <2>1. SUFFICES ASSUME Place(todo) \in {"resting", "noting"}, machine.waiting
                 PROVE  \/ ring'.data # Off /\ (Fresh(ring.data)' \/ Place(todo) = "noting")
                        \/ (rx = "RX_DATA" \/ Has(bus, "RX_DATA")) /\ Low'
    BY <1>1 DEF ReturnInv
  <2>2. CASE ring.data # Off /\ (Fresh(ring.data) \/ Place(todo) = "noting")
    <3>1. ring.data \in 0 .. MaxRound
      BY <2>2 DEF Types
    <3>2. ring'.data # Off
      BY <1>1, <3>1, Durations DEF Older, Off
    <3>3. CASE Fresh(ring.data)
      <4>1. ring.data >= MaxRound => Due
        BY DEF Due
      <4>2. QED
        BY <1>1, <1>8, <3>1, <3>2, <3>3, <4>1 DEF Fresh
    <3>4. QED
      BY <2>2, <3>2, <3>3
  <2>3. CASE (rx = "RX_DATA" \/ Has(bus, "RX_DATA")) /\ Low
    BY <1>6, <1>7, <2>3 DEF Nothing
  <2>4. QED
    BY <2>1, <2>2, <2>3 DEF AlarmFacts, SilenceInv, ReturnInv
<1>16. QED
  BY <1>1, <1>10, <1>11, <1>12, <1>13, <1>14, <1>15 DEF AlarmFacts, SilenceInv, NoRelay

\* A DATA that is lost is lost.
LEMMA Losses ==
  ASSUME Types, [Next]_vars, Intact'
  PROVE  Intact /\ ~LoseData
<1>1. budget.data \in 0 .. MaxLoseData /\ DOMAIN budget = {"sends", "tokens", "data", "roles"}
  BY DEF Types
<1>2. ~LoseData
  BY <1>1, Durations DEF LoseData, Intact
<1>3. budget'.data = budget.data
  BY <1>1, <1>2
     DEF Next, System, vars, RxToken, RxData, PostRx, TakeEvent, Execute, ForwardTimer, ReturnTimer,
         Wake, Decide, OnTimeout, Tick, CmdSend, SmallerEnters, SmallerExpires, LoseToken
<1>4. QED
  BY <1>2, <1>3 DEF Intact

\* No step of the machine, of the network or of time makes the invariant false.
LEMMA AlarmStep ==
  ASSUME TimeoutFits
  PROVE  Types /\ ControlInv /\ LagInv /\ AlarmInv /\ [Next]_vars => AlarmInv'
<1> SUFFICES ASSUME Types, ControlInv, LagInv, AlarmInv, [Next]_vars, Intact' PROVE AlarmFacts'
  BY DEF AlarmInv, AlarmFacts
<1>1. AlarmFacts /\ ~LoseData
  BY Losses DEF AlarmInv, AlarmFacts
<1>2. QED
  BY <1>1, AlarmRxToken, AlarmRxData, AlarmPostRx, AlarmTakeEvent, AlarmExecute, AlarmForwardTimer,
     AlarmDecide, AlarmOnTimeout, AlarmTick, AlarmOthers, AlarmLoseToken
     DEF Next, System

\* As long as no DATA has been lost: there is one token at most, none once a
\* timeout is declared, and the silence is never longer than what explains it.
THEOREM AlarmInvariant == ASSUME TimeoutFits PROVE Spec => []AlarmInv
<1>1. LagFits
  BY Durations DEF LagFits, TimeoutFits
<1>2. Init => AlarmInv
  BY AlarmFirst DEF AlarmInv, AlarmFacts
<1>3. MonitorInv /\ LagInv /\ AlarmInv /\ [Next]_vars => AlarmInv'
  BY AlarmStep DEF MonitorInv
<1>4. Spec => []LagInv
  BY <1>1, LagInvariant
<1>5. QED
  BY <1>2, <1>3, <1>4, MonitorInvariant, PTL DEF Spec

\* If the timeout is longer than a token can be out of sight: only a controller
\* counts a token lost, and as long as no DATA has been lost none while there
\* is one.
THEOREM AlarmIsTrue == ASSUME TimeoutFits PROVE Spec => NoFalseAlarm
<1>1. ASSUME Types, ControlInv, AlarmInv, [Next]_vars,
             machine'.tokens_perdidos > machine.tokens_perdidos
      PROVE  machine.is_controller /\ (budget.data = MaxLoseData => ~TokenExists)
  <2>1. machine.tokens_perdidos \in Nat
    BY <1>1 DEF Types
  <2>2. Execute
    <3>1. SUFFICES ASSUME ~Execute PROVE machine' = machine
      BY <1>1, <2>1
    <3>2. QED
      BY <1>1, <3>1, Still DEF TakeEvent
  <2>3. Head(todo) = "count"
    BY <1>1, <2>1, <2>2, Fields
  <2>4. Place(todo) = "counting"
    BY <1>1, <2>2, <2>3, Fields, Progress DEF Goes
  <2>5. machine.is_controller
    BY <1>1, <2>4 DEF ControlInv
  <2>6. ASSUME budget.data = MaxLoseData
        PROVE  ~TokenExists
    <3>1. ring.tokens = <<>> /\ rx # "RX_TOKEN" /\ ~Has(bus, "RX_TOKEN") /\ ~machine.has_token
      BY <1>1, <2>4, <2>6 DEF AlarmInv, Intact, NoTokenWhilePending, InHand
    <3>2. QED
      BY <3>1 DEF TokenExists, Has
  <2>7. QED
    BY <2>5, <2>6
<1>2. Types /\ ControlInv /\ AlarmInv /\ [Next]_vars =>
        [machine'.tokens_perdidos > machine.tokens_perdidos =>
           machine.is_controller /\ (budget.data = MaxLoseData => ~TokenExists)]_vars
  BY <1>1
<1>3. QED
  BY <1>2, MonitorInvariant, AlarmInvariant, PTL DEF Spec, MonitorInv, NoFalseAlarm

=============================================================================
