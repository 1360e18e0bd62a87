------------------------- MODULE NodeHandlersProofs -------------------------
(***************************************************************************)
(* What the helpers and the handlers of Topology, NodeState, TokenLogic    *)
(* and NodeHandlers keep, for every machine and whatever module composes   *)
(* them.                                                                   *)
(*                                                                         *)
(* MachineInv relates the token a machine holds to the DATA it waits for,  *)
(* to its timers and to its ring.  Every helper has a lemma that says what *)
(* it returns, every handler one that says that it keeps MachineInv.       *)
(* Inside a handler parts of MachineInv are broken for a moment, so the    *)
(* lemmas about helpers assume less.                                       *)
(***************************************************************************)
EXTENDS NodeHandlers, SequenceTheorems, FiniteSetTheorems, WellFoundedInduction, TLAPS

-----------------------------------------------------------------------------
\* The ring: the smallest nickname and the successor

\* Ring.members() sorts a nonempty table: there is a smallest nickname.
LEMMA MinOfNaturals ==
  ASSUME NEW S \in SUBSET Nat, S # {}
  PROVE  /\ Min(S) \in S
         /\ \A y \in S : Min(S) <= y
<1> DEFINE lt == {p \in Nat \X Nat : p[1] < p[2]}
<1>1. IsWellFoundedOn(lt, Nat)
  BY NatLessThanWellFounded, Zenon DEF OpToRel
<1>2. PICK x \in S : \A y \in S : ~ (<<y, x>> \in lt)
  BY <1>1, WFMin
<1>3. \A y \in S : x <= y
  <2>1. TAKE y \in S
  <2>2. x \in Nat /\ y \in Nat
    OBVIOUS
  <2>3. y < x => <<y, x>> \in lt
    BY <2>2
  <2>4. ~ (y < x)
    BY <1>2, <2>3
  <2>5. QED
    BY <2>2, <2>4
<1>4. QED
  BY <1>3 DEF Min

\* Ring.successor answers with a member of the ring.
LEMMA SuccessorIsMember ==
  ASSUME NEW members \in SUBSET Nat, NEW me \in members
  PROVE  Successor(members, me) \in members
<1>1. After(members, me) \in SUBSET Nat /\ After(members, me) \subseteq members
  BY DEF After
<1>2. CASE After(members, me) # {}
  BY <1>1, <1>2, MinOfNaturals DEF Successor
<1>3. CASE After(members, me) = {}
  BY <1>3, MinOfNaturals DEF Successor
<1>4. QED
  BY <1>2, <1>3

\* Node._is_alone: a machine is its own successor exactly when it knows
\* nobody else.
LEMMA AloneIsSingleton ==
  ASSUME NEW members \in SUBSET Nat, NEW me \in members
  PROVE  IsAlone(members, me) <=> members = {me}
<1>1. After(members, me) \in SUBSET Nat
  BY DEF After
<1>2. CASE After(members, me) # {}
  <2>1. me < Successor(members, me)
    BY <1>1, <1>2, MinOfNaturals DEF Successor, After
  <2>2. members # {me}
    BY <1>2 DEF After
  <2>3. Successor(members, me) # me
    BY <2>1
  <2>4. QED
    BY <2>2, <2>3 DEF IsAlone
<1>3. CASE After(members, me) = {}
  <2>1. Successor(members, me) = Min(members)
    BY <1>3 DEF Successor
  <2>2. Min(members) \in members /\ \A y \in members : Min(members) <= y
    BY MinOfNaturals
  <2>3. \A y \in members : y <= me
    BY <1>3 DEF After
  <2>4. ASSUME Min(members) = me
        PROVE  members = {me}
    <3>1. \A y \in members : y = me
      <4>1. TAKE y \in members
      <4>2. y <= me /\ me <= y
        BY <2>2, <2>3, <2>4
      <4>3. y \in Nat /\ me \in Nat
        OBVIOUS
      <4>4. QED
        BY <4>2, <4>3
    <3>2. QED
      BY <3>1
  <2>5. members = {me} => Min(members) = me
    BY <2>2
  <2>6. QED
    BY <2>1, <2>4, <2>5 DEF IsAlone
<1>4. QED
  BY <1>2, <1>3

\* Ring.successor never answers the same member for two members: the
\* datagrams of one machine are never cut off by those of another.
THEOREM SuccessorInjective ==
  ASSUME NEW members \in SUBSET Nat, NEW a \in members, NEW b \in members,
         Successor(members, a) = Successor(members, b)
  PROVE  a = b
<1>1. \A m \in members : After(members, m) \in SUBSET Nat
  BY DEF After
<1>2. ASSUME NEW x \in members, NEW y \in members, x < y
      PROVE  Successor(members, x) # Successor(members, y)
  <2>1. y \in After(members, x)
    BY <1>2 DEF After
  <2>2. x < Successor(members, x) /\ Successor(members, x) <= y
    BY <1>1, <2>1, MinOfNaturals DEF Successor, After
  <2>3. CASE After(members, y) # {}
    <3>1. y < Successor(members, y)
      BY <1>1, <2>3, MinOfNaturals DEF Successor, After
    <3>2. Successor(members, y) \in members /\ Successor(members, x) \in members
      BY SuccessorIsMember
    <3>3. \A s, t \in Nat : s <= y /\ y < t => s # t
      OBVIOUS
    <3>4. QED
      BY <2>2, <3>1, <3>2, <3>3
  <2>4. CASE After(members, y) = {}
    <3>1. Successor(members, y) = Min(members)
      BY <2>4 DEF Successor
    <3>2. Min(members) \in members /\ Min(members) <= x
      BY MinOfNaturals
    <3>3. Successor(members, x) \in members
      BY SuccessorIsMember
    <3>4. Successor(members, y) <= x
      BY <3>1, <3>2
    <3>5. \A s, t \in Nat : t <= x /\ x < s => s # t
      OBVIOUS
    <3>6. Successor(members, y) \in members
      BY SuccessorIsMember
    <3>7. QED
      BY <2>2, <3>3, <3>4, <3>5, <3>6
  <2>5. QED
    BY <2>3, <2>4
<1>3. QED
  BY <1>2

\* Ring.successor is the next member in the order, or the first one after
\* the last.
LEMMA SuccessorCases ==
  ASSUME NEW members \in SUBSET Nat, NEW me \in members
  PROVE  \/ /\ me < Successor(members, me)
            /\ \A y \in members : me < y => Successor(members, me) <= y
         \/ \A y \in members : y <= me /\ Successor(members, me) <= y
<1>1. After(members, me) \in SUBSET Nat
  BY DEF After
<1>2. CASE After(members, me) # {}
  BY <1>1, <1>2, MinOfNaturals DEF Successor, After
<1>3. CASE After(members, me) = {}
  <2>1. \A y \in members : y <= me
    BY <1>3 DEF After
  <2>2. QED
    BY <1>3, <2>1, MinOfNaturals DEF Successor
<1>4. QED
  BY <1>2, <1>3

-----------------------------------------------------------------------------
\* Induction

\* Induction over the naturals, for a set of them.
LEMMA SetOfNaturals ==
  ASSUME NEW A \in SUBSET Nat, 0 \in A, \A n \in A : n + 1 \in A
  PROVE  A = Nat
<1>1. SUFFICES ASSUME Nat \ A # {} PROVE FALSE
  OBVIOUS
<1> DEFINE m == Min(Nat \ A)
<1>2. m \in Nat \ A /\ \A y \in Nat \ A : m <= y
  BY <1>1, MinOfNaturals
<1> HIDE DEF m
<1>3. m - 1 \in Nat /\ m - 1 < m
  BY <1>2
<1>4. m - 1 \in A
  BY <1>2, <1>3
<1>5. QED
  BY <1>2, <1>4

\* Induction over the subsets of a finite set, in the order in which a fold
\* takes their elements.
LEMMA SubsetInduction ==
  ASSUME NEW S, IsFiniteSet(S), NEW Q, {} \in Q,
         \A s \in SUBSET S : s # {} /\ s \ {CHOOSE x \in s : TRUE} \in Q => s \in Q
  PROVE  SUBSET S \subseteq Q
<1> DEFINE A == {n \in Nat : \A s \in SUBSET S : Cardinality(s) = n => s \in Q}
<1>1. \A s \in SUBSET S : IsFiniteSet(s)
  BY FS_Subset
<1>2. 0 \in A
  BY <1>1, FS_EmptySet
<1>3. ASSUME NEW n \in A
      PROVE  n + 1 \in A
  <2>1. SUFFICES ASSUME NEW s \in SUBSET S, Cardinality(s) = n + 1
                 PROVE  s \in Q
    OBVIOUS
  <2> DEFINE x == CHOOSE x \in s : TRUE
  <2>0. n \in Nat
    OBVIOUS
  <2>2. s # {}
    BY <2>0, <2>1, FS_EmptySet
  <2>3. x \in s
    BY <2>2
  <2> HIDE DEF x
  <2>4. Cardinality(s \ {x}) = Cardinality(s) - 1
    BY <1>1, <2>3, FS_RemoveElement
  <2>5. s \ {x} \in Q
    BY <2>0, <2>1, <2>4
  <2>6. QED
    BY <2>2, <2>5 DEF x
<1>4. A = Nat
  BY <1>2, <1>3, SetOfNaturals
<1>5. QED
  BY <1>1, <1>4, FS_CardinalityType

-----------------------------------------------------------------------------
\* The way round

\* Whether a datagram that goes round from `origin', and is on its way to
\* `at', has been at y.
Passed(origin, at, y) ==
  IF origin < at THEN origin < y /\ y < at ELSE origin < y \/ y < at

\* When it leaves, it has been at no member.
LEMMA PassedNobody ==
  ASSUME NEW members \in SUBSET Nat, NEW o \in members, NEW y \in members
  PROVE  ~Passed(o, Successor(members, o), y)
<1> DEFINE s == Successor(members, o)
<1>1. s \in members
  BY SuccessorIsMember
<1>2. \/ o < s /\ (o < y => s <= y)
      \/ y <= o /\ s <= y /\ s <= o
  BY SuccessorCases
<1> HIDE DEF s
<1>3. o \in Nat /\ y \in Nat /\ s \in Nat
  BY <1>1
<1>4. QED
  BY <1>2, <1>3 DEF Passed, s

\* A member that sends it on is all that is added.
LEMMA PassedOneMore ==
  ASSUME NEW members \in SUBSET Nat, NEW o \in members, NEW y \in members,
         NEW n \in members, n # o
  PROVE  Passed(o, Successor(members, n), y) <=> Passed(o, n, y) \/ y = n
<1> DEFINE s == Successor(members, n)
<1>1. s \in members
  BY SuccessorIsMember
<1>2. \/ n < s /\ (n < y => s <= y) /\ (n < o => s <= o)
      \/ y <= n /\ s <= y /\ o <= n /\ s <= o
  BY SuccessorCases
<1> HIDE DEF s
<1>3. o \in Nat /\ y \in Nat /\ s \in Nat /\ n \in Nat
  BY <1>1
<1>4. QED
  BY <1>2, <1>3 DEF Passed, s

\* When it is back, it has been at all the others.
LEMMA PassedOthers ==
  ASSUME NEW o \in Nat, NEW y \in Nat
  PROVE  Passed(o, o, y) <=> y # o
BY DEF Passed

\* ... and it has not been where it is on its way to, unless it is back.
LEMMA PassedNotHere ==
  ASSUME NEW o \in Nat, NEW n \in Nat, n # o
  PROVE  ~Passed(o, n, n)
BY DEF Passed

-----------------------------------------------------------------------------
\* The invariant of a machine

\* The machine knows itself and its role.
RoleInv(s) ==
  /\ s.apelido \in s.members
  /\ s.is_controller = IsController(s.members, s.apelido)
  /\ s.mon_enabled => s.is_controller /\ (s.first_token_generated \/ s.observed_activity)

\* Only the first message may be one to be retransmitted, without fault.
QueueInv(q) ==
  \A i \in DOMAIN q : q[i].retransmit_used => i = 1 /\ q[i].skip_fault_injection

\* A DATA that is out is the head of the queue, and its timeout is pending.
RoundInv(s) ==
  s.waiting =>
    /\ s.has_token
    /\ s.queue # <<>>
    /\ s.active_data_attempt # NoAttempt
    /\ s.active_data_attempt \in s.return_timers
    /\ s.active_data_fingerprint.destino = Head(s.queue).destino
    /\ s.active_data_fingerprint.crc = Head(s.queue).text
    /\ Head(s.queue).retransmit_used => ~s.active_data_fingerprint.message.flipped

\* A token that is held will be released.
TokenInv(s) ==
  /\ s.has_token => s.observed_activity
  /\ s.has_token /\ Alone(s) => s.segurando_sozinho
  /\ s.has_token /\ ~Alone(s) /\ ~s.waiting => s.forward_timers[s.epoch] > 0
  /\ s.has_token /\ s.remove_token_pending => s.waiting
  /\ s.mon_paused = s.has_token

MachineInv(s) ==
  s \in NodeStates /\ RoleInv(s) /\ QueueInv(s.queue) /\ RoundInv(s) /\ TokenInv(s)

\* How often the message at the head of the queue has been transmitted.
TriesOf(s) ==
  (IF s.waiting THEN 1 ELSE 0)
  + (IF s.queue # <<>> /\ Head(s.queue).retransmit_used THEN 1 ELSE 0)

\* What a handler that turns s into r must do to the history.
Counts(s, r) ==
  TriesOf(r) = (IF Len(r.queue) < Len(s.queue) THEN 0 ELSE TriesOf(s))
               + (r.data_attempt_seq - s.data_attempt_seq)

\* Handlers are compositions of EXCEPT on a record with these fields.
NodeFields ==
  {"apelido", "members", "member_last_seen", "is_controller", "has_token",
   "first_token_generated", "observed_activity", "epoch", "last_token_rx",
   "expect_token_return", "tokens_perdidos", "tokens_duplicados",
   "remove_token_pending", "waiting", "data_attempt_seq", "active_data_attempt",
   "active_data_fingerprint", "last_data_activity", "segurando_sozinho",
   "discovery_deferred", "queue", "forward_timers", "return_timers", "eval_armed",
   "eval_posted", "mon_enabled", "mon_paused", "mon_silence", "mon_posted", "out"}

\* The fields of every state.
LEMMA FieldsOf ==
  ASSUME NEW s \in NodeStates
  PROVE  DOMAIN s = NodeFields
BY DEF NodeStates, NodeFields

-----------------------------------------------------------------------------
\* What a helper leaves alone

SameRole(s, r) ==
  /\ r.apelido = s.apelido /\ r.members = s.members
  /\ r.is_controller = s.is_controller /\ r.mon_enabled = s.mon_enabled
  /\ r.first_token_generated = s.first_token_generated
  /\ r.observed_activity = s.observed_activity
SameToken(s, r) ==
  /\ r.has_token = s.has_token /\ r.remove_token_pending = s.remove_token_pending
  /\ r.epoch = s.epoch /\ r.forward_timers = s.forward_timers
  /\ r.segurando_sozinho = s.segurando_sozinho
SameRound(s, r) ==
  /\ r.waiting = s.waiting /\ r.data_attempt_seq = s.data_attempt_seq
  /\ r.active_data_attempt = s.active_data_attempt
  /\ r.active_data_fingerprint = s.active_data_fingerprint
  /\ r.return_timers = s.return_timers

\* Nothing the invariant speaks of changes.
Quiet(s, r) ==
  /\ r \in NodeStates
  /\ SameRole(s, r) /\ SameToken(s, r) /\ SameRound(s, r)
  /\ r.queue = s.queue /\ r.mon_paused = s.mon_paused

\* A step that changes nothing the invariant speaks of keeps it.
LEMMA QuietInv ==
  ASSUME NEW s, NEW r, MachineInv(s), Quiet(s, r)
  PROVE  MachineInv(r) /\ Counts(s, r)
<1>1. MachineInv(r)
  BY DEF MachineInv, RoleInv, QueueInv, RoundInv, TokenInv, Quiet, SameRole, SameToken,
         SameRound, Alone, IsController, IsAlone
<1>2. TriesOf(r) = TriesOf(s) /\ Len(r.queue) = Len(s.queue)
      /\ r.data_attempt_seq = s.data_attempt_seq
  BY DEF TriesOf, Quiet, SameRound
<1>3. TriesOf(s) \in Nat /\ s.data_attempt_seq \in Nat /\ Len(s.queue) \in Nat
  BY DEF MachineInv, NodeStates, TriesOf
<1>4. Counts(s, r)
  BY <1>2, <1>3 DEF Counts
<1>5. QED
  BY <1>1, <1>4

\* Two such steps in a row are one.
LEMMA QuietTrans ==
  ASSUME NEW s, NEW r, NEW t, Quiet(s, r), Quiet(r, t)
  PROVE  Quiet(s, t)
BY DEF Quiet, SameRole, SameToken, SameRound

-----------------------------------------------------------------------------
\* The helpers of NodeState

\* Nicknames are naturals, so the lemmas about the ring apply.
LEMMA MembersAreNaturals ==
  ASSUME NEW s \in NodeStates
  PROVE  s.members \in SUBSET Nat /\ s.members \in SUBSET Apelido /\ s.apelido \in Nat
BY ApelidoAssumption DEF NodeStates

\* What is sent to the successor is sent to a nickname.
LEMMA SuccessorType ==
  ASSUME NEW s \in NodeStates, s.apelido \in s.members
  PROVE  Successor(s.members, s.apelido) \in Apelido
BY SuccessorIsMember, MembersAreNaturals

\* _is_alone: a machine is alone when it is its only member.
LEMMA AloneMeans ==
  ASSUME NEW s \in NodeStates, s.apelido \in s.members
  PROVE  Alone(s) <=> s.members = {s.apelido}
BY AloneIsSingleton, MembersAreNaturals DEF Alone

\* The head of a queue is one of its items.
LEMMA HeadItem ==
  ASSUME NEW q \in Seq(Item), q # <<>>
  PROVE  Head(q) \in Item /\ Head(q) = q[1] /\ 1 \in DOMAIN q
OBVIOUS

\* TokenMonitor.note_activity only restarts the silence.
LEMMA NoteActivityQuiet ==
  ASSUME NEW s \in NodeStates
  PROVE  Quiet(s, NoteActivity(s))
BY DEF NoteActivity, Quiet, SameRole, SameToken, SameRound, NodeStates

\* _refresh_monitor_pause sets the pause and nothing else.
LEMMA RefreshMonitorPauseFacts ==
  ASSUME NEW s \in NodeStates
  PROVE  LET r == RefreshMonitorPause(s) IN
         /\ r \in NodeStates
         /\ SameRole(s, r) /\ SameToken(s, r) /\ SameRound(s, r)
         /\ r.queue = s.queue
         /\ r.mon_paused = (s.has_token \/ s.waiting)
BY DEF RefreshMonitorPause, SameRole, SameToken, SameRound, NodeStates

\* Sending changes only what has been sent.
LEMMA OutQuiet ==
  ASSUME NEW s \in NodeStates, NEW o \in Out
  PROVE  Quiet(s, [s EXCEPT !.out = o])
BY DEF Quiet, SameRole, SameToken, SameRound, NodeStates

\* Sending a token changes only what has been sent.
LEMMA SendTokenQuiet ==
  ASSUME NEW s \in NodeStates, s.apelido \in s.members
  PROVE  Quiet(s, SendToken(s))
<1> DEFINE o == [s.out EXCEPT !.token = @ \cup {Successor(s.members, s.apelido)}]
<1>1. s.out \in Out
  BY DEF NodeStates
<1>2. o \in Out
  BY <1>1, SuccessorType DEF Out
<1>3. SendToken(s) = [s EXCEPT !.out = o]
  BY DEF SendToken
<1>4. QED
  BY <1>2, <1>3, OutQuiet

\* Sending DATA changes only what has been sent.
LEMMA SendFrameQuiet ==
  ASSUME NEW s \in NodeStates, s.apelido \in s.members, NEW f \in Frame
  PROVE  Quiet(s, SendFrame(s, f))
<1> DEFINE d == [to |-> Successor(s.members, s.apelido), frame |-> f]
           o == [s.out EXCEPT !.data = @ \cup {d}]
<1>1. d \in [to : Apelido, frame : Frame]
  BY SuccessorType
<1>2. s.out \in Out
  BY DEF NodeStates
<1>3. SendFrame(s, f) = [s EXCEPT !.out = o]
  BY DEF SendFrame
<1> HIDE DEF d
<1>4. o \in Out
  BY <1>1, <1>2 DEF Out
<1>5. QED
  BY <1>3, <1>4, OutQuiet

\* Announcing changes only what has been sent.
LEMMA AnnounceQuiet ==
  ASSUME NEW s \in NodeStates, NEW tipo \in {"DISCOVER", "HELLO"}
  PROVE  Quiet(s, Announce(s, tipo))
<1> DEFINE P == {[to |-> m, tipo |-> tipo, apelido |-> s.apelido] : m \in Apelido \ {s.apelido}}
           o == [s.out EXCEPT !.presence = @ \cup P]
<1>1. P \subseteq [to : Apelido, tipo : {"DISCOVER", "HELLO"}, apelido : Apelido]
  BY DEF NodeStates
<1>2. s.out \in Out
  BY DEF NodeStates
<1>3. Announce(s, tipo) = [s EXCEPT !.out = o]
  BY DEF Announce
<1> HIDE DEF P
<1>4. o \in Out
  BY <1>1, <1>2 DEF Out
<1>5. QED
  BY <1>3, <1>4, OutQuiet

\* The item that leaves and those that stay.
LEMMA TailItems ==
  ASSUME NEW q \in Seq(Item), q # <<>>, QueueInv(q)
  PROVE  /\ Tail(q) \in Seq(Item) /\ QueueInv(Tail(q)) /\ Len(Tail(q)) = Len(q) - 1
         /\ Tail(q) # <<>> => ~Head(Tail(q)).retransmit_used
<1>1. /\ Tail(q) \in Seq(Item)
      /\ Len(Tail(q)) = Len(q) - 1
      /\ \A i \in 1 .. Len(Tail(q)) : Tail(q)[i] = q[i + 1]
  BY HeadTailProperties
<1>2. \A i \in 1 .. Len(Tail(q)) : ~Tail(q)[i].retransmit_used
  BY <1>1 DEF QueueInv
<1>3. QueueInv(Tail(q))
  BY <1>1, <1>2 DEF QueueInv
<1>4. Tail(q) # <<>> => ~Head(Tail(q)).retransmit_used
  BY <1>1, <1>2, HeadItem
<1>5. QED
  BY <1>1, <1>3, <1>4

\* _drop_head: the next message, if any, has never been transmitted.
LEMMA DropHeadFacts ==
  ASSUME NEW s \in NodeStates, QueueInv(s.queue)
  PROVE  LET r == DropHead(s) IN
         /\ r \in NodeStates
         /\ SameRole(s, r) /\ SameToken(s, r) /\ SameRound(s, r)
         /\ r.mon_paused = s.mon_paused
         /\ QueueInv(r.queue)
         /\ s.queue = <<>> => r.queue = <<>>
         /\ s.queue # <<>> => Len(r.queue) = Len(s.queue) - 1
         /\ r.queue # <<>> => ~Head(r.queue).retransmit_used
<1> DEFINE q == IF s.queue = <<>> THEN <<>> ELSE Tail(s.queue)
<1>1. s.queue \in Seq(Item)
  BY DEF NodeStates
<1>2. /\ q \in Seq(Item)
      /\ QueueInv(q)
      /\ s.queue # <<>> => Len(q) = Len(s.queue) - 1
      /\ q # <<>> => ~Head(q).retransmit_used
  <2>1. CASE s.queue = <<>>
    BY <1>1, <2>1 DEF QueueInv
  <2>2. CASE s.queue # <<>>
    BY <1>1, <2>2, TailItems
  <2>3. QED
    BY <2>1, <2>2
<1>3. s.queue = <<>> => q = <<>>
  OBVIOUS
<1>4. DropHead(s) = [s EXCEPT !.queue = q]
  BY DEF DropHead
<1> HIDE DEF q
<1>5. [s EXCEPT !.queue = q] \in NodeStates
  BY <1>2 DEF NodeStates
<1>6. /\ SameRole(s, [s EXCEPT !.queue = q]) /\ SameToken(s, [s EXCEPT !.queue = q])
      /\ SameRound(s, [s EXCEPT !.queue = q])
      /\ [s EXCEPT !.queue = q].mon_paused = s.mon_paused
      /\ [s EXCEPT !.queue = q].queue = q
  BY DEF SameRole, SameToken, SameRound, NodeStates
<1>7. QED
  BY <1>2, <1>3, <1>4, <1>5, <1>6

\* _recompute_role puts role and monitor in step with the members.
LEMMA RecomputeRoleFacts ==
  ASSUME NEW s \in NodeStates, s.apelido \in s.members
  PROVE  LET r == RecomputeRole(s) IN
         /\ r \in NodeStates /\ RoleInv(r)
         /\ r.apelido = s.apelido /\ r.members = s.members
         /\ r.first_token_generated = s.first_token_generated
         /\ r.observed_activity = s.observed_activity
         /\ r.has_token = s.has_token /\ r.remove_token_pending = s.remove_token_pending
         /\ r.epoch = s.epoch /\ r.forward_timers = s.forward_timers
         /\ r.segurando_sozinho = (s.segurando_sozinho /\ (Alone(s) \/ s.has_token))
         /\ SameRound(s, r)
         /\ r.queue = s.queue /\ r.mon_paused = s.mon_paused
<1> DEFINE ctrl == IsController(s.members, s.apelido)
           t == [s EXCEPT !.last_token_rx = NoInstant, !.expect_token_return = FALSE]
           u == IF ctrl /\ ~s.is_controller THEN NoteActivity(t) ELSE s
<1>1. ctrl \in BOOLEAN /\ (Alone(s) \/ s.has_token) \in BOOLEAN
  BY DEF IsController, Alone, IsAlone, NodeStates
<1>2. t \in NodeStates /\ Quiet(s, t)
  BY DEF NoInstant, Quiet, SameRole, SameToken, SameRound, NodeStates
<1>3. u \in NodeStates /\ Quiet(s, u)
  <2> HIDE DEF t
  <2>1. Quiet(s, s)
    BY DEF Quiet, SameRole, SameToken, SameRound
  <2>2. Quiet(s, NoteActivity(t))
    BY <1>2, NoteActivityQuiet, QuietTrans
  <2>3. Quiet(s, u)
    BY <2>1, <2>2
  <2>4. QED
    BY <2>3 DEF Quiet
<1> DEFINE mon == ctrl /\ (s.first_token_generated \/ s.observed_activity)
           seg == s.segurando_sozinho /\ (Alone(s) \/ s.has_token)
           r == [u EXCEPT !.is_controller = ctrl, !.mon_enabled = mon, !.segurando_sozinho = seg]
<1>4. RecomputeRole(s) = r
  <2>1. u.segurando_sozinho = s.segurando_sozinho
    BY <1>3 DEF Quiet, SameToken
  <2>2. QED
    BY <2>1 DEF RecomputeRole
<1>5. mon \in BOOLEAN /\ seg \in BOOLEAN
  BY DEF NodeStates
<1> HIDE DEF ctrl, u, mon, seg
<1>6. r \in NodeStates
  BY <1>1, <1>3, <1>5 DEF NodeStates
<1>7. /\ r.apelido = u.apelido /\ r.members = u.members
      /\ r.is_controller = ctrl /\ r.mon_enabled = mon /\ r.segurando_sozinho = seg
      /\ r.first_token_generated = u.first_token_generated
      /\ r.observed_activity = u.observed_activity
      /\ r.has_token = u.has_token /\ r.remove_token_pending = u.remove_token_pending
      /\ r.epoch = u.epoch /\ r.forward_timers = u.forward_timers
      /\ SameRound(u, r)
      /\ r.queue = u.queue /\ r.mon_paused = u.mon_paused
  BY <1>3 DEF SameRound, NodeStates
<1> HIDE DEF r
<1>8. /\ r.apelido = s.apelido /\ r.members = s.members
      /\ r.first_token_generated = s.first_token_generated
      /\ r.observed_activity = s.observed_activity
      /\ r.has_token = s.has_token /\ r.remove_token_pending = s.remove_token_pending
      /\ r.epoch = s.epoch /\ r.forward_timers = s.forward_timers
      /\ SameRound(s, r)
      /\ r.queue = s.queue /\ r.mon_paused = s.mon_paused
  BY <1>3, <1>7 DEF Quiet, SameRole, SameToken, SameRound
<1>9. RoleInv(r)
  BY <1>7, <1>8 DEF RoleInv, mon, ctrl
<1>10. QED
  BY <1>4, <1>6, <1>7, <1>8, <1>9 DEF seg

\* _forward_token lets the token go, unless the machine is alone.
LEMMA ForwardTokenFacts ==
  ASSUME NEW s \in NodeStates, s.apelido \in s.members
  PROVE  LET r == ForwardToken(s) IN
         /\ r \in NodeStates /\ SameRole(s, r) /\ SameRound(s, r)
         /\ r.remove_token_pending = s.remove_token_pending
         /\ r.epoch = s.epoch /\ r.forward_timers = s.forward_timers
         /\ r.segurando_sozinho = s.segurando_sozinho
         /\ r.queue = s.queue
         /\ Alone(s) => r.has_token = s.has_token /\ r.mon_paused = s.mon_paused
         /\ ~Alone(s) => r.has_token = FALSE /\ r.mon_paused = s.waiting
<1> DEFINE t == [s EXCEPT !.has_token = FALSE]
           u == RefreshMonitorPause(t)
<1>1. CASE Alone(s)
  BY <1>1 DEF ForwardToken, SameRole, SameRound
<1>2. CASE ~Alone(s)
  <2>1. /\ t \in NodeStates /\ SameRole(s, t) /\ SameRound(s, t)
        /\ t.remove_token_pending = s.remove_token_pending
        /\ t.epoch = s.epoch /\ t.forward_timers = s.forward_timers
        /\ t.segurando_sozinho = s.segurando_sozinho
        /\ t.queue = s.queue /\ t.has_token = FALSE
    BY DEF SameRole, SameRound, NodeStates
  <2> HIDE DEF t
  <2>2. /\ u \in NodeStates /\ SameRole(t, u) /\ SameToken(t, u) /\ SameRound(t, u)
        /\ u.queue = t.queue /\ u.mon_paused = (t.has_token \/ t.waiting)
    BY <2>1, RefreshMonitorPauseFacts
  <2>3. u.mon_paused = s.waiting
    BY <2>1, <2>2 DEF SameRound, NodeStates
  <2> HIDE DEF u
  <2>4. Quiet(u, SendToken(u))
    BY <2>1, <2>2, SendTokenQuiet DEF SameRole
  <2>5. Quiet(SendToken(u), NoteActivity(SendToken(u)))
    BY <2>4, NoteActivityQuiet DEF Quiet
  <2>6. Quiet(u, NoteActivity(SendToken(u)))
    BY <2>4, <2>5, QuietTrans
  <2>7. ForwardToken(s) = NoteActivity(SendToken(u))
    BY <1>2 DEF ForwardToken, u, t
  <2>8. QED
    BY <1>2, <2>1, <2>2, <2>3, <2>6, <2>7 DEF Quiet, SameRole, SameToken, SameRound
<1>3. QED
  BY <1>1, <1>2

\* _send_data_packet: what a machine remembers of the DATA it sends.
LEMMA SendDataPacketFacts ==
  ASSUME NEW s \in NodeStates, s.apelido \in s.members, NEW hit \in BOOLEAN,
         s.queue # <<>>, QueueInv(s.queue)
  PROVE  LET r == SendDataPacket(s, hit) IN
         /\ r \in NodeStates /\ SameRole(s, r) /\ SameToken(s, r)
         /\ r.queue = s.queue
         /\ r.mon_paused = TRUE
         /\ r.waiting = TRUE
         /\ r.data_attempt_seq = s.data_attempt_seq + 1
         /\ r.active_data_attempt = s.data_attempt_seq + 1
         /\ r.active_data_attempt \in r.return_timers
         /\ r.active_data_fingerprint \in Fingerprint
         /\ r.active_data_fingerprint.destino = Head(s.queue).destino
         /\ r.active_data_fingerprint.crc = Head(s.queue).text
         /\ Head(s.queue).retransmit_used => ~r.active_data_fingerprint.message.flipped
<1> DEFINE item == Head(s.queue)
           attempt == s.data_attempt_seq + 1
           body == MaybeCorrupt(item.text, hit,
                     item.skip_fault_injection \/ item.destino = BROADCAST)
           frame == [origem |-> s.apelido, destino |-> item.destino, controle |-> CTRL_NONE,
                     crc |-> item.text, message |-> body, no |-> item.no]
           fp == FingerprintOf(frame)
           t == [s EXCEPT !.waiting = TRUE,
                          !.data_attempt_seq = attempt,
                          !.active_data_attempt = attempt,
                          !.active_data_fingerprint = fp,
                          !.last_data_activity = 0,
                          !.return_timers = @ \cup {attempt}]
           u == RefreshMonitorPause(t)
           v == SendFrame(u, frame)
<1>1. item \in Item /\ (item.retransmit_used => item.skip_fault_injection)
  BY HeadItem DEF QueueInv, NodeStates
<1>2. attempt \in Nat
  BY DEF NodeStates
<1> HIDE DEF item, attempt
<1>3. body \in Content /\ (item.retransmit_used => ~body.flipped)
  BY <1>1 DEF MaybeCorrupt, Content, Item
<1> HIDE DEF body
<1>4. frame \in Frame
  BY <1>1, <1>3 DEF Frame, Controle, CTRL_NONE, NodeStates, Item
<1>5. fp \in Fingerprint /\ fp.destino = item.destino /\ fp.crc = item.text /\ fp.message = body
  BY <1>1, <1>3 DEF FingerprintOf, Fingerprint, Item
<1> HIDE DEF frame, fp
<1>6. t \in NodeStates
  BY <1>2, <1>5 DEF NodeStates
<1>7. /\ SameRole(s, t) /\ SameToken(s, t)
      /\ t.queue = s.queue /\ t.waiting = TRUE
      /\ t.data_attempt_seq = attempt /\ t.active_data_attempt = attempt
      /\ t.active_data_fingerprint = fp /\ attempt \in t.return_timers
  BY DEF SameRole, SameToken, NodeStates
<1> HIDE DEF t
<1>8. /\ u \in NodeStates /\ SameRole(t, u) /\ SameToken(t, u) /\ SameRound(t, u)
      /\ u.queue = t.queue /\ u.mon_paused = TRUE
  BY <1>6, <1>7, RefreshMonitorPauseFacts
<1> HIDE DEF u
<1>9. Quiet(u, v)
  BY <1>4, <1>7, <1>8, SendFrameQuiet DEF SameRole
<1>10. Quiet(u, NoteActivity(v))
  BY <1>9, NoteActivityQuiet, QuietTrans DEF Quiet
<1>11. SendDataPacket(s, hit) = NoteActivity(v)
  BY DEF SendDataPacket, v, u, t, fp, frame, body, attempt, item
<1> HIDE DEF v
<1>12. QED
  BY <1>3, <1>5, <1>7, <1>8, <1>10, <1>11
     DEF Quiet, SameRole, SameToken, SameRound, item, attempt

-----------------------------------------------------------------------------
\* What a machine does with a token it may release

\* The token is here, no DATA is out and no removal is pending.
Releasable(s) ==
  /\ s \in NodeStates /\ RoleInv(s) /\ QueueInv(s.queue)
  /\ s.has_token /\ ~s.waiting /\ ~s.remove_token_pending
  /\ s.observed_activity
  /\ Alone(s) => s.segurando_sozinho
  /\ s.mon_paused

\* Forwarding a token that may be released keeps the invariant.
LEMMA ForwardTokenInv ==
  ASSUME NEW s, Releasable(s)
  PROVE  LET r == ForwardToken(s) IN
         /\ MachineInv(r) /\ ~r.waiting
         /\ r.queue = s.queue /\ r.data_attempt_seq = s.data_attempt_seq
<1> DEFINE r == ForwardToken(s)
<1>1. /\ r \in NodeStates /\ SameRole(s, r) /\ SameRound(s, r)
      /\ r.remove_token_pending = s.remove_token_pending
      /\ r.segurando_sozinho = s.segurando_sozinho
      /\ r.queue = s.queue
      /\ Alone(s) => r.has_token = s.has_token /\ r.mon_paused = s.mon_paused
      /\ ~Alone(s) => r.has_token = FALSE /\ r.mon_paused = s.waiting
  BY ForwardTokenFacts DEF Releasable, RoleInv
<1> HIDE DEF r
<1>2. Alone(r) = Alone(s)
  BY <1>1 DEF SameRole, Alone
<1>3. RoleInv(r) /\ RoundInv(r) /\ TokenInv(r)
  BY <1>1, <1>2 DEF Releasable, RoleInv, RoundInv, TokenInv, SameRole, SameRound, NodeStates
<1>4. QED
  BY <1>1, <1>3 DEF MachineInv, Releasable, SameRound, r

\* Sending DATA while holding the token establishes the invariant.
LEMMA SendDataPacketInv ==
  ASSUME NEW s \in NodeStates, NEW hit \in BOOLEAN,
         RoleInv(s), QueueInv(s.queue), s.queue # <<>>,
         s.has_token, s.observed_activity, Alone(s) => s.segurando_sozinho
  PROVE  LET r == SendDataPacket(s, hit) IN
         /\ MachineInv(r) /\ r.waiting
         /\ r.queue = s.queue /\ r.data_attempt_seq = s.data_attempt_seq + 1
<1> DEFINE r == SendDataPacket(s, hit)
<1>1. /\ r \in NodeStates /\ SameRole(s, r) /\ SameToken(s, r)
      /\ r.queue = s.queue
      /\ r.mon_paused = TRUE
      /\ r.waiting = TRUE
      /\ r.data_attempt_seq = s.data_attempt_seq + 1
      /\ r.active_data_attempt = s.data_attempt_seq + 1
      /\ r.active_data_attempt \in r.return_timers
      /\ r.active_data_fingerprint.destino = Head(s.queue).destino
      /\ r.active_data_fingerprint.crc = Head(s.queue).text
      /\ Head(s.queue).retransmit_used => ~r.active_data_fingerprint.message.flipped
  BY SendDataPacketFacts DEF RoleInv
<1> HIDE DEF r
<1>2. Alone(r) = Alone(s)
  BY <1>1 DEF SameRole, Alone
<1>3. r.active_data_attempt # NoAttempt
  BY <1>1 DEF NodeStates, NoAttempt
<1>4. RoleInv(r) /\ RoundInv(r)
  BY <1>1, <1>3 DEF RoleInv, RoundInv, SameRole, SameToken
<1>5. TokenInv(r)
  BY <1>1, <1>2 DEF TokenInv, SameRole, SameToken
<1>6. QED
  BY <1>1, <1>4, <1>5 DEF MachineInv, r

\* What a step that keeps the queue and sends at most once does to the count.
LEMMA SendCounts ==
  ASSUME NEW s \in NodeStates, NEW r \in NodeStates, ~s.waiting, r.queue = s.queue,
         \/ ~r.waiting /\ r.data_attempt_seq = s.data_attempt_seq
         \/ r.waiting /\ r.data_attempt_seq = s.data_attempt_seq + 1
  PROVE  Counts(s, r)
<1>1. /\ s.data_attempt_seq \in Nat /\ r.data_attempt_seq \in Nat
      /\ s.waiting \in BOOLEAN /\ r.waiting \in BOOLEAN
      /\ Len(s.queue) \in Nat
  BY DEF NodeStates
<1> DEFINE used == IF s.queue # <<>> /\ Head(s.queue).retransmit_used THEN 1 ELSE 0
<1>2. TriesOf(s) = 0 + used /\ TriesOf(r) = (IF r.waiting THEN 1 ELSE 0) + used
  BY DEF TriesOf
<1>3. used \in Nat
  OBVIOUS
<1> HIDE DEF used
<1>4. QED
  BY <1>1, <1>2, <1>3 DEF Counts

\* A token that may be released is used, and counted, correctly.
LEMMA UseTokenInv ==
  ASSUME NEW s, Releasable(s), NEW hit \in BOOLEAN
  PROVE  MachineInv(UseToken(s, hit)) /\ Counts(s, UseToken(s, hit))
<1>1. CASE s.queue = <<>>
  BY <1>1, ForwardTokenInv, SendCounts DEF UseToken, Releasable, MachineInv
<1>2. CASE s.queue # <<>>
  BY <1>2, SendDataPacketInv, SendCounts DEF UseToken, Releasable, MachineInv
<1>3. QED
  BY <1>1, <1>2

\* Taking the token away keeps the types (_on_cmd_remove_token, _complete_data_round).
LEMMA WithdrawnType ==
  ASSUME NEW s \in NodeStates, NEW ep \in Nat
  PROVE  [s EXCEPT !.remove_token_pending = FALSE, !.has_token = FALSE, !.epoch = ep]
           \in NodeStates
<1> DEFINE t == [s EXCEPT !.remove_token_pending = FALSE, !.has_token = FALSE]
<1>1. t \in NodeStates
  BY DEF NodeStates
<1>2. [s EXCEPT !.remove_token_pending = FALSE, !.has_token = FALSE, !.epoch = ep]
        = [t EXCEPT !.epoch = ep]
  OBVIOUS
<1> HIDE DEF t
<1>3. [t EXCEPT !.epoch = ep] \in NodeStates
  BY <1>1 DEF NodeStates
<1>4. QED
  BY <1>2, <1>3

\* _complete_data_round establishes the invariant at the end of a round.
LEMMA CompleteDataRoundInv ==
  ASSUME NEW s \in NodeStates, RoleInv(s), QueueInv(s.queue),
         s.has_token, s.observed_activity, Alone(s) => s.segurando_sozinho
  PROVE  LET r == CompleteDataRound(s) IN
         /\ MachineInv(r) /\ ~r.waiting
         /\ r.queue = s.queue /\ r.data_attempt_seq = s.data_attempt_seq
<1> DEFINE t == [s EXCEPT !.waiting = FALSE,
                          !.active_data_attempt = NoAttempt,
                          !.active_data_fingerprint = None]
           ep == s.epoch + 1
           w == [t EXCEPT !.remove_token_pending = FALSE,
                          !.has_token = FALSE,
                          !.epoch = ep]
<1>0. ep \in Nat
  BY DEF NodeStates
<1>1. t \in NodeStates
  BY DEF NodeStates, NoAttempt
<1>2. /\ SameRole(s, t) /\ SameToken(s, t) /\ t.queue = s.queue /\ t.waiting = FALSE
      /\ t.data_attempt_seq = s.data_attempt_seq
  BY DEF SameRole, SameToken, NodeStates
<1> HIDE DEF t, ep
<1>3. CASE s.remove_token_pending
  <2>1. w \in NodeStates
    BY <1>0, <1>1, WithdrawnType
  <2>2. /\ SameRole(t, w) /\ w.queue = t.queue /\ w.waiting = t.waiting
        /\ w.data_attempt_seq = t.data_attempt_seq
        /\ w.has_token = FALSE /\ w.remove_token_pending = FALSE
    BY <1>1 DEF SameRole, NodeStates
  <2> HIDE DEF w
  <2> DEFINE r == RefreshMonitorPause(w)
  <2>3. /\ r \in NodeStates /\ SameRole(w, r) /\ SameToken(w, r) /\ SameRound(w, r)
        /\ r.queue = w.queue /\ r.mon_paused = (w.has_token \/ w.waiting)
    BY <2>1, RefreshMonitorPauseFacts
  <2> HIDE DEF r
  <2>4. /\ SameRole(s, r) /\ r.queue = s.queue /\ r.waiting = FALSE
        /\ r.data_attempt_seq = s.data_attempt_seq
        /\ r.has_token = FALSE /\ r.mon_paused = FALSE
    BY <1>2, <2>2, <2>3 DEF SameRole, SameToken, SameRound
  <2>5. RoleInv(r) /\ RoundInv(r) /\ TokenInv(r)
    BY <2>4 DEF RoleInv, RoundInv, TokenInv, SameRole
  <2>6. CompleteDataRound(s) = r
    <3>1. t.epoch = s.epoch
      BY <1>2 DEF SameToken
    <3>2. QED
      BY <1>3, <3>1 DEF CompleteDataRound, r, w, ep, t
  <2>7. QED
    BY <2>3, <2>4, <2>5, <2>6 DEF MachineInv
<1>4. CASE ~s.remove_token_pending
  <2> DEFINE u == RefreshMonitorPause(t)
  <2>1. /\ u \in NodeStates /\ SameRole(t, u) /\ SameToken(t, u) /\ SameRound(t, u)
        /\ u.queue = t.queue /\ u.mon_paused = (t.has_token \/ t.waiting)
    BY <1>1, RefreshMonitorPauseFacts
  <2> HIDE DEF u
  <2>2. Alone(u) = Alone(s)
    BY <1>2, <2>1 DEF SameRole, Alone
  <2>3. Releasable(u)
    BY <1>2, <1>4, <2>1, <2>2
       DEF Releasable, RoleInv, SameRole, SameToken, SameRound, NodeStates
  <2>4. CompleteDataRound(s) = ForwardToken(u)
    BY <1>4 DEF CompleteDataRound, u, t
  <2>5. u.queue = s.queue /\ u.data_attempt_seq = s.data_attempt_seq
    BY <1>2, <2>1 DEF SameRound
  <2>6. QED
    BY <2>3, <2>4, <2>5, ForwardTokenInv
<1>5. QED
  BY <1>3, <1>4

\* _generate_token keeps the invariant while no DATA is out.
LEMMA GenerateTokenInv ==
  ASSUME NEW s \in NodeStates, RoleInv(s), QueueInv(s.queue), ~s.waiting
  PROVE  LET r == GenerateToken(s) IN
         /\ MachineInv(r) /\ ~r.waiting
         /\ r.queue = s.queue /\ r.data_attempt_seq = s.data_attempt_seq
<1> DEFINE ep == s.epoch + 1
           expect == s.expect_token_return \/ s.is_controller
           t == [s EXCEPT !.epoch = ep,
                          !.expect_token_return = expect,
                          !.last_token_rx = NoInstant,
                          !.first_token_generated = TRUE,
                          !.mon_enabled = s.is_controller,
                          !.has_token = FALSE]
           u == RefreshMonitorPause(t)
           v == SendToken(u)
           r == NoteActivity(v)
<1>0. ep \in Nat /\ expect \in BOOLEAN /\ s.is_controller \in BOOLEAN
  BY DEF NodeStates
<1> HIDE DEF ep, expect
<1>1. t \in NodeStates
  BY <1>0 DEF NodeStates
<1>2. /\ t.apelido = s.apelido /\ t.members = s.members
      /\ t.is_controller = s.is_controller /\ t.mon_enabled = s.is_controller
      /\ t.first_token_generated = TRUE
      /\ SameRound(s, t) /\ t.queue = s.queue /\ t.has_token = FALSE
  BY DEF SameRound, NodeStates
<1> HIDE DEF t
<1>3. /\ u \in NodeStates /\ SameRole(t, u) /\ SameToken(t, u) /\ SameRound(t, u)
      /\ u.queue = t.queue /\ u.mon_paused = (t.has_token \/ t.waiting)
  BY <1>1, RefreshMonitorPauseFacts
<1> HIDE DEF u
<1>4. Quiet(u, v)
  BY <1>2, <1>3, SendTokenQuiet DEF SameRole, RoleInv
<1>5. Quiet(u, r)
  <2>1. v \in NodeStates
    BY <1>4 DEF Quiet
  <2> HIDE DEF v
  <2>2. Quiet(v, r)
    BY <2>1, NoteActivityQuiet
  <2>3. QED
    BY <1>4, <2>2, QuietTrans
<1>6. GenerateToken(s) = r
  BY DEF GenerateToken, r, v, u, t, ep, expect
<1> HIDE DEF r
<1>7. /\ r \in NodeStates /\ r.apelido = s.apelido /\ r.members = s.members
      /\ r.is_controller = s.is_controller /\ r.mon_enabled = s.is_controller
      /\ r.first_token_generated = TRUE
      /\ SameRound(s, r) /\ r.queue = s.queue /\ r.has_token = FALSE
      /\ r.mon_paused = u.mon_paused
  BY <1>2, <1>3, <1>5 DEF Quiet, SameRole, SameToken, SameRound
<1>8. r.mon_paused = FALSE /\ r.waiting = FALSE
  BY <1>2, <1>3, <1>7 DEF SameRound, NodeStates
<1>9. RoleInv(r)
  BY <1>7 DEF RoleInv
<1>10. RoundInv(r) /\ TokenInv(r)
  BY <1>7, <1>8 DEF RoundInv, TokenInv
<1>11. QED
  BY <1>6, <1>7, <1>8, <1>9, <1>10 DEF MachineInv, SameRound

-----------------------------------------------------------------------------
\* The handlers of the token

\* The two results every handler owes.
Keeps(s, r) == MachineInv(r) /\ Counts(s, r)

\* A machine that notes activity on the bus.
ObservedActivity(s) == [s EXCEPT !.observed_activity = TRUE]

\* The first lines of _on_rx_token and _on_rx_data keep the invariant.
LEMMA ObservedFacts ==
  ASSUME NEW s, MachineInv(s)
  PROVE  LET r == NoteActivity(ObservedActivity(s)) IN
         /\ MachineInv(r) /\ r.observed_activity
         /\ r.has_token = s.has_token /\ r.epoch = s.epoch
         /\ r.queue = s.queue /\ r.waiting = s.waiting
         /\ r.data_attempt_seq = s.data_attempt_seq
<1> DEFINE t == ObservedActivity(s)
           r == NoteActivity(t)
<1>1. t \in NodeStates
  BY DEF ObservedActivity, MachineInv, NodeStates
<1>2. /\ t.apelido = s.apelido /\ t.members = s.members /\ t.is_controller = s.is_controller
      /\ t.mon_enabled = s.mon_enabled /\ t.first_token_generated = s.first_token_generated
      /\ t.observed_activity = TRUE
      /\ SameToken(s, t) /\ SameRound(s, t)
      /\ t.queue = s.queue /\ t.mon_paused = s.mon_paused
  BY DEF ObservedActivity, MachineInv, NodeStates, SameToken, SameRound
<1> HIDE DEF t
<1>3. Alone(t) = Alone(s)
  BY <1>2 DEF Alone
<1>4. MachineInv(t)
  BY <1>1, <1>2, <1>3 DEF MachineInv, RoleInv, RoundInv, TokenInv, SameToken, SameRound
<1>5. Quiet(t, r)
  BY <1>1, NoteActivityQuiet
<1>6. MachineInv(r)
  BY <1>4, <1>5, QuietInv
<1>7. QED
  BY <1>2, <1>5, <1>6 DEF Quiet, SameRole, SameToken, SameRound, t

\* A handler that neither sends DATA nor changes the queue keeps the count.
LEMMA SameCounts ==
  ASSUME NEW s \in NodeStates, NEW r \in NodeStates, r.queue = s.queue, r.waiting = s.waiting,
         r.data_attempt_seq = s.data_attempt_seq
  PROVE  Counts(s, r)
<1>1. TriesOf(r) = TriesOf(s)
  BY DEF TriesOf
<1>2. TriesOf(s) \in Nat /\ s.data_attempt_seq \in Nat /\ Len(s.queue) \in Nat
  BY DEF NodeStates, TriesOf
<1>3. QED
  BY <1>1, <1>2 DEF Counts

\* Counting a duplicate touches nothing else.
LEMMA CountDuplicateQuiet ==
  ASSUME NEW s \in NodeStates
  PROVE  Quiet(s, CountDuplicate(s))
<1> DEFINE n == s.tokens_duplicados + 1
           u == [s EXCEPT !.tokens_duplicados = n]
<1>1. n \in Nat
  BY DEF NodeStates
<1>2. CountDuplicate(s) = u
  BY DEF CountDuplicate
<1> HIDE DEF n
<1>3. u \in NodeStates
  BY <1>1 DEF NodeStates
<1>4. SameRole(s, u) /\ SameToken(s, u) /\ SameRound(s, u)
      /\ u.queue = s.queue /\ u.mon_paused = s.mon_paused
  BY DEF SameRole, SameToken, SameRound, NodeStates
<1>5. QED
  BY <1>2, <1>3, <1>4 DEF Quiet

\* Setting the pending timers of one epoch.
LEMMA SetForwardTimersFacts ==
  ASSUME NEW s \in NodeStates, NEW ep \in 0 .. MaxEpoch, NEW n \in Nat
  PROVE  LET r == [s EXCEPT !.forward_timers[ep] = n] IN
         /\ r \in NodeStates /\ SameRole(s, r) /\ SameRound(s, r)
         /\ r.queue = s.queue /\ r.mon_paused = s.mon_paused
         /\ r.has_token = s.has_token /\ r.remove_token_pending = s.remove_token_pending
         /\ r.segurando_sozinho = s.segurando_sozinho
         /\ r.epoch = s.epoch
         /\ r.forward_timers = [s.forward_timers EXCEPT ![ep] = n]
<1> DEFINE ft == [s.forward_timers EXCEPT ![ep] = n]
           r == [s EXCEPT !.forward_timers = ft]
<1>1. s.forward_timers \in [0 .. MaxEpoch -> Nat]
  BY DEF NodeStates
<1>2. ft \in [0 .. MaxEpoch -> Nat]
  BY <1>1
<1> HIDE DEF ft
<1>3. r \in NodeStates
  BY <1>2 DEF NodeStates
<1>4. /\ SameRole(s, r) /\ SameRound(s, r)
      /\ r.queue = s.queue /\ r.mon_paused = s.mon_paused
      /\ r.has_token = s.has_token /\ r.remove_token_pending = s.remove_token_pending
      /\ r.segurando_sozinho = s.segurando_sozinho
      /\ r.epoch = s.epoch /\ r.forward_timers = ft
  BY DEF SameRole, SameRound, NodeStates
<1>5. QED
  BY <1>3, <1>4 DEF ft

\* A forward timer that was started is pending in the current epoch.
LEMMA StartForwardTimerFacts ==
  ASSUME NEW s \in NodeStates, s.epoch <= MaxEpoch
  PROVE  LET r == [s EXCEPT !.forward_timers[s.epoch] = @ + 1] IN
         /\ r \in NodeStates /\ SameRole(s, r) /\ SameRound(s, r)
         /\ r.queue = s.queue /\ r.mon_paused = s.mon_paused
         /\ r.has_token = s.has_token /\ r.remove_token_pending = s.remove_token_pending
         /\ r.forward_timers[r.epoch] > 0
<1>1. /\ s.forward_timers \in [0 .. MaxEpoch -> Nat]
      /\ s.epoch \in Nat /\ MaxEpoch \in Nat
  BY MaxEpochAssumption DEF NodeStates
<1>2. s.epoch \in 0 .. MaxEpoch
  BY <1>1
<1> DEFINE n == s.forward_timers[s.epoch] + 1
<1>3. n \in Nat /\ n > 0
  BY <1>1, <1>2
<1>4. [s EXCEPT !.forward_timers[s.epoch] = @ + 1] = [s EXCEPT !.forward_timers[s.epoch] = n]
  OBVIOUS
<1> HIDE DEF n
<1>5. [s.forward_timers EXCEPT ![s.epoch] = n][s.epoch] > 0
  BY <1>1, <1>2, <1>3
<1> DEFINE r == [s EXCEPT !.forward_timers[s.epoch] = n]
<1>6. /\ r \in NodeStates /\ SameRole(s, r) /\ SameRound(s, r)
      /\ r.queue = s.queue /\ r.mon_paused = s.mon_paused
      /\ r.has_token = s.has_token /\ r.remove_token_pending = s.remove_token_pending
      /\ r.epoch = s.epoch
      /\ r.forward_timers = [s.forward_timers EXCEPT ![s.epoch] = n]
  BY <1>2, <1>3, SetForwardTimersFacts
<1> HIDE DEF r
<1>7. r.forward_timers[r.epoch] > 0
  BY <1>5, <1>6
<1>8. QED
  BY <1>4, <1>6, <1>7 DEF r

\* Taking the token keeps the invariant: alone, with messages or without.
LEMMA AcceptTokenInv ==
  ASSUME NEW s, MachineInv(s), NEW hit \in BOOLEAN, s.epoch <= MaxEpoch,
         ~s.has_token, ~s.remove_token_pending, s.observed_activity
  PROVE  Keeps(s, AcceptToken(s, hit))
<1> DEFINE rx == IF s.is_controller THEN 0 ELSE s.last_token_rx
           expect == s.expect_token_return /\ ~s.is_controller
           t == [s EXCEPT !.has_token = TRUE,
                          !.expect_token_return = expect,
                          !.last_token_rx = rx]
           r == RefreshMonitorPause(t)
<1>1. s \in NodeStates /\ ~s.waiting
  BY DEF MachineInv, RoundInv
<1>2. rx \in Nat \cup {NoInstant} /\ expect \in BOOLEAN
  BY <1>1 DEF NodeStates
<1> HIDE DEF rx, expect
<1>3. t \in NodeStates
  BY <1>1, <1>2 DEF NodeStates
<1>4. /\ SameRole(s, t) /\ SameRound(s, t) /\ t.has_token = TRUE
      /\ t.remove_token_pending = s.remove_token_pending
      /\ t.epoch = s.epoch /\ t.forward_timers = s.forward_timers
      /\ t.segurando_sozinho = s.segurando_sozinho
      /\ t.queue = s.queue
  BY <1>1 DEF SameRole, SameRound, NodeStates
<1> HIDE DEF t
<1>5. /\ r \in NodeStates /\ SameRole(t, r) /\ SameToken(t, r) /\ SameRound(t, r)
      /\ r.queue = t.queue /\ r.mon_paused = (t.has_token \/ t.waiting)
  BY <1>3, RefreshMonitorPauseFacts
<1>6. AcceptToken(s, hit) =
        CASE Alone(r) -> [r EXCEPT !.segurando_sozinho = TRUE]
          [] ~Alone(r) /\ r.queue # <<>> -> SendDataPacket(r, hit)
          [] ~Alone(r) /\ r.queue = <<>> -> [r EXCEPT !.forward_timers[r.epoch] = @ + 1]
  BY DEF AcceptToken, r, t, rx, expect
<1> HIDE DEF r
<1>7. /\ RoleInv(r) /\ QueueInv(r.queue) /\ ~r.waiting /\ r.has_token = TRUE
      /\ r.observed_activity /\ ~r.remove_token_pending /\ r.mon_paused = TRUE
      /\ r.queue = s.queue /\ r.data_attempt_seq = s.data_attempt_seq /\ r.epoch = s.epoch
  BY <1>1, <1>4, <1>5 DEF MachineInv, RoleInv, SameRole, SameToken, SameRound
<1>8. CASE Alone(r)
  <2> DEFINE u == [r EXCEPT !.segurando_sozinho = TRUE]
  <2>1. u \in NodeStates
    BY <1>5 DEF NodeStates
  <2>2. /\ SameRole(r, u) /\ SameRound(r, u) /\ u.queue = r.queue /\ u.mon_paused = r.mon_paused
        /\ u.has_token = r.has_token /\ u.remove_token_pending = r.remove_token_pending
        /\ u.segurando_sozinho = TRUE
    BY <1>5 DEF SameRole, SameRound, NodeStates
  <2>3. AcceptToken(s, hit) = u
    BY <1>6, <1>8
  <2> HIDE DEF u
  <2>4. Alone(u)
    BY <1>8, <2>2 DEF Alone, SameRole
  <2>5. RoleInv(u) /\ RoundInv(u) /\ TokenInv(u)
    BY <1>7, <2>2, <2>4 DEF RoleInv, RoundInv, TokenInv, SameRole, SameRound
  <2>6. MachineInv(u) /\ u.queue = s.queue /\ ~u.waiting
        /\ u.data_attempt_seq = s.data_attempt_seq
    BY <1>7, <2>1, <2>2, <2>5 DEF MachineInv, SameRound
  <2>7. QED
    BY <1>1, <2>1, <2>3, <2>6, SendCounts DEF Keeps
<1>9. CASE ~Alone(r) /\ r.queue # <<>>
  <2>1. AcceptToken(s, hit) = SendDataPacket(r, hit)
    BY <1>6, <1>9
  <2>2. /\ MachineInv(SendDataPacket(r, hit)) /\ SendDataPacket(r, hit).waiting
        /\ SendDataPacket(r, hit).queue = r.queue
        /\ SendDataPacket(r, hit).data_attempt_seq = r.data_attempt_seq + 1
    BY <1>5, <1>7, <1>9, SendDataPacketInv
  <2>3. SendDataPacket(r, hit) \in NodeStates
    BY <2>2 DEF MachineInv
  <2>4. QED
    BY <1>1, <1>7, <2>1, <2>2, <2>3, SendCounts DEF Keeps
<1>10. CASE ~Alone(r) /\ r.queue = <<>>
  <2> DEFINE u == [r EXCEPT !.forward_timers[r.epoch] = @ + 1]
  <2>1. r.epoch <= MaxEpoch
    BY <1>7
  <2>2. /\ u \in NodeStates /\ SameRole(r, u) /\ SameRound(r, u)
        /\ u.queue = r.queue /\ u.mon_paused = r.mon_paused
        /\ u.has_token = r.has_token /\ u.remove_token_pending = r.remove_token_pending
        /\ u.forward_timers[u.epoch] > 0
    BY <1>5, <2>1, StartForwardTimerFacts
  <2>3. AcceptToken(s, hit) = u
    BY <1>6, <1>10
  <2> HIDE DEF u
  <2>6. ~Alone(u)
    BY <1>10, <2>2 DEF Alone, SameRole
  <2>7. RoleInv(u) /\ RoundInv(u) /\ TokenInv(u)
    BY <1>7, <2>2, <2>6 DEF RoleInv, RoundInv, TokenInv, SameRole, SameRound
  <2>8. MachineInv(u) /\ u.queue = s.queue /\ ~u.waiting
        /\ u.data_attempt_seq = s.data_attempt_seq
    BY <1>7, <2>2, <2>7 DEF MachineInv, SameRound
  <2>9. QED
    BY <1>1, <2>2, <2>3, <2>8, SendCounts DEF Keeps
<1>11. QED
  BY <1>8, <1>9, <1>10

\* _on_rx_token keeps the invariant.
LEMMA OnRxTokenKeeps ==
  ASSUME NEW s, MachineInv(s), s.epoch <= MaxEpoch, NEW soon \in BOOLEAN, NEW hit \in BOOLEAN
  PROVE  Keeps(s, OnRxToken(s, soon, hit))
<1> DEFINE t == NoteActivity(ObservedActivity(s))
           r == OnRxToken(s, soon, hit)
<1>1. /\ MachineInv(t) /\ t.observed_activity
      /\ t.has_token = s.has_token /\ t.epoch = s.epoch
      /\ t.queue = s.queue /\ t.waiting = s.waiting
      /\ t.data_attempt_seq = s.data_attempt_seq
  BY ObservedFacts
<1>2. r = CASE t.remove_token_pending -> [t EXCEPT !.remove_token_pending = FALSE]
            [] ~t.remove_token_pending /\ t.has_token ->
                 IF t.is_controller THEN CountDuplicate(t) ELSE SendToken(t)
            [] ~t.remove_token_pending /\ ~t.has_token ->
                 IF TooSoon(t, soon) THEN CountDuplicate(t) ELSE AcceptToken(t, hit)
  BY DEF OnRxToken, ObservedActivity
<1> HIDE DEF t, r
<1>3. s \in NodeStates /\ t \in NodeStates /\ t.apelido \in t.members
  BY <1>1 DEF MachineInv, RoleInv
<1>4. Counts(s, r) <=> Counts(t, r)
  <2>1. TriesOf(s) = TriesOf(t)
    BY <1>1 DEF TriesOf
  <2>2. QED
    BY <1>1, <2>1 DEF Counts
<1>5. Quiet(t, CountDuplicate(t))
  BY <1>3, CountDuplicateQuiet
<1>6. CASE t.remove_token_pending
  <2> DEFINE u == [t EXCEPT !.remove_token_pending = FALSE]
  <2>1. u \in NodeStates
    BY <1>3 DEF NodeStates
  <2>2. /\ SameRole(t, u) /\ SameRound(t, u) /\ u.queue = t.queue /\ u.mon_paused = t.mon_paused
        /\ u.has_token = t.has_token /\ u.remove_token_pending = FALSE
        /\ u.epoch = t.epoch /\ u.forward_timers = t.forward_timers
        /\ u.segurando_sozinho = t.segurando_sozinho
    BY <1>3 DEF SameRole, SameRound, NodeStates
  <2>3. r = u
    BY <1>2, <1>6
  <2> HIDE DEF u
  <2>4. Alone(u) = Alone(t)
    BY <2>2 DEF Alone, SameRole
  <2>5. MachineInv(u)
    BY <1>1, <2>1, <2>2, <2>4
       DEF MachineInv, RoleInv, RoundInv, TokenInv, SameRole, SameRound
  <2>6. Counts(t, u)
    BY <1>3, <2>1, <2>2, SameCounts DEF SameRound
  <2>7. QED
    BY <1>4, <2>3, <2>5, <2>6 DEF Keeps, r
<1>7. CASE ~t.remove_token_pending /\ t.has_token
  <2>1. Quiet(t, r)
    BY <1>2, <1>3, <1>5, <1>7, SendTokenQuiet
  <2>2. QED
    BY <1>1, <1>4, <2>1, QuietInv DEF Keeps, r
<1>8. CASE ~t.remove_token_pending /\ ~t.has_token
  <2>1. CASE TooSoon(t, soon)
    <3>1. Quiet(t, r)
      BY <1>2, <1>5, <1>8, <2>1
    <3>2. QED
      BY <1>1, <1>4, <3>1, QuietInv DEF Keeps, r
  <2>2. CASE ~TooSoon(t, soon)
    <3>1. r = AcceptToken(t, hit)
      BY <1>2, <1>8, <2>2
    <3>2. Keeps(t, AcceptToken(t, hit))
      BY <1>1, <1>8, AcceptTokenInv
    <3>3. QED
      BY <1>4, <3>1, <3>2 DEF Keeps, r
  <2>3. QED
    BY <2>1, <2>2
<1>9. QED
  BY <1>6, <1>7, <1>8

\* _on_timer_forward_token keeps the invariant, in or out of its epoch.
LEMMA OnTimerForwardTokenKeeps ==
  ASSUME NEW s, MachineInv(s), NEW ep \in 0 .. MaxEpoch, NEW hit \in BOOLEAN,
         s.forward_timers[ep] > 0
  PROVE  Keeps(s, OnTimerForwardToken(s, ep, hit))
<1> DEFINE n == s.forward_timers[ep] - 1
           ft == [s.forward_timers EXCEPT ![ep] = n]
           r == [s EXCEPT !.forward_timers[ep] = n]
<1>1. s \in NodeStates /\ s.forward_timers \in [0 .. MaxEpoch -> Nat]
  BY DEF MachineInv, NodeStates
<1>2. n \in Nat
  <2>1. s.forward_timers[ep] \in Nat
    BY <1>1
  <2>2. QED
    BY <2>1
<1>3. OnTimerForwardToken(s, ep, hit) =
        IF ep = s.epoch /\ s.has_token /\ ~s.waiting /\ ~Alone(s) THEN UseToken(r, hit) ELSE r
  BY DEF OnTimerForwardToken
<1> HIDE DEF n
<1>4. /\ r \in NodeStates /\ SameRole(s, r) /\ SameRound(s, r)
      /\ r.queue = s.queue /\ r.mon_paused = s.mon_paused
      /\ r.has_token = s.has_token /\ r.remove_token_pending = s.remove_token_pending
      /\ r.segurando_sozinho = s.segurando_sozinho
      /\ r.epoch = s.epoch
      /\ r.forward_timers = ft
  BY <1>1, <1>2, SetForwardTimersFacts
<1> HIDE DEF r
<1>5. Alone(r) = Alone(s)
  BY <1>4 DEF Alone, SameRole
<1>6. RoleInv(r) /\ RoundInv(r) /\ QueueInv(r.queue)
  BY <1>4 DEF MachineInv, RoleInv, RoundInv, SameRole, SameRound
<1>7. CASE ep = s.epoch /\ s.has_token /\ ~s.waiting /\ ~Alone(s)
  <2>1. Releasable(r)
    BY <1>4, <1>5, <1>6, <1>7 DEF Releasable, MachineInv, TokenInv, SameRole, SameRound
  <2>2. MachineInv(UseToken(r, hit)) /\ Counts(r, UseToken(r, hit))
    BY <2>1, UseTokenInv
  <2>3. TriesOf(r) = TriesOf(s)
    BY <1>4 DEF TriesOf, SameRound
  <2>4. Counts(s, UseToken(r, hit))
    BY <1>4, <2>2, <2>3 DEF Counts, SameRound
  <2>5. QED
    BY <1>3, <1>7, <2>2, <2>4 DEF Keeps
<1>8. CASE ~(ep = s.epoch /\ s.has_token /\ ~s.waiting /\ ~Alone(s))
  <2>1. s.has_token /\ ~Alone(s) /\ ~s.waiting => ft[s.epoch] = s.forward_timers[s.epoch]
    BY <1>1, <1>8
  <2>2. TokenInv(r)
    BY <1>4, <1>5, <2>1 DEF MachineInv, TokenInv, SameRole, SameRound
  <2>3. MachineInv(r) /\ Counts(s, r)
    BY <1>1, <1>4, <1>6, <2>2, SameCounts DEF MachineInv, SameRound
  <2>4. QED
    BY <1>3, <1>8, <2>3 DEF Keeps
<1>9. QED
  BY <1>7, <1>8

\* A round that ends takes the message out of the queue.
LEMMA PopCounts ==
  ASSUME NEW s \in NodeStates, NEW r \in NodeStates, s.queue # <<>>,
         Len(r.queue) = Len(s.queue) - 1, ~r.waiting,
         r.queue # <<>> => ~Head(r.queue).retransmit_used,
         r.data_attempt_seq = s.data_attempt_seq
  PROVE  Counts(s, r)
<1>1. TriesOf(r) = 0
  BY DEF TriesOf
<1>2. s.data_attempt_seq \in Nat /\ Len(s.queue) \in Nat
  BY DEF NodeStates
<1>3. QED
  BY <1>1, <1>2 DEF Counts

\* _on_timer_data_return_timeout keeps the invariant, late or not.
LEMMA OnTimerDataReturnTimeoutKeeps ==
  ASSUME NEW s, MachineInv(s), NEW attempt \in Nat
  PROVE  Keeps(s, OnTimerDataReturnTimeout(s, attempt))
<1> DEFINE rt == s.return_timers \ {attempt}
           r == [s EXCEPT !.return_timers = rt]
<1>1. s \in NodeStates
  BY DEF MachineInv
<1>2. rt \in SUBSET Nat
  BY <1>1 DEF NodeStates
<1>3. OnTimerDataReturnTimeout(s, attempt) =
        IF attempt = s.active_data_attempt /\ s.waiting THEN CompleteDataRound(DropHead(r)) ELSE r
  BY DEF OnTimerDataReturnTimeout
<1>4. s.waiting /\ attempt # s.active_data_attempt => s.active_data_attempt \in rt
  BY DEF MachineInv, RoundInv
<1> HIDE DEF rt
<1>5. r \in NodeStates
  BY <1>1, <1>2 DEF NodeStates
<1>6. /\ SameRole(s, r) /\ SameToken(s, r)
      /\ r.queue = s.queue /\ r.mon_paused = s.mon_paused
      /\ r.waiting = s.waiting /\ r.data_attempt_seq = s.data_attempt_seq
      /\ r.active_data_attempt = s.active_data_attempt
      /\ r.active_data_fingerprint = s.active_data_fingerprint
      /\ r.return_timers = rt
  BY <1>1 DEF SameRole, SameToken, NodeStates
<1> HIDE DEF r
<1>7. Alone(r) = Alone(s)
  BY <1>6 DEF Alone, SameRole
<1>8. RoleInv(r) /\ QueueInv(r.queue) /\ TokenInv(r)
  BY <1>6, <1>7 DEF MachineInv, RoleInv, TokenInv, SameRole, SameToken
<1>9. CASE attempt = s.active_data_attempt /\ s.waiting
  <2> DEFINE d == DropHead(r)
             c == CompleteDataRound(d)
  <2>1. s.queue # <<>> /\ s.has_token
    BY <1>9 DEF MachineInv, RoundInv
  <2>2. /\ d \in NodeStates
        /\ SameRole(r, d) /\ SameToken(r, d) /\ SameRound(r, d)
        /\ QueueInv(d.queue)
        /\ Len(d.queue) = Len(s.queue) - 1
        /\ d.queue # <<>> => ~Head(d.queue).retransmit_used
    BY <1>5, <1>6, <1>8, <2>1, DropHeadFacts
  <2> HIDE DEF d
  <2>3. Alone(d) = Alone(r)
    BY <2>2 DEF Alone, SameRole
  <2>4. /\ RoleInv(d) /\ d.has_token /\ d.observed_activity
        /\ Alone(d) => d.segurando_sozinho
        /\ d.data_attempt_seq = s.data_attempt_seq
    BY <1>6, <1>8, <2>1, <2>2, <2>3 DEF RoleInv, TokenInv, SameRole, SameToken, SameRound
  <2>5. /\ MachineInv(c) /\ ~c.waiting /\ c.queue = d.queue
        /\ c.data_attempt_seq = d.data_attempt_seq
    BY <2>2, <2>4, CompleteDataRoundInv
  <2>6. OnTimerDataReturnTimeout(s, attempt) = c
    BY <1>3, <1>9 DEF d
  <2> HIDE DEF c
  <2>7. c \in NodeStates
    BY <2>5 DEF MachineInv
  <2>8. Counts(s, c)
    BY <1>1, <2>1, <2>2, <2>4, <2>5, <2>7, PopCounts
  <2>9. QED
    BY <2>5, <2>6, <2>8 DEF Keeps
<1>10. CASE ~(attempt = s.active_data_attempt /\ s.waiting)
  <2>1. RoundInv(r)
    BY <1>4, <1>6, <1>10 DEF MachineInv, RoundInv, SameToken
  <2>2. MachineInv(r) /\ Counts(s, r)
    BY <1>1, <1>5, <1>6, <1>8, <2>1, SameCounts DEF MachineInv
  <2>3. QED
    BY <1>3, <1>10, <2>2 DEF Keeps
<1>11. QED
  BY <1>9, <1>10

\* Posting and taking an event changes nothing the invariant speaks of.
LEMMA MonPostedQuiet ==
  ASSUME NEW s \in NodeStates, NEW b \in BOOLEAN
  PROVE  Quiet(s, [s EXCEPT !.mon_posted = b])
BY DEF Quiet, SameRole, SameToken, SameRound, NodeStates

\* The same for the event of the first evaluation.
LEMMA EvalPostedQuiet ==
  ASSUME NEW s \in NodeStates, NEW b \in BOOLEAN
  PROVE  Quiet(s, [s EXCEPT !.eval_posted = b])
BY DEF Quiet, SameRole, SameToken, SameRound, NodeStates

\* Counting a lost token touches nothing else.
LEMMA CountLostQuiet ==
  ASSUME NEW s \in NodeStates
  PROVE  Quiet(s, [s EXCEPT !.tokens_perdidos = @ + 1])
<1> DEFINE n == s.tokens_perdidos + 1
           u == [s EXCEPT !.tokens_perdidos = n]
<1>1. n \in Nat
  BY DEF NodeStates
<1>2. [s EXCEPT !.tokens_perdidos = @ + 1] = u
  OBVIOUS
<1> HIDE DEF n
<1>3. u \in NodeStates
  BY <1>1 DEF NodeStates
<1>4. SameRole(s, u) /\ SameToken(s, u) /\ SameRound(s, u)
      /\ u.queue = s.queue /\ u.mon_paused = s.mon_paused
  BY DEF SameRole, SameToken, SameRound, NodeStates
<1>5. QED
  BY <1>2, <1>3, <1>4 DEF Quiet

\* Generating a token after bookkeeping.
LEMMA GenerateAfter ==
  ASSUME NEW s, MachineInv(s), NEW t, Quiet(s, t), ~s.waiting
  PROVE  Keeps(s, GenerateToken(t))
<1>1. MachineInv(t) /\ ~t.waiting /\ t.queue = s.queue
      /\ t.data_attempt_seq = s.data_attempt_seq
  BY QuietInv DEF Quiet, SameRound
<1>2. /\ MachineInv(GenerateToken(t)) /\ ~GenerateToken(t).waiting
      /\ GenerateToken(t).queue = t.queue
      /\ GenerateToken(t).data_attempt_seq = t.data_attempt_seq
  BY <1>1, GenerateTokenInv DEF MachineInv
<1>3. s \in NodeStates /\ GenerateToken(t) \in NodeStates
  BY <1>2 DEF MachineInv
<1>4. QED
  BY <1>1, <1>2, <1>3, SendCounts DEF Keeps

\* _on_mon_token_timeout keeps the invariant.
LEMMA OnMonTokenTimeoutKeeps ==
  ASSUME NEW s, MachineInv(s)
  PROVE  Keeps(s, OnMonTokenTimeout(s))
<1> DEFINE r == [s EXCEPT !.mon_posted = FALSE]
           t == [r EXCEPT !.tokens_perdidos = @ + 1]
<1>1. Quiet(s, r)
  BY MonPostedQuiet DEF MachineInv
<1>2. OnMonTokenTimeout(s) =
        IF /\ s.is_controller
           /\ Cardinality(s.members) > 1
           /\ ~s.has_token
           /\ ~s.waiting
        THEN GenerateToken(t) ELSE r
  BY DEF OnMonTokenTimeout
<1> HIDE DEF r
<1>3. Quiet(r, t)
  BY <1>1, CountLostQuiet DEF Quiet
<1> HIDE DEF t
<1>4. Quiet(s, t)
  BY <1>1, <1>3, QuietTrans
<1>5. Keeps(s, r)
  BY <1>1, QuietInv DEF Keeps
<1>6. ~s.waiting => Keeps(s, GenerateToken(t))
  BY <1>4, GenerateAfter
<1>7. QED
  BY <1>2, <1>5, <1>6

\* _on_eval_first_token keeps the invariant.
LEMMA OnEvalFirstTokenKeeps ==
  ASSUME NEW s, MachineInv(s)
  PROVE  Keeps(s, OnEvalFirstToken(s))
<1> DEFINE r == [s EXCEPT !.eval_posted = FALSE]
           u == [r EXCEPT !.mon_enabled = TRUE]
<1>1. s \in NodeStates
  BY DEF MachineInv
<1>2. Quiet(s, r)
  BY <1>1, EvalPostedQuiet
<1>3. OnEvalFirstToken(s) =
        IF s.is_controller
        THEN IF ~s.first_token_generated /\ ~s.observed_activity THEN GenerateToken(r) ELSE u
        ELSE r
  BY DEF OnEvalFirstToken
<1> HIDE DEF r
<1>4. MachineInv(r) /\ Keeps(s, r)
  BY <1>2, QuietInv DEF Keeps
<1>5. CASE s.is_controller /\ ~s.first_token_generated /\ ~s.observed_activity
  <2>1. ~s.waiting
    BY <1>5 DEF MachineInv, RoundInv, TokenInv
  <2>2. QED
    BY <1>2, <1>3, <1>5, <2>1, GenerateAfter
<1>6. CASE s.is_controller /\ (s.first_token_generated \/ s.observed_activity)
  <2>1. r \in NodeStates /\ r.is_controller
        /\ (r.first_token_generated \/ r.observed_activity)
    BY <1>2, <1>6 DEF Quiet, SameRole
  <2>2. u \in NodeStates
    BY <2>1 DEF NodeStates
  <2>3. /\ u.apelido = r.apelido /\ u.members = r.members /\ u.is_controller = r.is_controller
        /\ u.first_token_generated = r.first_token_generated
        /\ u.observed_activity = r.observed_activity
        /\ SameToken(r, u) /\ SameRound(r, u)
        /\ u.queue = r.queue /\ u.mon_paused = r.mon_paused
    BY <2>1 DEF SameToken, SameRound, NodeStates
  <2>4. OnEvalFirstToken(s) = u
    BY <1>3, <1>6
  <2> HIDE DEF u
  <2>5. Alone(u) = Alone(r)
    BY <2>3 DEF Alone
  <2>6. MachineInv(u)
    BY <1>4, <2>1, <2>2, <2>3, <2>5
       DEF MachineInv, RoleInv, RoundInv, TokenInv, SameToken, SameRound
  <2>7. u.queue = s.queue /\ u.waiting = s.waiting /\ u.data_attempt_seq = s.data_attempt_seq
    BY <1>2, <2>3 DEF Quiet, SameRound
  <2>8. Counts(s, u)
    BY <1>1, <2>2, <2>7, SameCounts
  <2>9. QED
    BY <2>4, <2>6, <2>8 DEF Keeps
<1>7. CASE ~s.is_controller
  BY <1>3, <1>4, <1>7
<1>8. QED
  BY <1>5, <1>6, <1>7

-----------------------------------------------------------------------------
\* The handlers of presence

\* Hearing of a member, before the role is recomputed.
LEMMA KnownFacts ==
  ASSUME NEW s \in NodeStates, NEW ap \in Apelido
  PROVE  LET r == [s EXCEPT !.members = @ \cup {ap}, !.member_last_seen[ap] = 0] IN
         /\ r \in NodeStates
         /\ r.members = s.members \cup {ap} /\ r.apelido = s.apelido
         /\ r.observed_activity = s.observed_activity
         /\ SameToken(s, r) /\ SameRound(s, r)
         /\ r.queue = s.queue /\ r.mon_paused = s.mon_paused
<1> DEFINE m == s.members \cup {ap}
           seen == [s.member_last_seen EXCEPT ![ap] = 0]
           r == [s EXCEPT !.members = m, !.member_last_seen = seen]
<1>1. m \in SUBSET Apelido /\ seen \in [Apelido -> Nat]
  BY DEF NodeStates
<1>2. [s EXCEPT !.members = @ \cup {ap}, !.member_last_seen[ap] = 0] = r
  OBVIOUS
<1>3. m = s.members \cup {ap}
  OBVIOUS
<1> HIDE DEF m, seen
<1>4. r \in NodeStates
  BY <1>1 DEF NodeStates
<1>5. /\ r.members = m /\ r.apelido = s.apelido
      /\ r.observed_activity = s.observed_activity
      /\ SameToken(s, r) /\ SameRound(s, r)
      /\ r.queue = s.queue /\ r.mon_paused = s.mon_paused
  BY DEF SameToken, SameRound, NodeStates
<1>6. QED
  BY <1>2, <1>3, <1>4, <1>5

\* Scheduling the first evaluation touches nothing else (_schedule_first_token_eval).
LEMMA ScheduleQuiet ==
  ASSUME NEW s \in NodeStates
  PROVE  Quiet(s, ScheduleFirstTokenEval(s))
BY DEF ScheduleFirstTokenEval, Quiet, SameRole, SameToken, SameRound, NodeStates

\* A machine that resumes after being alone (_update_member).
LEMMA ResumeFacts ==
  ASSUME NEW s \in NodeStates
  PROVE  LET r == [s EXCEPT !.segurando_sozinho = FALSE] IN
         /\ r \in NodeStates /\ SameRole(s, r) /\ SameRound(s, r)
         /\ r.has_token = s.has_token /\ r.remove_token_pending = s.remove_token_pending
         /\ r.queue = s.queue /\ r.mon_paused = s.mon_paused
<1>1. [s EXCEPT !.segurando_sozinho = FALSE] \in NodeStates
  BY DEF NodeStates
<1>2. QED
  BY <1>1 DEF SameRole, SameRound, NodeStates

\* _update_member keeps the invariant, whether or not it resumes the token.
LEMMA UpdateMemberKeeps ==
  ASSUME NEW s, MachineInv(s), NEW ap \in Apelido, NEW hit \in BOOLEAN
  PROVE  Keeps(s, UpdateMember(s, ap, hit))
<1> DEFINE known == [s EXCEPT !.members = @ \cup {ap}, !.member_last_seen[ap] = 0]
           forming == IsNew(s.members, ap) /\ ~s.first_token_generated /\ ~s.observed_activity
           k == IF forming THEN ScheduleFirstTokenEval(known) ELSE known
           r == RecomputeRole(k)
           u == [r EXCEPT !.segurando_sozinho = FALSE]
<1>1. s \in NodeStates /\ s.apelido \in s.members
  BY DEF MachineInv, RoleInv
<1>2. /\ known \in NodeStates
      /\ known.members = s.members \cup {ap} /\ known.apelido = s.apelido
      /\ known.observed_activity = s.observed_activity
      /\ SameToken(s, known) /\ SameRound(s, known)
      /\ known.queue = s.queue /\ known.mon_paused = s.mon_paused
  BY <1>1, KnownFacts
<1>3. UpdateMember(s, ap, hit) =
        IF r.has_token /\ ~r.waiting /\ ~Alone(r) /\ r.segurando_sozinho
        THEN UseToken(u, hit) ELSE r
  BY DEF UpdateMember
<1> HIDE DEF known, forming
<1>4. Quiet(known, k)
  <2>1. Quiet(known, known)
    BY <1>2 DEF Quiet, SameRole, SameToken, SameRound
  <2>2. Quiet(known, ScheduleFirstTokenEval(known))
    BY <1>2, ScheduleQuiet
  <2>3. QED
    BY <2>1, <2>2
<1> HIDE DEF k
<1>5. /\ k \in NodeStates
      /\ k.members = s.members \cup {ap} /\ k.apelido = s.apelido
      /\ k.observed_activity = s.observed_activity
      /\ SameToken(s, k) /\ SameRound(s, k)
      /\ k.queue = s.queue /\ k.mon_paused = s.mon_paused
  BY <1>2, <1>4 DEF Quiet, SameRole, SameToken, SameRound
<1>6. k.apelido \in k.members
  BY <1>1, <1>5
<1>7. /\ r \in NodeStates /\ RoleInv(r)
      /\ r.apelido = k.apelido /\ r.members = k.members
      /\ r.observed_activity = k.observed_activity
      /\ r.has_token = k.has_token /\ r.remove_token_pending = k.remove_token_pending
      /\ r.epoch = k.epoch /\ r.forward_timers = k.forward_timers
      /\ r.segurando_sozinho = (k.segurando_sozinho /\ (Alone(k) \/ k.has_token))
      /\ SameRound(k, r)
      /\ r.queue = k.queue /\ r.mon_paused = k.mon_paused
  BY <1>5, <1>6, RecomputeRoleFacts
<1> HIDE DEF r
<1>8. /\ r.apelido = s.apelido /\ r.members = s.members \cup {ap}
      /\ r.observed_activity = s.observed_activity
      /\ r.has_token = s.has_token /\ r.remove_token_pending = s.remove_token_pending
      /\ r.epoch = s.epoch /\ r.forward_timers = s.forward_timers
      /\ s.has_token => r.segurando_sozinho = s.segurando_sozinho
      /\ SameRound(s, r)
      /\ r.queue = s.queue /\ r.mon_paused = s.mon_paused
  <2>1. s.has_token => r.segurando_sozinho = s.segurando_sozinho
    BY <1>1, <1>5, <1>7 DEF SameToken, NodeStates
  <2>2. QED
    BY <1>5, <1>7, <2>1 DEF SameToken, SameRound
<1>9. Alone(r) => Alone(s)
  <2>1. Alone(r) => r.members = {r.apelido}
    BY <1>7, AloneMeans DEF RoleInv
  <2>2. Alone(s) <=> s.members = {s.apelido}
    BY <1>1, AloneMeans
  <2>3. QED
    BY <1>1, <1>8, <2>1, <2>2
<1>10. RoundInv(r) /\ QueueInv(r.queue)
  BY <1>8 DEF MachineInv, RoundInv, SameRound
<1>11. Counts(s, r)
  BY <1>1, <1>7, <1>8, SameCounts DEF SameRound
<1>12. CASE r.has_token /\ ~r.waiting /\ ~Alone(r) /\ r.segurando_sozinho
  <2>1. /\ u \in NodeStates /\ SameRole(r, u) /\ SameRound(r, u)
        /\ u.has_token = r.has_token /\ u.remove_token_pending = r.remove_token_pending
        /\ u.queue = r.queue /\ u.mon_paused = r.mon_paused
    BY <1>7, ResumeFacts
  <2> HIDE DEF u
  <2>2. ~Alone(u)
    BY <1>12, <2>1 DEF Alone, SameRole
  <2>3. RoleInv(u)
    BY <1>7, <2>1 DEF RoleInv, SameRole
  <2>4. u.has_token /\ ~u.waiting /\ u.mon_paused /\ u.observed_activity
        /\ ~u.remove_token_pending
    BY <1>8, <1>12, <2>1 DEF MachineInv, TokenInv, SameRole, SameRound
  <2>5. Releasable(u)
    BY <1>10, <2>1, <2>2, <2>3, <2>4 DEF Releasable
  <2>6. MachineInv(UseToken(u, hit)) /\ Counts(u, UseToken(u, hit))
    BY <2>5, UseTokenInv
  <2>7. TriesOf(u) = TriesOf(s) /\ u.queue = s.queue
        /\ u.data_attempt_seq = s.data_attempt_seq
    BY <1>8, <2>1 DEF TriesOf, SameRound
  <2>8. Counts(s, UseToken(u, hit))
    BY <2>6, <2>7 DEF Counts
  <2>9. QED
    BY <1>3, <1>12, <2>6, <2>8 DEF Keeps
<1>13. CASE ~(r.has_token /\ ~r.waiting /\ ~Alone(r) /\ r.segurando_sozinho)
  <2>1. TokenInv(r)
    BY <1>8, <1>9, <1>13 DEF MachineInv, TokenInv, SameRound
  <2>2. MachineInv(r)
    BY <1>7, <1>10, <2>1 DEF MachineInv
  <2>3. QED
    BY <1>3, <1>11, <1>13, <2>2 DEF Keeps
<1>14. QED
  BY <1>12, <1>13

\* A handler that goes on, sending nothing but announcements.
LEMMA KeepsThenQuiet ==
  ASSUME NEW s, NEW r, NEW t, MachineInv(s), Keeps(s, r), Quiet(r, t)
  PROVE  Keeps(s, t)
<1>1. MachineInv(t)
  BY QuietInv DEF Keeps
<1>2. TriesOf(t) = TriesOf(r) /\ t.queue = r.queue /\ t.data_attempt_seq = r.data_attempt_seq
  BY DEF Quiet, SameRound, TriesOf
<1>3. QED
  BY <1>1, <1>2 DEF Keeps, Counts

\* _on_rx_discover keeps the invariant.
LEMMA OnRxDiscoverKeeps ==
  ASSUME NEW s, MachineInv(s), NEW ap \in Apelido, NEW hit \in BOOLEAN
  PROVE  Keeps(s, OnRxDiscover(s, ap, hit))
<1>1. Keeps(s, UpdateMember(s, ap, hit))
  BY UpdateMemberKeeps
<1>2. Quiet(UpdateMember(s, ap, hit), Announce(UpdateMember(s, ap, hit), "HELLO"))
  BY <1>1, AnnounceQuiet DEF Keeps, MachineInv
<1>3. QED
  BY <1>1, <1>2, KeepsThenQuiet DEF OnRxDiscover

\* Removing members keeps the round and the token; a machine left alone
\* with the token latches segurando_sozinho.
LEMMA RemoveMembersFacts ==
  ASSUME NEW s \in NodeStates, RoleInv(s), NEW candidates
  PROVE  LET r == RemoveMembers(s, candidates) IN
         /\ r \in NodeStates /\ RoleInv(r)
         /\ Alone(s) => Alone(r)
         /\ s.has_token /\ (Alone(s) => s.segurando_sozinho)
              => (Alone(r) => r.segurando_sozinho)
         /\ r.observed_activity = s.observed_activity
         /\ r.has_token = s.has_token /\ r.remove_token_pending = s.remove_token_pending
         /\ r.epoch = s.epoch /\ r.forward_timers = s.forward_timers
         /\ SameRound(s, r)
         /\ r.queue = s.queue /\ r.mon_paused = s.mon_paused
<1> DEFINE gone == candidates \cap (s.members \ {s.apelido})
           left == s.members \ gone
           seen == [m \in Apelido |-> IF m \in gone THEN 0 ELSE s.member_last_seen[m]]
           k == [s EXCEPT !.members = left, !.member_last_seen = seen]
           r == RecomputeRole(k)
           seg == IF r.has_token THEN r.segurando_sozinho \/ Alone(r)
                  ELSE r.segurando_sozinho /\ Cardinality(gone) = 1
           u == [r EXCEPT !.segurando_sozinho = seg]
<1>1. RemoveMembers(s, candidates) = IF gone = {} THEN s ELSE u
  BY DEF RemoveMembers
<1>2. s.apelido \in left /\ left \in SUBSET Apelido /\ seen \in [Apelido -> Nat]
      /\ left \subseteq s.members
  BY DEF RoleInv, NodeStates
<1>3. CASE gone = {}
  BY <1>1, <1>3 DEF SameRound
<1>4. CASE gone # {}
  <2> HIDE DEF gone, left, seen
  <2>1. k \in NodeStates
    BY <1>2 DEF NodeStates
  <2>2. /\ k.members = left /\ k.apelido = s.apelido
        /\ k.observed_activity = s.observed_activity
        /\ SameToken(s, k) /\ SameRound(s, k)
        /\ k.queue = s.queue /\ k.mon_paused = s.mon_paused
    BY DEF SameToken, SameRound, NodeStates
  <2> HIDE DEF k
  <2>3. /\ r \in NodeStates /\ RoleInv(r)
        /\ r.apelido = k.apelido /\ r.members = k.members
        /\ r.observed_activity = k.observed_activity
        /\ r.has_token = k.has_token /\ r.remove_token_pending = k.remove_token_pending
        /\ r.epoch = k.epoch /\ r.forward_timers = k.forward_timers
        /\ SameRound(k, r)
        /\ r.queue = k.queue /\ r.mon_paused = k.mon_paused
    BY <1>2, <2>1, <2>2, RecomputeRoleFacts
  <2> HIDE DEF r
  <2>4. seg \in BOOLEAN /\ (s.has_token /\ Alone(r) => seg)
    BY <2>2, <2>3 DEF NodeStates, SameToken, Alone, IsAlone
  <2> HIDE DEF seg
  <2>5. u \in NodeStates
    BY <2>3, <2>4 DEF NodeStates
  <2>6. /\ SameRole(r, u) /\ SameRound(r, u)
        /\ u.has_token = r.has_token /\ u.remove_token_pending = r.remove_token_pending
        /\ u.epoch = r.epoch /\ u.forward_timers = r.forward_timers
        /\ u.segurando_sozinho = seg
        /\ u.queue = r.queue /\ u.mon_paused = r.mon_paused
    BY <2>3 DEF SameRole, SameRound, NodeStates
  <2>7. RemoveMembers(s, candidates) = u
    BY <1>1, <1>4
  <2> HIDE DEF u
  <2>8. RoleInv(u) /\ Alone(u) = Alone(r)
    BY <2>3, <2>6 DEF RoleInv, SameRole, Alone
  <2>9. Alone(s) => Alone(u)
    <3>1. Alone(s) => s.members = {s.apelido}
      BY AloneMeans DEF RoleInv
    <3>2. Alone(u) <=> u.members = {u.apelido}
      BY <2>5, <2>8, AloneMeans DEF RoleInv
    <3>3. u.members = left /\ u.apelido = s.apelido
      BY <2>2, <2>3, <2>6 DEF SameRole
    <3>4. QED
      BY <1>2, <3>1, <3>2, <3>3
  <2>10. QED
    BY <2>2, <2>3, <2>4, <2>5, <2>6, <2>7, <2>8, <2>9
       DEF SameRole, SameToken, SameRound
<1>5. QED
  BY <1>3, <1>4

\* _on_discovery_tick keeps the invariant, whichever members have expired.
LEMMA OnDiscoveryTickKeeps ==
  ASSUME NEW s, MachineInv(s), NEW recent \in BOOLEAN, NEW expired
  PROVE  Keeps(s, OnDiscoveryTick(s, recent, expired))
<1> DEFINE seen == [s.member_last_seen EXCEPT ![s.apelido] = 0]
           r == [s EXCEPT !.member_last_seen = seen]
           deferred == [r EXCEPT !.discovery_deferred = TRUE]
           resumed == [r EXCEPT !.discovery_deferred = FALSE]
           a == Announce(r, "DISCOVER")
           u == RemoveMembers(a, expired)
<1>1. s \in NodeStates
  BY DEF MachineInv
<1>2. seen \in [Apelido -> Nat]
  BY <1>1 DEF NodeStates
<1>3. OnDiscoveryTick(s, recent, expired) =
        IF s.waiting \/ recent THEN deferred
        ELSE IF s.discovery_deferred THEN Announce(resumed, "DISCOVER")
        ELSE u
  <2>1. r.discovery_deferred = s.discovery_deferred
    BY <1>1 DEF NodeStates
  <2>2. [s EXCEPT !.member_last_seen[s.apelido] = 0] = r
    OBVIOUS
  <2> HIDE DEF r
  <2>3. QED
    BY <2>1, <2>2 DEF OnDiscoveryTick
<1> HIDE DEF seen
<1>4. Quiet(s, r)
  <2>1. r \in NodeStates
    BY <1>1, <1>2 DEF NodeStates
  <2>2. QED
    BY <1>1, <2>1 DEF Quiet, SameRole, SameToken, SameRound, NodeStates
<1>5. r \in NodeStates /\ MachineInv(r)
  BY <1>4, QuietInv DEF Quiet
<1> HIDE DEF r
<1>6. Quiet(r, deferred) /\ Quiet(r, resumed)
  <2>1. deferred \in NodeStates /\ resumed \in NodeStates
    BY <1>5 DEF NodeStates
  <2>2. QED
    BY <1>5, <2>1 DEF Quiet, SameRole, SameToken, SameRound, NodeStates
<1> HIDE DEF deferred, resumed
<1>7. CASE s.waiting \/ recent
  BY <1>3, <1>4, <1>6, <1>7, QuietTrans, QuietInv DEF Keeps
<1>8. CASE ~(s.waiting \/ recent) /\ s.discovery_deferred
  <2>1. Quiet(resumed, Announce(resumed, "DISCOVER"))
    BY <1>6, AnnounceQuiet DEF Quiet
  <2>2. Quiet(s, Announce(resumed, "DISCOVER"))
    BY <1>4, <1>6, <2>1, QuietTrans
  <2>3. QED
    BY <1>3, <1>8, <2>2, QuietInv DEF Keeps
<1>9. CASE ~(s.waiting \/ recent) /\ ~s.discovery_deferred
  <2>1. Quiet(s, a)
    BY <1>4, <1>5, AnnounceQuiet, QuietTrans
  <2> HIDE DEF a
  <2>2. MachineInv(a) /\ ~a.waiting /\ a.queue = s.queue
        /\ a.waiting = s.waiting /\ a.data_attempt_seq = s.data_attempt_seq
    BY <1>9, <2>1, QuietInv DEF Quiet, SameRound
  <2>3. /\ u \in NodeStates /\ RoleInv(u)
        /\ Alone(a) => Alone(u)
        /\ a.has_token /\ (Alone(a) => a.segurando_sozinho)
             => (Alone(u) => u.segurando_sozinho)
        /\ u.observed_activity = a.observed_activity
        /\ u.has_token = a.has_token /\ u.remove_token_pending = a.remove_token_pending
        /\ u.epoch = a.epoch /\ u.forward_timers = a.forward_timers
        /\ SameRound(a, u)
        /\ u.queue = a.queue /\ u.mon_paused = a.mon_paused
    BY <2>2, RemoveMembersFacts DEF MachineInv
  <2>4. OnDiscoveryTick(s, recent, expired) = u
    BY <1>3, <1>9
  <2> HIDE DEF u
  <2>5. TokenInv(u)
    BY <2>2, <2>3 DEF MachineInv, TokenInv, SameRound
  <2>6. RoundInv(u) /\ QueueInv(u.queue)
    BY <2>2, <2>3 DEF MachineInv, RoundInv, SameRound
  <2>7. Counts(s, u)
    BY <1>1, <1>9, <2>2, <2>3, SameCounts DEF SameRound
  <2>8. QED
    BY <2>3, <2>4, <2>5, <2>6, <2>7 DEF Keeps, MachineInv
<1>10. QED
  BY <1>7, <1>8, <1>9

-----------------------------------------------------------------------------
\* The handler of DATA

\* A NAK either marks the head for its one retransmission or removes it.
LEMMA NakReturnFacts ==
  ASSUME NEW s \in NodeStates, QueueInv(s.queue), s.queue # <<>>
  PROVE  LET r == NakReturn(s) IN
         /\ r \in NodeStates
         /\ SameRole(s, r) /\ SameToken(s, r) /\ SameRound(s, r)
         /\ QueueInv(r.queue)
         /\ \/ /\ Len(r.queue) = Len(s.queue) - 1
               /\ r.queue # <<>> => ~Head(r.queue).retransmit_used
            \/ /\ Len(r.queue) = Len(s.queue)
               /\ r.queue # <<>>
               /\ Head(r.queue).retransmit_used
               /\ ~Head(s.queue).retransmit_used
<1>1. s.queue \in Seq(Item) /\ Head(s.queue) \in Item /\ Head(s.queue) = s.queue[1]
      /\ 1 \in DOMAIN s.queue
  BY HeadItem DEF NodeStates
<1>2. CASE Head(s.queue).retransmit_used
  <2>1. NakReturn(s) = DropHead(s)
    BY <1>2 DEF NakReturn
  <2>2. QED
    BY <2>1, DropHeadFacts
<1>3. CASE ~Head(s.queue).retransmit_used
  <2> DEFINE item == [Head(s.queue) EXCEPT !.retransmit_used = TRUE,
                                           !.skip_fault_injection = TRUE]
             q == [s.queue EXCEPT ![1] = item]
             r == [s EXCEPT !.queue = q]
  <2>1. item \in Item /\ item.retransmit_used /\ item.skip_fault_injection
    BY <1>1 DEF Item
  <2>2. NakReturn(s) = r
    BY <1>1, <1>3 DEF NakReturn
  <2> HIDE DEF item
  <2>3. q \in Seq(Item) /\ Len(q) = Len(s.queue) /\ q # <<>> /\ Head(q) = item
    BY <1>1, <2>1
  <2>4. QueueInv(q)
    BY <1>1, <2>1 DEF QueueInv
  <2> HIDE DEF q
  <2>5. r \in NodeStates
    BY <2>3 DEF NodeStates
  <2>6. SameRole(s, r) /\ SameToken(s, r) /\ SameRound(s, r) /\ r.queue = q
    BY DEF SameRole, SameToken, SameRound, NodeStates
  <2> HIDE DEF r
  <2>7. QED
    BY <1>3, <2>1, <2>2, <2>3, <2>4, <2>5, <2>6
<1>4. QED
  BY <1>2, <1>3

\* What is left of a round when its DATA is back, before it is completed.
LEMMA ConcludeReturnFacts ==
  ASSUME NEW s, MachineInv(s), s.waiting, NEW f
  PROVE  LET r == ConcludeReturn(s, f) IN
         /\ r \in NodeStates /\ RoleInv(r) /\ QueueInv(r.queue)
         /\ r.has_token /\ r.observed_activity
         /\ Alone(r) => r.segurando_sozinho
         /\ r.data_attempt_seq = s.data_attempt_seq
         /\ \/ /\ Len(r.queue) = Len(s.queue) - 1
               /\ r.queue # <<>> => ~Head(r.queue).retransmit_used
            \/ /\ Len(r.queue) = Len(s.queue)
               /\ r.queue # <<>>
               /\ Head(r.queue).retransmit_used
               /\ ~Head(s.queue).retransmit_used
<1> DEFINE k == NakReturn(s)
           d == DropHead(s)
           u == RemoveMembers(d, {f.destino})
<1>1. /\ s \in NodeStates /\ QueueInv(s.queue) /\ s.queue # <<>>
      /\ RoleInv(s) /\ s.has_token /\ s.observed_activity
      /\ Alone(s) => s.segurando_sozinho
  BY DEF MachineInv, RoundInv, TokenInv
<1>2. /\ k \in NodeStates
      /\ SameRole(s, k) /\ SameToken(s, k) /\ SameRound(s, k)
      /\ QueueInv(k.queue)
      /\ \/ /\ Len(k.queue) = Len(s.queue) - 1
            /\ k.queue # <<>> => ~Head(k.queue).retransmit_used
         \/ /\ Len(k.queue) = Len(s.queue)
            /\ k.queue # <<>>
            /\ Head(k.queue).retransmit_used
            /\ ~Head(s.queue).retransmit_used
  BY <1>1, NakReturnFacts
<1>3. /\ d \in NodeStates
      /\ SameRole(s, d) /\ SameToken(s, d) /\ SameRound(s, d)
      /\ QueueInv(d.queue)
      /\ Len(d.queue) = Len(s.queue) - 1
      /\ d.queue # <<>> => ~Head(d.queue).retransmit_used
  BY <1>1, DropHeadFacts
<1>4. ConcludeReturn(s, f) = k \/ ConcludeReturn(s, f) = d \/ ConcludeReturn(s, f) = u
  BY DEF ConcludeReturn
<1> HIDE DEF k, d
<1>5. RoleInv(d) /\ Alone(d) = Alone(s) /\ RoleInv(k) /\ Alone(k) = Alone(s)
  BY <1>1, <1>2, <1>3 DEF RoleInv, SameRole, Alone
<1>6. CASE ConcludeReturn(s, f) = k
  BY <1>1, <1>2, <1>5, <1>6 DEF SameRole, SameToken, SameRound
<1>7. CASE ConcludeReturn(s, f) = d
  BY <1>1, <1>3, <1>5, <1>7 DEF SameRole, SameToken, SameRound
<1>8. CASE ConcludeReturn(s, f) = u
  <2>1. /\ u \in NodeStates /\ RoleInv(u)
        /\ Alone(d) => Alone(u)
        /\ d.has_token /\ (Alone(d) => d.segurando_sozinho)
             => (Alone(u) => u.segurando_sozinho)
        /\ u.observed_activity = d.observed_activity
        /\ u.has_token = d.has_token
        /\ SameRound(d, u)
        /\ u.queue = d.queue
    BY <1>3, <1>5, RemoveMembersFacts
  <2> HIDE DEF u
  <2>2. d.has_token /\ d.observed_activity /\ (Alone(d) => d.segurando_sozinho)
        /\ d.data_attempt_seq = s.data_attempt_seq
    BY <1>1, <1>3, <1>5 DEF SameRole, SameToken, SameRound
  <2>3. QED
    BY <1>3, <1>8, <2>1, <2>2 DEF SameRound
<1>9. QED
  BY <1>4, <1>6, <1>7, <1>8

\* A message kept for its retransmission counts its first transmission.
LEMMA RetryCounts ==
  ASSUME NEW s \in NodeStates, NEW r \in NodeStates, s.queue # <<>>, s.waiting,
         Len(r.queue) = Len(s.queue), ~r.waiting, r.queue # <<>>,
         Head(r.queue).retransmit_used, ~Head(s.queue).retransmit_used,
         r.data_attempt_seq = s.data_attempt_seq
  PROVE  Counts(s, r)
<1>1. TriesOf(r) = 1 /\ TriesOf(s) = 1
  BY DEF TriesOf
<1>2. s.data_attempt_seq \in Nat /\ Len(s.queue) \in Nat
  BY DEF NodeStates
<1>3. QED
  BY <1>1, <1>2 DEF Counts

\* Noting DATA on the bus touches nothing else.
LEMMA DataActivityQuiet ==
  ASSUME NEW s \in NodeStates
  PROVE  Quiet(s, [s EXCEPT !.last_data_activity = 0])
BY DEF Quiet, SameRole, SameToken, SameRound, NodeStates

\* A DATA that was answered is still a DATA (set_controle).
LEMMA AnswerIsFrame ==
  ASSUME NEW f \in Frame
  PROVE  Answer(f) \in Frame
<1>1. CTRL_ACK \in Controle /\ CTRL_NAK \in Controle
  BY DEF Controle
<1>2. QED
  BY <1>1 DEF Answer, Frame

\* _on_rx_data keeps the invariant, whatever DATA arrives.
LEMMA OnRxDataKeeps ==
  ASSUME NEW s, MachineInv(s), NEW f \in Frame
  PROVE  Keeps(s, OnRxData(s, f))
<1> DEFINE o == ObservedActivity(s)
           t == NoteActivity([o EXCEPT !.last_data_activity = 0])
           c == CompleteDataRound(ConcludeReturn(t, f))
           g == IF f.destino = t.apelido THEN Answer(f) ELSE f
<1>1. MachineInv(t) /\ t.queue = s.queue /\ t.waiting = s.waiting
      /\ t.data_attempt_seq = s.data_attempt_seq /\ t.apelido = s.apelido
  <2> DEFINE n == NoteActivity(o)
  <2>1. /\ MachineInv(n) /\ n.queue = s.queue /\ n.waiting = s.waiting
        /\ n.data_attempt_seq = s.data_attempt_seq
    BY ObservedFacts
  <2>2. o \in NodeStates /\ s \in NodeStates
    BY DEF MachineInv, ObservedActivity, NodeStates
  <2>3. t = [n EXCEPT !.last_data_activity = 0]
    BY <2>2 DEF NoteActivity, NodeStates
  <2>4. n.apelido = s.apelido
    BY <2>2 DEF NoteActivity, ObservedActivity, NodeStates
  <2> HIDE DEF n, t
  <2>5. Quiet(n, t)
    BY <2>1, <2>3, DataActivityQuiet DEF MachineInv
  <2>6. QED
    BY <2>1, <2>4, <2>5, QuietInv DEF Quiet, SameRole, SameRound
<1>2. OnRxData(s, f) =
        IF f.origem = s.apelido THEN IF EndsRound(t, f) THEN c ELSE t
        ELSE SendFrame(t, g)
  <2>1. OnRxData(s, f) =
          IF f.origem = t.apelido THEN IF EndsRound(t, f) THEN c ELSE t
          ELSE SendFrame(t, g)
    <3>1. s \in NodeStates
      BY DEF MachineInv
    <3>2. [s EXCEPT !.observed_activity = TRUE, !.last_data_activity = 0]
            = [o EXCEPT !.last_data_activity = 0]
      BY DEF ObservedActivity
    <3>3. QED
      BY <3>2 DEF OnRxData
  <2>2. QED
    BY <1>1, <2>1
<1> HIDE DEF t
<1>3. s \in NodeStates /\ t \in NodeStates /\ t.apelido \in t.members
  BY <1>1 DEF MachineInv, RoleInv
<1>4. Keeps(s, t)
  BY <1>1, <1>3, SameCounts DEF Keeps
<1>5. ASSUME EndsRound(t, f)
      PROVE  Keeps(s, c)
  <2> DEFINE u == ConcludeReturn(t, f)
  <2>1. t.waiting /\ t.queue # <<>>
    BY <1>1, <1>5 DEF EndsRound, MachineInv, RoundInv
  <2>2. /\ u \in NodeStates /\ RoleInv(u) /\ QueueInv(u.queue)
        /\ u.has_token /\ u.observed_activity
        /\ Alone(u) => u.segurando_sozinho
        /\ u.data_attempt_seq = t.data_attempt_seq
        /\ \/ /\ Len(u.queue) = Len(t.queue) - 1
              /\ u.queue # <<>> => ~Head(u.queue).retransmit_used
           \/ /\ Len(u.queue) = Len(t.queue)
              /\ u.queue # <<>>
              /\ Head(u.queue).retransmit_used
              /\ ~Head(t.queue).retransmit_used
    BY <1>1, <2>1, ConcludeReturnFacts
  <2> HIDE DEF u
  <2>3. /\ MachineInv(CompleteDataRound(u)) /\ ~CompleteDataRound(u).waiting
        /\ CompleteDataRound(u).queue = u.queue
        /\ CompleteDataRound(u).data_attempt_seq = u.data_attempt_seq
    BY <2>2, CompleteDataRoundInv
  <2>4. c = CompleteDataRound(u)
    BY DEF u
  <2> HIDE DEF c
  <2>5. c \in NodeStates
    BY <2>3, <2>4 DEF MachineInv
  <2>6. Counts(t, c)
    <3>1. CASE Len(u.queue) = Len(t.queue) - 1 /\ (u.queue # <<>> => ~Head(u.queue).retransmit_used)
      BY <1>3, <2>1, <2>2, <2>3, <2>4, <2>5, <3>1, PopCounts
    <3>2. CASE /\ Len(u.queue) = Len(t.queue)
               /\ u.queue # <<>>
               /\ Head(u.queue).retransmit_used
               /\ ~Head(t.queue).retransmit_used
      BY <1>3, <2>1, <2>2, <2>3, <2>4, <2>5, <3>2, RetryCounts
    <3>3. QED
      BY <2>2, <3>1, <3>2
  <2>7. TriesOf(s) = TriesOf(t)
    BY <1>1 DEF TriesOf
  <2>8. Counts(s, c)
    BY <1>1, <2>6, <2>7 DEF Counts
  <2>9. QED
    BY <2>3, <2>4, <2>8 DEF Keeps
<1>6. Keeps(s, SendFrame(t, g))
  <2>1. g \in Frame
    BY AnswerIsFrame
  <2> HIDE DEF g
  <2>2. Quiet(t, SendFrame(t, g))
    BY <1>3, <2>1, SendFrameQuiet
  <2>3. QED
    BY <1>4, <2>2, KeepsThenQuiet
<1>7. QED
  BY <1>2, <1>4, <1>5, <1>6

-----------------------------------------------------------------------------
\* The user commands

\* A message queued behind the others is fresh and leaves the head alone.
LEMMA AppendItem ==
  ASSUME NEW q \in Seq(Item), QueueInv(q), NEW item \in Item, ~item.retransmit_used
  PROVE  /\ Append(q, item) \in Seq(Item) /\ QueueInv(Append(q, item))
         /\ Len(Append(q, item)) = Len(q) + 1 /\ Append(q, item) # <<>>
         /\ q # <<>> => Head(Append(q, item)) = Head(q)
         /\ q = <<>> => Head(Append(q, item)) = item
<1>1. /\ Append(q, item) \in Seq(Item) /\ Len(Append(q, item)) = Len(q) + 1
      /\ \A i \in 1 .. Len(q) : Append(q, item)[i] = q[i]
      /\ Append(q, item)[Len(q) + 1] = item
  BY AppendProperties
<1>2. QueueInv(Append(q, item))
  BY <1>1 DEF QueueInv
<1>3. q # <<>> => Head(Append(q, item)) = Head(q)
  BY <1>1
<1>4. q = <<>> => Head(Append(q, item)) = item
  BY <1>1
<1>5. Append(q, item) # <<>>
  BY <1>1
<1>6. QED
  BY <1>1, <1>2, <1>3, <1>4, <1>5

\* _on_cmd_send keeps the invariant, with room in the queue or without.
LEMMA OnCmdSendKeeps ==
  ASSUME NEW s, MachineInv(s), NEW destino \in Destino, NEW text \in Text, NEW no \in Nat
  PROVE  Keeps(s, OnCmdSend(s, destino, text, no))
<1> DEFINE item == [destino |-> destino, text |-> text, no |-> no,
                    skip_fault_injection |-> FALSE, retransmit_used |-> FALSE]
           q == Append(s.queue, item)
           r == [s EXCEPT !.queue = q]
<1>1. s \in NodeStates /\ s.queue \in Seq(Item) /\ QueueInv(s.queue)
  BY DEF MachineInv, NodeStates
<1>2. item \in Item /\ ~item.retransmit_used
  BY DEF Item
<1>3. OnCmdSend(s, destino, text, no) = IF Len(s.queue) >= QueueMax THEN s ELSE r
  BY DEF OnCmdSend
<1> HIDE DEF item
<1>4. /\ q \in Seq(Item) /\ QueueInv(q) /\ Len(q) = Len(s.queue) + 1 /\ q # <<>>
      /\ s.queue # <<>> => Head(q) = Head(s.queue)
      /\ s.queue = <<>> => Head(q) = item
  BY <1>1, <1>2, AppendItem
<1> HIDE DEF q
<1>5. r \in NodeStates
  BY <1>1, <1>4 DEF NodeStates
<1>6. /\ SameRole(s, r) /\ SameToken(s, r) /\ SameRound(s, r)
      /\ r.mon_paused = s.mon_paused /\ r.queue = q
  BY <1>1 DEF SameRole, SameToken, SameRound, NodeStates
<1> HIDE DEF r
<1>7. Alone(r) = Alone(s)
  BY <1>6 DEF Alone, SameRole
<1>8. RoleInv(r) /\ TokenInv(r)
  BY <1>6, <1>7 DEF MachineInv, RoleInv, TokenInv, SameRole, SameToken, SameRound
<1>9. RoundInv(r)
  BY <1>4, <1>6 DEF MachineInv, RoundInv, SameToken, SameRound
<1>10. TriesOf(r) = TriesOf(s)
  <2>1. CASE s.queue = <<>>
    BY <1>2, <1>4, <1>6, <2>1 DEF TriesOf, SameRound
  <2>2. CASE s.queue # <<>>
    BY <1>4, <1>6, <2>2 DEF TriesOf, SameRound
  <2>3. QED
    BY <2>1, <2>2
<1>11. Counts(s, r)
  <2>1. TriesOf(s) \in Nat /\ s.data_attempt_seq \in Nat /\ Len(s.queue) \in Nat
    BY <1>1 DEF TriesOf, NodeStates
  <2>2. QED
    BY <1>4, <1>6, <1>10, <2>1 DEF Counts, SameRound
<1>12. MachineInv(r)
  BY <1>4, <1>5, <1>6, <1>8, <1>9 DEF MachineInv
<1>13. Counts(s, s)
  BY <1>1, SameCounts
<1>14. QED
  BY <1>3, <1>11, <1>12, <1>13 DEF Keeps

\* _on_cmd_add_token keeps the invariant: only a datagram is sent.
LEMMA OnCmdAddTokenKeeps ==
  ASSUME NEW s, MachineInv(s)
  PROVE  Keeps(s, OnCmdAddToken(s))
<1>1. s \in NodeStates /\ s.apelido \in s.members
  BY DEF MachineInv, RoleInv
<1>2. Quiet(s, SendToken(s))
  BY <1>1, SendTokenQuiet
<1>3. Quiet(SendToken(s), NoteActivity(SendToken(s)))
  BY <1>2, NoteActivityQuiet DEF Quiet
<1>4. Quiet(s, OnCmdAddToken(s))
  BY <1>2, <1>3, QuietTrans DEF OnCmdAddToken, InjectToken
<1>5. QED
  BY <1>4, QuietInv DEF Keeps

\* _on_cmd_remove_token keeps the invariant, at once or promised.
LEMMA OnCmdRemoveTokenKeeps ==
  ASSUME NEW s, MachineInv(s)
  PROVE  Keeps(s, OnCmdRemoveToken(s))
<1> DEFINE ep == s.epoch + 1
           w == [s EXCEPT !.remove_token_pending = FALSE, !.has_token = FALSE, !.epoch = ep]
           t == [w EXCEPT !.active_data_attempt = NoAttempt, !.active_data_fingerprint = None]
           r == RefreshMonitorPause(t)
           p == [s EXCEPT !.remove_token_pending = TRUE]
<1>1. s \in NodeStates
  BY DEF MachineInv
<1>2. ep \in Nat
  BY <1>1 DEF NodeStates
<1>3. OnCmdRemoveToken(s) = IF s.has_token /\ ~s.waiting THEN r ELSE p
  <2>1. [s EXCEPT !.has_token = FALSE, !.epoch = @ + 1,
                  !.active_data_attempt = NoAttempt, !.active_data_fingerprint = None,
                  !.remove_token_pending = FALSE] = t
    BY <1>1 DEF NodeStates
  <2>2. QED
    BY <2>1 DEF OnCmdRemoveToken
<1> HIDE DEF ep
<1>4. w \in NodeStates
  BY <1>1, <1>2, WithdrawnType
<1>5. /\ SameRole(s, w) /\ w.queue = s.queue /\ w.waiting = s.waiting
      /\ w.data_attempt_seq = s.data_attempt_seq
      /\ w.has_token = FALSE /\ w.remove_token_pending = FALSE
  BY <1>1 DEF SameRole, NodeStates
<1> HIDE DEF w
<1>6. t \in NodeStates
  BY <1>4 DEF NodeStates, NoAttempt
<1>7. /\ SameRole(w, t) /\ t.queue = w.queue /\ t.waiting = w.waiting
      /\ t.data_attempt_seq = w.data_attempt_seq
      /\ t.has_token = w.has_token
  BY <1>4 DEF SameRole, NodeStates
<1> HIDE DEF t
<1>8. CASE s.has_token /\ ~s.waiting
  <2>1. /\ r \in NodeStates /\ SameRole(t, r) /\ SameToken(t, r) /\ SameRound(t, r)
        /\ r.queue = t.queue /\ r.mon_paused = (t.has_token \/ t.waiting)
    BY <1>6, RefreshMonitorPauseFacts
  <2> HIDE DEF r
  <2>2. s.waiting = FALSE
    BY <1>1, <1>8 DEF NodeStates
  <2>3. /\ SameRole(s, r) /\ r.queue = s.queue /\ r.waiting = FALSE
        /\ r.data_attempt_seq = s.data_attempt_seq
        /\ r.has_token = FALSE /\ r.mon_paused = FALSE
    BY <1>5, <1>7, <2>1, <2>2 DEF SameRole, SameToken, SameRound
  <2>4. MachineInv(r)
    BY <2>1, <2>3 DEF MachineInv, RoleInv, RoundInv, TokenInv, SameRole
  <2>5. Counts(s, r)
    BY <1>1, <2>1, <2>2, <2>3, SameCounts
  <2>6. QED
    BY <1>3, <1>8, <2>4, <2>5 DEF Keeps
<1>9. CASE ~(s.has_token /\ ~s.waiting)
  <2>1. p \in NodeStates
    BY <1>1 DEF NodeStates
  <2>2. /\ SameRole(s, p) /\ SameRound(s, p) /\ p.queue = s.queue
        /\ p.mon_paused = s.mon_paused /\ p.has_token = s.has_token
        /\ p.epoch = s.epoch /\ p.forward_timers = s.forward_timers
        /\ p.segurando_sozinho = s.segurando_sozinho
    BY <1>1 DEF SameRole, SameRound, NodeStates
  <2> HIDE DEF p
  <2>3. Alone(p) = Alone(s)
    BY <2>2 DEF Alone, SameRole
  <2>4. MachineInv(p)
    BY <1>9, <2>1, <2>2, <2>3
       DEF MachineInv, RoleInv, RoundInv, TokenInv, SameRole, SameRound
  <2>5. Counts(s, p)
    BY <1>1, <2>1, <2>2, SameCounts DEF SameRound
  <2>6. QED
    BY <1>3, <1>9, <2>4, <2>5 DEF Keeps
<1>10. QED
  BY <1>8, <1>9


-----------------------------------------------------------------------------
\* What the other threads of a machine do with its state

\* The thread of the monitor only posts an event.
LEMMA MonitorFiresKeeps ==
  ASSUME NEW s, MachineInv(s)
  PROVE  Keeps(s, MonitorFires(s))
<1>1. Quiet(s, MonitorFires(s))
  BY DEF MachineInv, MonitorFires, Quiet, SameRole, SameToken, SameRound, NodeStates
<1>2. QED
  BY <1>1, QuietInv DEF Keeps

\* The timer of the first evaluation only posts an event.
LEMMA EvalTimerFiresKeeps ==
  ASSUME NEW s, MachineInv(s)
  PROVE  Keeps(s, EvalTimerFires(s))
<1>1. Quiet(s, EvalTimerFires(s))
  BY DEF MachineInv, EvalTimerFires, Quiet, SameRole, SameToken, SameRound, NodeStates
<1>2. QED
  BY <1>1, QuietInv DEF Keeps
-----------------------------------------------------------------------------
\* The start

\* Node.__init__ and Node.start make a machine that keeps the invariant.
LEMMA StartedFacts ==
  ASSUME NEW me \in Apelido
  PROVE  LET s == StartedNode(me) IN
         /\ MachineInv(s) /\ s.apelido = me /\ s.members = {me} /\ s.epoch = 0
         /\ s.has_token = FALSE /\ s.waiting = FALSE /\ s.queue = <<>>
         /\ s.discovery_deferred = FALSE /\ s.out.data = {}
         /\ s.member_last_seen = [m \in Apelido |-> 0]
         /\ s.forward_timers = [e \in 0 .. MaxEpoch |-> 0] /\ s.return_timers = {}
<1> DEFINE seen == [m \in Apelido |-> 0]
           timers == [e \in 0 .. MaxEpoch |-> 0]
           first == [apelido |-> me, members |-> {me}, member_last_seen |-> seen,
              is_controller |-> TRUE, has_token |-> FALSE, first_token_generated |-> FALSE,
              observed_activity |-> FALSE, epoch |-> 0, last_token_rx |-> NoInstant,
              expect_token_return |-> FALSE, tokens_perdidos |-> 0, tokens_duplicados |-> 0,
              remove_token_pending |-> FALSE, waiting |-> FALSE, data_attempt_seq |-> 0,
              active_data_attempt |-> NoAttempt, active_data_fingerprint |-> None,
              last_data_activity |-> 0, segurando_sozinho |-> FALSE,
              discovery_deferred |-> FALSE, queue |-> <<>>, forward_timers |-> timers,
              return_timers |-> {}, eval_armed |-> TRUE, eval_posted |-> FALSE,
              mon_enabled |-> FALSE, mon_paused |-> FALSE, mon_silence |-> 0,
              mon_posted |-> FALSE, out |-> NoOut]
           s == StartedNode(me)
<1>1. me \in Nat
  BY ApelidoAssumption
<1>2. s = Announce(first, "DISCOVER")
  BY DEF StartedNode
<1>3. /\ first.apelido = me /\ first.members = {me} /\ first.is_controller = TRUE
      /\ first.mon_enabled = FALSE /\ first.waiting = FALSE /\ first.has_token = FALSE
      /\ first.mon_paused = FALSE /\ first.queue = <<>> /\ first.epoch = 0
      /\ first.remove_token_pending = FALSE /\ first.discovery_deferred = FALSE
      /\ first.member_last_seen = seen /\ first.forward_timers = timers
      /\ first.return_timers = {} /\ first.out = NoOut
  OBVIOUS
<1>4. first \in NodeStates
  <2>1. seen \in [Apelido -> Nat] /\ timers \in [0 .. MaxEpoch -> Nat]
    OBVIOUS
  <2> HIDE DEF seen, timers
  <2>2. <<>> \in Seq(Item) /\ NoAttempt \in Nat
    BY DEF NoAttempt
  <2>3. NoOut \in Out
    BY DEF NoOut, Out
  <2>4. QED
    BY <1>1, <2>1, <2>2, <2>3 DEF NodeStates
<1> HIDE DEF first, s
<1>5. IsController({me}, me)
  BY <1>1, MinOfNaturals DEF IsController, ControllerApelido
<1>6. MachineInv(first)
  <2>1. RoleInv(first)
    BY <1>3, <1>5 DEF RoleInv, IsController
  <2>2. QueueInv(first.queue)
    BY <1>3 DEF QueueInv
  <2>3. RoundInv(first) /\ TokenInv(first)
    BY <1>3 DEF RoundInv, TokenInv
  <2>4. QED
    BY <1>4, <2>1, <2>2, <2>3 DEF MachineInv
<1>7. Quiet(first, s)
  BY <1>2, <1>4, AnnounceQuiet
<1>8. s.discovery_deferred = FALSE /\ s.member_last_seen = seen
  BY <1>2, <1>3, <1>4, FieldsOf DEF Announce, NodeFields
<1>9. s.out.data = {}
  BY <1>2, <1>3, <1>4, FieldsOf DEF Announce, NodeFields, NoOut
<1>10. QED
  BY <1>3, <1>6, <1>7, <1>8, <1>9, QuietInv DEF Quiet, SameRole, SameToken, SameRound, s
=============================================================================
