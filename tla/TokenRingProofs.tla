-------------------------- MODULE TokenRingProofs --------------------------
(***************************************************************************)
(* What holds of every ring of TokenRing, whatever its machines, its       *)
(* durations, its users and its network.                                   *)
(*                                                                         *)
(* First sums over the machines, which count tokens; then what every       *)
(* handler does at a machine of a formed ring; then the invariant and what *)
(* follows from it; at the end the rings whose durations fit, which        *)
(* implement RingService.                                                  *)
(***************************************************************************)
EXTENDS TokenRing, NodeHandlersProofs

-----------------------------------------------------------------------------
\* Sums

\* What a fold adds up: the sums over all subsets, each from a smaller one.
Sums(g, f, S) ==
  g = [s \in SUBSET S |-> IF s = {} THEN 0
                          ELSE f[CHOOSE x \in s : TRUE] + g[s \ {CHOOSE x \in s : TRUE}]]

\* There are such sums.
LEMMA SumsExist ==
  ASSUME NEW S, IsFiniteSet(S), NEW f
  PROVE  \E g : Sums(g, f, S)
<1> DEFINE x(s) == CHOOSE x \in s : TRUE
           D(n) == {s \in SUBSET S : Cardinality(s) <= n}
           Upto(g, n) == \A s \in D(n) : g[s] = IF s = {} THEN 0 ELSE f[x(s)] + g[s \ {x(s)}]
           A == {n \in Nat : \E g : Upto(g, n)}
<1>1. \A s \in SUBSET S : IsFiniteSet(s) /\ Cardinality(s) \in Nat
  BY FS_Subset, FS_CardinalityType
<1>2. 0 \in A
  <2> DEFINE g == [s \in SUBSET S |-> 0]
  <2>1. Upto(g, 0)
    BY <1>1, FS_EmptySet
  <2>2. QED
    BY <2>1
<1>3. ASSUME NEW n \in A
      PROVE  n + 1 \in A
  <2>1. PICK g : Upto(g, n)
    OBVIOUS
  <2> DEFINE h == [s \in D(n + 1) |-> IF s = {} THEN 0 ELSE f[x(s)] + g[s \ {x(s)}]]
  <2>2. ASSUME NEW s \in D(n + 1), s # {}
        PROVE  s \ {x(s)} \in D(n) /\ s \ {x(s)} \in D(n + 1)
    <3>1. x(s) \in s
      BY <2>2
    <3> HIDE DEF x
    <3>2. Cardinality(s \ {x(s)}) = Cardinality(s) - 1
      BY <1>1, <3>1, FS_RemoveElement
    <3>3. QED
      BY <1>1, <3>2
  <2>3. ASSUME NEW s \in D(n), s \in D(n + 1)
        PROVE  h[s] = g[s]
    <3>1. h[s] = IF s = {} THEN 0 ELSE f[x(s)] + g[s \ {x(s)}]
      BY <2>3
    <3>2. QED
      BY <2>1, <3>1
  <2>4. Upto(h, n + 1)
    <3> SUFFICES ASSUME NEW s \in D(n + 1)
                 PROVE  h[s] = IF s = {} THEN 0 ELSE f[x(s)] + h[s \ {x(s)}]
      OBVIOUS
    <3>1. h[s] = IF s = {} THEN 0 ELSE f[x(s)] + g[s \ {x(s)}]
      OBVIOUS
    <3> HIDE DEF h, D, x
    <3>2. QED
      BY <2>2, <2>3, <3>1
  <2>5. n + 1 \in Nat
    OBVIOUS
  <2> HIDE DEF h, Upto
  <2>6. QED
    BY <2>4, <2>5
<1>4. A = Nat
  <2> HIDE DEF Upto
  <2>1. A \in SUBSET Nat
    OBVIOUS
  <2> HIDE DEF A
  <2>2. QED
    BY <1>2, <1>3, <2>1, SetOfNaturals
<1>5. PICK g : Upto(g, Cardinality(S))
  BY ZenonT(60), <1>1, <1>4
<1>6. \A s \in SUBSET S : s \in D(Cardinality(S))
  BY <1>1, FS_Subset
<1> DEFINE h == [s \in SUBSET S |-> g[s]]
<1>7. Sums(h, f, S)
  <2>1. \A s \in SUBSET S : h[s] = IF s = {} THEN 0 ELSE f[x(s)] + h[s \ {x(s)}]
    BY <1>5, <1>6
  <2>2. QED
    BY <2>1 DEF Sums
<1>8. QED
  BY <1>7

\* Sums of integers are integers, and what is added to one element is added
\* to the sum of every subset that has it.
LEMMA SumsChange ==
  ASSUME NEW S, IsFiniteSet(S), NEW a \in S,
         NEW f \in [S -> Int], NEW g, Sums(g, f, S),
         NEW e \in [S -> Int], NEW h, Sums(h, e, S),
         \A b \in S : b # a => e[b] = f[b]
  PROVE  /\ g[S] \in Int
         /\ h[S] = g[S] + (e[a] - f[a])
<1> DEFINE x(s) == CHOOSE x \in s : TRUE
           Q == {s \in SUBSET S : /\ g[s] \in Int
                                  /\ h[s] = g[s] + (IF a \in s THEN e[a] - f[a] ELSE 0)}
<1>1. \A s \in SUBSET S : /\ g[s] = IF s = {} THEN 0 ELSE f[x(s)] + g[s \ {x(s)}]
                          /\ h[s] = IF s = {} THEN 0 ELSE e[x(s)] + h[s \ {x(s)}]
  BY Zenon DEF Sums
<1>2. {} \in Q
  <2>1. {} \in SUBSET S
    OBVIOUS
  <2>2. g[{}] = 0 /\ h[{}] = 0
    BY <1>1, <2>1, Zenon
  <2>3. QED
    BY <2>1, <2>2
<1>3. ASSUME NEW s \in SUBSET S, s # {}, s \ {x(s)} \in Q
      PROVE  s \in Q
  <2>1. x(s) \in s
    BY <1>3
  <2>2. g[s] = f[x(s)] + g[s \ {x(s)}] /\ h[s] = e[x(s)] + h[s \ {x(s)}]
    BY <1>1, <1>3
  <2> DEFINE y == x(s)
             t == s \ {y}
  <2>3. y \in S /\ y \in s /\ g[s] = f[y] + g[t] /\ h[s] = e[y] + h[t] /\ t \in Q
    BY <1>3, <2>1, <2>2
  <2> HIDE DEF y
  <2>4. f[y] \in Int /\ e[y] \in Int /\ f[a] \in Int /\ e[a] \in Int
    BY <2>3
  <2>5. g[t] \in Int /\ h[t] = g[t] + (IF a \in t THEN e[a] - f[a] ELSE 0)
    BY <2>3
  <2>6. CASE y = a
    <3>1. h[t] = g[t] /\ a \in s
      BY <2>3, <2>4, <2>5, <2>6
    <3>2. QED
      BY <2>3, <2>4, <2>5, <2>6, <3>1
  <2>7. CASE y # a
    <3>1. a \in t <=> a \in s
      BY <2>7
    <3>2. e[y] = f[y]
      BY <2>3, <2>7
    <3> HIDE DEF t
    <3>3. QED
      BY <2>3, <2>4, <2>5, <3>1, <3>2
  <2>8. QED
    BY <2>6, <2>7
<1>4. SUBSET S \subseteq Q
  <2> HIDE DEF Q
  <2>1. QED
    BY <1>2, <1>3, SubsetInduction
<1>5. S \in Q
  BY <1>4
<1>6. QED
  BY <1>5

\* Sums of naturals are naturals, and sums of zeros are zero.
LEMMA SumsOfNaturals ==
  ASSUME NEW S, IsFiniteSet(S), NEW f \in [S -> Nat], NEW g, Sums(g, f, S)
  PROVE  /\ g[S] \in Nat
         /\ (\A a \in S : f[a] = 0) => g[S] = 0
<1> DEFINE x(s) == CHOOSE x \in s : TRUE
           Q == {s \in SUBSET S : g[s] \in Nat /\ ((\A a \in S : f[a] = 0) => g[s] = 0)}
<1>1. \A s \in SUBSET S : g[s] = IF s = {} THEN 0 ELSE f[x(s)] + g[s \ {x(s)}]
  BY Zenon DEF Sums
<1>2. {} \in Q
  <2>1. {} \in SUBSET S
    OBVIOUS
  <2>2. g[{}] = 0
    BY <1>1, <2>1, Zenon
  <2>3. QED
    BY <2>1, <2>2
<1>3. ASSUME NEW s \in SUBSET S, s # {}, s \ {x(s)} \in Q
      PROVE  s \in Q
  <2>1. x(s) \in S /\ g[s] = f[x(s)] + g[s \ {x(s)}]
    BY <1>1, <1>3
  <2> HIDE DEF x
  <2>2. f[x(s)] \in Nat /\ g[s \ {x(s)}] \in Nat
    BY <1>3, <2>1
  <2>3. QED
    BY <1>3, <2>1, <2>2
<1>4. SUBSET S \subseteq Q
  <2> HIDE DEF Q
  <2>1. QED
    BY <1>2, <1>3, SubsetInduction
<1>5. QED
  BY <1>4

-----------------------------------------------------------------------------
\* What handlers do at a machine of the ring

\* A machine of the ring that has sent nothing yet.
InRing(s) ==
  /\ DOMAIN s = NodeFields
  /\ s.apelido \in Machines /\ s.members = Machines
  /\ s.queue \in Seq(Item)
  /\ s.out = NoOut

\* Where it sends.
To(s) == Successor(Machines, s.apelido)

\* What a handler leaves alone, and what it sends.
SamePlace(s, r) ==
  /\ r.apelido = s.apelido /\ r.members = s.members
  /\ r.remove_token_pending = s.remove_token_pending
SameMonitor(s, r) ==
  r.mon_posted = s.mon_posted /\ r.tokens_perdidos = s.tokens_perdidos
SameWait(s, r) ==
  r.waiting = s.waiting /\ r.active_data_fingerprint = s.active_data_fingerprint
Silent(r) == r.out.token = {} /\ r.out.data = {}
Passes(s, r) == r.out.token = {To(s)} /\ r.out.data = {}

\* It sends the head of its queue round the ring.
Launches(s, r) ==
  /\ r.waiting /\ r.out.token = {}
  /\ \E f \in Frame :
       /\ f.origem = s.apelido /\ f.controle = CTRL_NONE
       /\ f.destino = Head(s.queue).destino
       /\ f.crc = Head(s.queue).text /\ f.no = Head(s.queue).no
       /\ r.active_data_fingerprint = FingerprintOf(f)
       /\ r.out.data = {[to |-> To(s), frame |-> f]}

\* Nicknames of machines are naturals.
LEMMA MachinesAreNaturals == Machines \in SUBSET Nat /\ IsFiniteSet(Machines)
BY MachinesAssumption, ApelidoAssumption, FS_Subset

\* A ring has two machines at least, so nobody is alone in it.
LEMMA NotAlone ==
  ASSUME NEW s, InRing(s)
  PROVE  /\ ~Alone(s) /\ ~IsAlone(s.members, s.apelido)
         /\ To(s) \in Machines /\ To(s) # s.apelido
<1>1. Machines # {s.apelido}
  <2>1. Cardinality({s.apelido}) = 1
    BY FS_Singleton
  <2>2. QED
    BY <2>1, MachinesAssumption
<1>2. ~IsAlone(Machines, s.apelido)
  BY <1>1, MachinesAreNaturals, AloneIsSingleton DEF InRing
<1>3. QED
  BY <1>2, MachinesAreNaturals, SuccessorIsMember DEF InRing, To, Alone, IsAlone

\* _send_to_successor with a token, in a ring.
LEMMA SendTokenActs ==
  ASSUME NEW s, InRing(s)
  PROVE  LET r == SendToken(s) IN
         /\ SamePlace(s, r) /\ SameMonitor(s, r) /\ SameWait(s, r)
         /\ r.queue = s.queue /\ r.tokens_duplicados = s.tokens_duplicados
         /\ r.has_token = s.has_token /\ Passes(s, r)
BY DEF NodeFields, InRing, NoOut, SamePlace, SameMonitor, SameWait, Passes, To, SendToken

\* _forward_token, in a ring.
LEMMA ForwardTokenActs ==
  ASSUME NEW s, InRing(s)
  PROVE  LET r == ForwardToken(s) IN
         /\ SamePlace(s, r) /\ SameMonitor(s, r) /\ SameWait(s, r)
         /\ r.queue = s.queue /\ r.tokens_duplicados = s.tokens_duplicados
         /\ r.has_token = FALSE /\ Passes(s, r)
<1>1. ~Alone(s)
  BY NotAlone
<1>2. QED
  BY <1>1 DEF NodeFields, InRing, NoOut, SamePlace, SameMonitor, SameWait, Passes, To,
              ForwardToken, NoteActivity, SendToken, RefreshMonitorPause

\* _send_data_packet, in a ring.
LEMMA SendDataPacketActs ==
  ASSUME NEW s, InRing(s), s.queue # <<>>, NEW hit \in BOOLEAN
  PROVE  LET r == SendDataPacket(s, hit) IN
         /\ SamePlace(s, r) /\ SameMonitor(s, r)
         /\ r.queue = s.queue /\ r.tokens_duplicados = s.tokens_duplicados
         /\ r.has_token = s.has_token /\ Launches(s, r)
<1> DEFINE item == Head(s.queue)
           body == MaybeCorrupt(item.text, hit,
                     item.skip_fault_injection \/ item.destino = BROADCAST)
           frame == [origem |-> s.apelido, destino |-> item.destino, controle |-> CTRL_NONE,
                     crc |-> item.text, message |-> body, no |-> item.no]
           attempt == s.data_attempt_seq + 1
           print == FingerprintOf(frame)
           r == SendDataPacket(s, hit)
<1>1. frame \in Frame
  <2>1. item \in Item /\ s.apelido \in Apelido
    BY HeadItem, MachinesAssumption DEF InRing
  <2>2. body \in Content
    BY <2>1 DEF MaybeCorrupt, Content, Item
  <2> HIDE DEF item, body
  <2>3. QED
    BY <2>1, <2>2 DEF Frame, Item, Controle
<1>2. /\ frame.origem = s.apelido /\ frame.controle = CTRL_NONE
      /\ frame.destino = Head(s.queue).destino
      /\ frame.crc = Head(s.queue).text /\ frame.no = Head(s.queue).no
  OBVIOUS
<1>3. r = NoteActivity(SendFrame(RefreshMonitorPause(
            [s EXCEPT !.waiting = TRUE,
                      !.data_attempt_seq = attempt,
                      !.active_data_attempt = attempt,
                      !.active_data_fingerprint = print,
                      !.last_data_activity = 0,
                      !.return_timers = @ \cup {attempt}]), frame))
  BY DEF SendDataPacket
<1> HIDE DEF frame, item, body, attempt, print, r
<1>4. /\ SamePlace(s, r) /\ SameMonitor(s, r)
      /\ r.queue = s.queue /\ r.tokens_duplicados = s.tokens_duplicados
      /\ r.has_token = s.has_token
      /\ r.waiting = TRUE /\ r.out.token = {}
      /\ r.active_data_fingerprint = print
      /\ r.out.data = {[to |-> To(s), frame |-> frame]}
  BY <1>3 DEF NodeFields, InRing, NoOut, SamePlace, SameMonitor, To,
              NoteActivity, SendFrame, RefreshMonitorPause
<1>5. QED
  BY <1>1, <1>2, <1>4 DEF Launches, print, r

\* _complete_data_round, in a ring.
LEMMA CompleteDataRoundActs ==
  ASSUME NEW s, InRing(s)
  PROVE  LET r == CompleteDataRound(s) IN
         /\ r.apelido = s.apelido /\ r.members = s.members /\ SameMonitor(s, r)
         /\ r.queue = s.queue /\ r.tokens_duplicados = s.tokens_duplicados
         /\ r.has_token = FALSE /\ r.waiting = FALSE
         /\ IF s.remove_token_pending THEN Silent(r) ELSE Passes(s, r)
<1> DEFINE r == [s EXCEPT !.waiting = FALSE,
                          !.active_data_attempt = NoAttempt,
                          !.active_data_fingerprint = None]
           t == RefreshMonitorPause(r)
<1>1. /\ InRing(t) /\ SamePlace(s, t) /\ SameMonitor(s, t) /\ t.waiting = FALSE
      /\ t.queue = s.queue /\ t.tokens_duplicados = s.tokens_duplicados
  BY DEF NodeFields, InRing, SamePlace, SameMonitor, RefreshMonitorPause
<1>2. CASE s.remove_token_pending
  BY <1>2 DEF NodeFields, InRing, NoOut, SameMonitor, Silent, CompleteDataRound, RefreshMonitorPause
<1>3. CASE ~s.remove_token_pending
  <2>1. CompleteDataRound(s) = ForwardToken(t)
    BY <1>3 DEF CompleteDataRound
  <2> HIDE DEF t
  <2>2. LET f == ForwardToken(t) IN
        /\ SamePlace(t, f) /\ SameMonitor(t, f) /\ SameWait(t, f)
        /\ f.queue = t.queue /\ f.tokens_duplicados = t.tokens_duplicados
        /\ f.has_token = FALSE /\ Passes(t, f)
    BY <1>1, ForwardTokenActs
  <2>3. QED
    BY <1>1, <1>3, <2>1, <2>2 DEF SamePlace, SameMonitor, SameWait, Passes, To
<1>4. QED
  BY <1>2, <1>3

\* Nothing changes but timers and what the monitor and the removal are told.
Idles(s, r) ==
  /\ r.apelido = s.apelido /\ r.members = s.members
  /\ SameWait(s, r) /\ r.has_token = s.has_token
  /\ r.queue = s.queue /\ r.tokens_duplicados = s.tokens_duplicados
  /\ r.tokens_perdidos = s.tokens_perdidos /\ Silent(r)

\* _on_rx_token: a promised removal; a duplicate, discarded; a second token
\* passed on; the token kept for token_time; or DATA.
LEMMA OnRxTokenActs ==
  ASSUME NEW s, InRing(s), NEW soon \in BOOLEAN, NEW hit \in BOOLEAN
  PROVE  LET r == OnRxToken(s, soon, hit) IN
         /\ r.apelido = s.apelido /\ r.members = s.members /\ SameMonitor(s, r)
         /\ r.queue = s.queue
         /\ s.remove_token_pending => Idles(s, r)
         /\ ~s.remove_token_pending /\ s.has_token =>
              /\ SameWait(s, r) /\ r.has_token = s.has_token
              /\ \/ Silent(r) /\ r.tokens_duplicados = s.tokens_duplicados + 1
                 \/ Passes(s, r) /\ r.tokens_duplicados = s.tokens_duplicados
         /\ ~s.remove_token_pending /\ ~s.has_token =>
              \/ /\ soon /\ SameWait(s, r) /\ r.has_token = s.has_token
                 /\ Silent(r) /\ r.tokens_duplicados = s.tokens_duplicados + 1
              \/ /\ SameWait(s, r) /\ r.has_token = TRUE
                 /\ Silent(r) /\ r.tokens_duplicados = s.tokens_duplicados
              \/ /\ s.queue # <<>> /\ Launches(s, r) /\ r.has_token = TRUE
                 /\ r.tokens_duplicados = s.tokens_duplicados
<1> DEFINE t == NoteActivity([s EXCEPT !.observed_activity = TRUE])
           u == RefreshMonitorPause(
                  [t EXCEPT !.has_token = TRUE,
                            !.expect_token_return = @ /\ ~t.is_controller,
                            !.last_token_rx = IF t.is_controller THEN 0 ELSE @])
           v == [u EXCEPT !.forward_timers[u.epoch] = @ + 1]
           r == OnRxToken(s, soon, hit)
<1>1. /\ InRing(t) /\ SamePlace(s, t) /\ SameMonitor(s, t) /\ SameWait(s, t)
      /\ t.queue = s.queue /\ t.has_token = s.has_token
      /\ t.tokens_duplicados = s.tokens_duplicados /\ t.out = NoOut
  BY DEF NodeFields, InRing, SamePlace, SameMonitor, SameWait, NoteActivity
<1>2. r = CASE t.remove_token_pending -> [t EXCEPT !.remove_token_pending = FALSE]
            [] ~t.remove_token_pending /\ t.has_token ->
                 IF t.is_controller THEN CountDuplicate(t) ELSE SendToken(t)
            [] ~t.remove_token_pending /\ ~t.has_token ->
                 IF TooSoon(t, soon) THEN CountDuplicate(t) ELSE AcceptToken(t, hit)
  BY DEF OnRxToken
<1>3. AcceptToken(t, hit) =
        CASE Alone(u) -> [u EXCEPT !.segurando_sozinho = TRUE]
          [] ~Alone(u) /\ u.queue # <<>> -> SendDataPacket(u, hit)
          [] ~Alone(u) /\ u.queue = <<>> -> v
  BY DEF AcceptToken
<1> HIDE DEF t, r
<1>4. /\ InRing(u) /\ SamePlace(t, u) /\ SameMonitor(t, u) /\ SameWait(t, u)
      /\ u.queue = t.queue /\ u.has_token = TRUE
      /\ u.tokens_duplicados = t.tokens_duplicados /\ u.out = NoOut
  BY <1>1 DEF NodeFields, InRing, SamePlace, SameMonitor, SameWait, RefreshMonitorPause
<1> HIDE DEF u
<1>5. /\ SamePlace(u, v) /\ SameMonitor(u, v) /\ SameWait(u, v)
      /\ v.queue = u.queue /\ v.has_token = u.has_token
      /\ v.tokens_duplicados = u.tokens_duplicados /\ v.out = u.out
  BY <1>4 DEF NodeFields, InRing, SamePlace, SameMonitor, SameWait
<1> HIDE DEF v
<1>6. CASE s.remove_token_pending
  <2>1. r = [t EXCEPT !.remove_token_pending = FALSE]
    BY <1>1, <1>2, <1>6 DEF SamePlace
  <2>2. QED
    BY <1>1, <1>6, <2>1 DEF NodeFields, InRing, NoOut, SamePlace, SameMonitor, SameWait, Idles, Silent, r
<1>7. CASE ~s.remove_token_pending /\ s.has_token
  <2>1. r = IF t.is_controller THEN CountDuplicate(t) ELSE SendToken(t)
    BY <1>1, <1>2, <1>7 DEF SamePlace
  <2>2. QED
    <3>1. CASE t.is_controller
      <4>1. r = CountDuplicate(t)
        BY <2>1, <3>1
      <4>2. /\ SamePlace(t, r) /\ SameMonitor(t, r) /\ SameWait(t, r)
            /\ r.queue = t.queue /\ r.tokens_duplicados = t.tokens_duplicados + 1
            /\ r.has_token = t.has_token /\ Silent(r)
        BY <1>1, <4>1 DEF NodeFields, InRing, NoOut, SamePlace, SameMonitor, SameWait, Silent,
                          CountDuplicate
      <4>3. QED
        BY <1>1, <1>7, <4>2 DEF SamePlace, SameMonitor, SameWait, r
    <3>2. CASE ~t.is_controller
      <4>1. r = SendToken(t) /\ To(t) = To(s)
        BY <1>1, <2>1, <3>2 DEF SamePlace, To
      <4>2. /\ SamePlace(t, r) /\ SameMonitor(t, r) /\ SameWait(t, r)
            /\ r.queue = t.queue /\ r.tokens_duplicados = t.tokens_duplicados
            /\ r.has_token = t.has_token /\ Passes(t, r)
        BY <1>1, <4>1, SendTokenActs
      <4>3. QED
        BY <1>1, <1>7, <4>1, <4>2 DEF SamePlace, SameMonitor, SameWait, Passes, r
    <3>3. QED
      BY <3>1, <3>2
<1>8. CASE ~s.remove_token_pending /\ ~s.has_token
  <2>1. r = IF TooSoon(t, soon) THEN CountDuplicate(t) ELSE AcceptToken(t, hit)
    BY <1>1, <1>2, <1>8 DEF SamePlace
  <2>2. CASE TooSoon(t, soon)
    BY <1>1, <1>8, <2>1, <2>2 DEF NodeFields, InRing, NoOut, SamePlace, SameMonitor, SameWait,
                                  Silent, CountDuplicate, TooSoon, r
  <2>3. CASE ~TooSoon(t, soon) /\ u.queue # <<>>
    <3>1. r = SendDataPacket(u, hit)
      BY <1>3, <1>4, <2>1, <2>3, NotAlone
    <3>2. /\ SamePlace(u, r) /\ SameMonitor(u, r)
          /\ r.queue = u.queue /\ r.tokens_duplicados = u.tokens_duplicados
          /\ r.has_token = u.has_token /\ Launches(u, r)
      BY <1>4, <2>3, <3>1, SendDataPacketActs
    <3>3. Launches(s, r)
      BY <1>1, <1>4, <3>2 DEF Launches, SamePlace, To
    <3>4. QED
      BY <1>1, <1>4, <1>8, <2>3, <3>2, <3>3 DEF SamePlace, SameMonitor, r
  <2>4. CASE ~TooSoon(t, soon) /\ u.queue = <<>>
    <3>1. r = v
      BY <1>3, <1>4, <2>1, <2>4, NotAlone
    <3>2. QED
      BY <1>1, <1>4, <1>5, <1>8, <3>1 DEF NoOut, SamePlace, SameMonitor, SameWait, Silent, r
  <2>5. QED
    BY <2>2, <2>3, <2>4
<1>9. QED
  BY <1>6, <1>7, <1>8

\* _on_timer_forward_token: the token goes on, or carries DATA; a timer that
\* outlived its token does nothing.
LEMMA OnTimerForwardTokenActs ==
  ASSUME NEW s, InRing(s), NEW ep, NEW hit \in BOOLEAN
  PROVE  LET r == OnTimerForwardToken(s, ep, hit) IN
         /\ r.apelido = s.apelido /\ r.members = s.members /\ SameMonitor(s, r)
         /\ r.queue = s.queue /\ r.tokens_duplicados = s.tokens_duplicados
         /\ \/ Idles(s, r)
            \/ /\ s.has_token /\ ~s.waiting
               /\ r.has_token = FALSE /\ SameWait(s, r) /\ Passes(s, r)
            \/ /\ s.has_token /\ ~s.waiting /\ s.queue # <<>>
               /\ r.has_token = TRUE /\ Launches(s, r)
<1> DEFINE t == [s EXCEPT !.forward_timers[ep] = @ - 1]
           r == OnTimerForwardToken(s, ep, hit)
<1>1. /\ InRing(t) /\ SamePlace(s, t) /\ SameMonitor(s, t) /\ SameWait(s, t)
      /\ t.queue = s.queue /\ t.has_token = s.has_token
      /\ t.tokens_duplicados = s.tokens_duplicados /\ t.out = NoOut
  BY DEF NodeFields, InRing, SamePlace, SameMonitor, SameWait
<1>2. \/ r = t
      \/ s.has_token /\ ~s.waiting /\ t.queue = <<>> /\ r = ForwardToken(t)
      \/ s.has_token /\ ~s.waiting /\ t.queue # <<>> /\ r = SendDataPacket(t, hit)
  BY DEF OnTimerForwardToken, UseToken
<1> HIDE DEF t, r
<1>3. CASE r = t
  BY <1>1, <1>3 DEF NoOut, SamePlace, SameMonitor, SameWait, Idles, Silent, r
<1>4. CASE s.has_token /\ ~s.waiting /\ r = ForwardToken(t)
  <2>1. /\ SamePlace(t, r) /\ SameMonitor(t, r) /\ SameWait(t, r)
        /\ r.queue = t.queue /\ r.tokens_duplicados = t.tokens_duplicados
        /\ r.has_token = FALSE /\ Passes(t, r)
    BY <1>1, <1>4, ForwardTokenActs
  <2>2. QED
    BY <1>1, <1>4, <2>1 DEF SamePlace, SameMonitor, SameWait, Passes, To, r
<1>5. CASE s.has_token /\ ~s.waiting /\ t.queue # <<>> /\ r = SendDataPacket(t, hit)
  <2>1. /\ SamePlace(t, r) /\ SameMonitor(t, r)
        /\ r.queue = t.queue /\ r.tokens_duplicados = t.tokens_duplicados
        /\ r.has_token = t.has_token /\ Launches(t, r)
    BY <1>1, <1>5, SendDataPacketActs
  <2>2. Launches(s, r)
    BY <1>1, <2>1 DEF Launches, SamePlace, To
  <2>3. QED
    BY <1>1, <1>5, <2>1, <2>2 DEF SamePlace, SameMonitor, r
<1>6. QED
  BY <1>2, <1>3, <1>4, <1>5

\* The end of a round, in a ring: the token goes on, or is removed.
Releases(s, r) ==
  /\ r.apelido = s.apelido /\ r.members = s.members /\ SameMonitor(s, r)
  /\ r.tokens_duplicados = s.tokens_duplicados
  /\ r.has_token = FALSE /\ r.waiting = FALSE
  /\ IF s.remove_token_pending THEN Silent(r) ELSE Passes(s, r)

\* _on_timer_data_return_timeout: the message is given up, or the timer is a
\* late one.
LEMMA OnTimerDataReturnTimeoutActs ==
  ASSUME NEW s, InRing(s), NEW attempt, s.waiting => s.queue # <<>>
  PROVE  LET r == OnTimerDataReturnTimeout(s, attempt) IN
         IF attempt = s.active_data_attempt /\ s.waiting
         THEN Releases(s, r) /\ r.queue = Tail(s.queue)
         ELSE Idles(s, r) /\ SameMonitor(s, r)
<1> DEFINE t == [s EXCEPT !.return_timers = @ \ {attempt}]
           d == DropHead(t)
           r == OnTimerDataReturnTimeout(s, attempt)
<1>1. /\ InRing(t) /\ SamePlace(s, t) /\ SameMonitor(s, t) /\ SameWait(s, t)
      /\ t.queue = s.queue /\ t.has_token = s.has_token
      /\ t.tokens_duplicados = s.tokens_duplicados /\ t.out = NoOut
  BY DEF NodeFields, InRing, SamePlace, SameMonitor, SameWait
<1>2. r = IF attempt = s.active_data_attempt /\ s.waiting THEN CompleteDataRound(d) ELSE t
  BY DEF OnTimerDataReturnTimeout
<1> HIDE DEF t, r
<1>3. CASE attempt = s.active_data_attempt /\ s.waiting
  <2>0. Tail(s.queue) \in Seq(Item)
    BY <1>3 DEF InRing
  <2>1. /\ InRing(d) /\ SamePlace(t, d) /\ SameMonitor(t, d)
        /\ d.queue = Tail(s.queue)
        /\ d.tokens_duplicados = t.tokens_duplicados
    BY <1>1, <1>3, <2>0 DEF NodeFields, InRing, SamePlace, SameMonitor, DropHead
  <2> HIDE DEF d
  <2>2. /\ r.apelido = d.apelido /\ r.members = d.members /\ SameMonitor(d, r)
        /\ r.queue = d.queue /\ r.tokens_duplicados = d.tokens_duplicados
        /\ r.has_token = FALSE /\ r.waiting = FALSE
        /\ IF d.remove_token_pending THEN Silent(r) ELSE Passes(d, r)
    BY <1>2, <1>3, <2>1, CompleteDataRoundActs
  <2>3. QED
    BY <1>1, <1>3, <2>1, <2>2 DEF SamePlace, SameMonitor, Passes, To, Releases, r
<1>4. CASE ~(attempt = s.active_data_attempt /\ s.waiting)
  <2>1. r = t
    BY <1>2, <1>4
  <2>2. QED
    BY <1>1, <1>4, <2>1 DEF NoOut, SamePlace, SameMonitor, SameWait, Idles, Silent, r
<1>5. QED
  BY <1>3, <1>4

\* _on_mon_token_timeout: the controller makes a new token, or there is one.
LEMMA OnMonTokenTimeoutActs ==
  ASSUME NEW s, InRing(s), s.is_controller \in BOOLEAN
  PROVE  LET r == OnMonTokenTimeout(s) IN
         /\ r.mon_posted = FALSE
         /\ IF s.is_controller /\ ~s.has_token /\ ~s.waiting
            THEN /\ r.apelido = s.apelido /\ r.members = s.members /\ SameWait(s, r)
                 /\ r.queue = s.queue /\ r.tokens_duplicados = s.tokens_duplicados
                 /\ r.tokens_perdidos = s.tokens_perdidos + 1
                 /\ r.has_token = FALSE /\ Passes(s, r)
            ELSE Idles(s, r)
<1> DEFINE t == [s EXCEPT !.mon_posted = FALSE]
           u == [t EXCEPT !.tokens_perdidos = @ + 1]
           v == RefreshMonitorPause(
                  [u EXCEPT !.epoch = @ + 1,
                            !.expect_token_return = @ \/ u.is_controller,
                            !.last_token_rx = NoInstant,
                            !.first_token_generated = TRUE,
                            !.mon_enabled = u.is_controller,
                            !.has_token = FALSE])
           w == SendToken(v)
           r == OnMonTokenTimeout(s)
<1>1. CASE s.is_controller /\ ~s.has_token /\ ~s.waiting
  <2>1. r = NoteActivity(w)
    BY <1>1, MachinesAssumption DEF InRing, OnMonTokenTimeout, GenerateToken
  <2>2. /\ InRing(v) /\ SamePlace(s, v) /\ SameWait(s, v) /\ v.mon_posted = FALSE
        /\ v.queue = s.queue /\ v.has_token = FALSE
        /\ v.tokens_duplicados = s.tokens_duplicados
        /\ v.tokens_perdidos = s.tokens_perdidos + 1
    BY DEF NodeFields, InRing, SamePlace, SameWait, RefreshMonitorPause
  <2> HIDE DEF v, r
  <2>3. /\ SamePlace(v, w) /\ SameMonitor(v, w) /\ SameWait(v, w)
        /\ w.queue = v.queue /\ w.tokens_duplicados = v.tokens_duplicados
        /\ w.has_token = v.has_token /\ Passes(v, w)
    BY <2>2, SendTokenActs
  <2>4. DOMAIN w = NodeFields
    BY <2>2 DEF InRing, SendToken
  <2> HIDE DEF w
  <2>5. /\ SamePlace(w, r) /\ SameMonitor(w, r) /\ SameWait(w, r)
        /\ r.queue = w.queue /\ r.tokens_duplicados = w.tokens_duplicados
        /\ r.has_token = w.has_token /\ r.out = w.out
    BY <2>1, <2>4 DEF NodeFields, SamePlace, SameMonitor, SameWait, NoteActivity
  <2>6. QED
    BY <1>1, <2>2, <2>3, <2>5 DEF SamePlace, SameMonitor, SameWait, Passes, To, r
<1>2. CASE ~(s.is_controller /\ ~s.has_token /\ ~s.waiting)
  <2>1. r = t
    BY <1>2 DEF OnMonTokenTimeout
  <2> HIDE DEF r
  <2>2. QED
    BY <1>2, <2>1 DEF NodeFields, InRing, NoOut, SameWait, Idles, Silent, r
<1>3. QED
  BY <1>1, <1>2

\* The monitor only posts an event.
LEMMA MonitorFiresActs ==
  ASSUME NEW s, InRing(s)
  PROVE  Idles(s, MonitorFires(s)) /\ MonitorFires(s).mon_posted = TRUE
BY DEF NodeFields, InRing, NoOut, SameWait, Idles, Silent, MonitorFires

\* _on_cmd_send appends a message, unless the queue is full.
LEMMA OnCmdSendActs ==
  ASSUME NEW s, InRing(s), NEW destino, NEW text, NEW no
  PROVE  LET r == OnCmdSend(s, destino, text, no)
             item == [destino |-> destino, text |-> text, no |-> no,
                      skip_fault_injection |-> FALSE, retransmit_used |-> FALSE] IN
         /\ r.apelido = s.apelido /\ r.members = s.members
         /\ SameMonitor(s, r) /\ SameWait(s, r)
         /\ r.has_token = s.has_token /\ r.tokens_duplicados = s.tokens_duplicados
         /\ Silent(r)
         /\ r.queue = IF Len(s.queue) >= QueueMax THEN s.queue ELSE Append(s.queue, item)
BY DEF NodeFields, InRing, NoOut, SameMonitor, SameWait, Silent, OnCmdSend

\* _on_cmd_add_token sends a token.
LEMMA OnCmdAddTokenActs ==
  ASSUME NEW s, InRing(s)
  PROVE  LET r == OnCmdAddToken(s) IN
         /\ r.apelido = s.apelido /\ r.members = s.members
         /\ SameMonitor(s, r) /\ SameWait(s, r)
         /\ r.has_token = s.has_token /\ r.tokens_duplicados = s.tokens_duplicados
         /\ r.queue = s.queue /\ Passes(s, r)
<1>1. DOMAIN SendToken(s) = NodeFields
  BY DEF InRing, SendToken
<1>2. OnCmdAddToken(s) = NoteActivity(SendToken(s))
  BY DEF OnCmdAddToken, InjectToken
<1> DEFINE t == SendToken(s)
<1>3. /\ SamePlace(s, t) /\ SameMonitor(s, t) /\ SameWait(s, t)
      /\ t.queue = s.queue /\ t.tokens_duplicados = s.tokens_duplicados
      /\ t.has_token = s.has_token /\ Passes(s, t)
  BY SendTokenActs
<1> HIDE DEF t
<1>4. OnCmdAddToken(s) = NoteActivity(t) /\ DOMAIN t = NodeFields
  BY <1>1, <1>2 DEF t
<1>5. QED
  BY <1>3, <1>4 DEF NodeFields, SamePlace, SameMonitor, SameWait, Passes, NoteActivity

\* _on_cmd_remove_token takes the token away, or promises to.
LEMMA OnCmdRemoveTokenActs ==
  ASSUME NEW s, InRing(s)
  PROVE  LET r == OnCmdRemoveToken(s) IN
         /\ SameMonitor(s, r)
         /\ IF s.has_token /\ ~s.waiting
            THEN /\ r.apelido = s.apelido /\ r.members = s.members
                 /\ r.waiting = s.waiting /\ r.has_token = FALSE
                 /\ r.queue = s.queue /\ r.tokens_duplicados = s.tokens_duplicados
                 /\ Silent(r)
            ELSE Idles(s, r)
<1> DEFINE r == OnCmdRemoveToken(s)
<1>1. CASE s.has_token /\ ~s.waiting
  <2>1. r = RefreshMonitorPause([s EXCEPT !.has_token = FALSE,
                                          !.epoch = @ + 1,
                                          !.active_data_attempt = NoAttempt,
                                          !.active_data_fingerprint = None,
                                          !.remove_token_pending = FALSE])
    BY <1>1 DEF OnCmdRemoveToken
  <2> HIDE DEF r
  <2>2. /\ SameMonitor(s, r)
        /\ r.apelido = s.apelido /\ r.members = s.members
        /\ r.waiting = s.waiting /\ r.has_token = FALSE
        /\ r.queue = s.queue /\ r.tokens_duplicados = s.tokens_duplicados
        /\ Silent(r)
    BY <2>1 DEF NodeFields, InRing, NoOut, SameMonitor, Silent, RefreshMonitorPause
  <2>3. QED
    BY <1>1, <2>2 DEF r
<1>2. CASE ~(s.has_token /\ ~s.waiting)
  <2>1. r = [s EXCEPT !.remove_token_pending = TRUE]
    BY <1>2 DEF OnCmdRemoveToken
  <2> HIDE DEF r
  <2>2. SameMonitor(s, r) /\ Idles(s, r)
    BY <2>1 DEF NodeFields, InRing, NoOut, SameMonitor, SameWait, Idles, Silent
  <2>3. QED
    BY <1>2, <2>2 DEF r
<1>3. QED
  BY <1>1, <1>2

\* What becomes of the head of a queue when its DATA has come back: it is
\* concluded, or marked for one retransmission.
Marked(q) == [q EXCEPT ![1] = [@ EXCEPT !.retransmit_used = TRUE,
                                        !.skip_fault_injection = TRUE]]
Concluded(q, f) ==
  IF f.destino # BROADCAST /\ f.controle = CTRL_NAK /\ ~Head(q).retransmit_used
  THEN Marked(q) ELSE Tail(q)

\* Marking a message changes neither what it says nor its number.
LEMMA MarkedItems ==
  ASSUME NEW q \in Seq(Item), q # <<>>
  PROVE  /\ Marked(q) \in Seq(Item) /\ Len(Marked(q)) = Len(q)
         /\ \A i \in 1 .. Len(q) : /\ Marked(q)[i].no = q[i].no
                                   /\ Marked(q)[i].text = q[i].text
<1> DEFINE h == [q[1] EXCEPT !.retransmit_used = TRUE, !.skip_fault_injection = TRUE]
<1>1. q[1] \in Item /\ 1 \in 1 .. Len(q)
  BY HeadItem
<1>2. h \in Item /\ h.no = q[1].no /\ h.text = q[1].text
  BY <1>1 DEF Item
<1>3. Marked(q) = [q EXCEPT ![1] = h]
  BY DEF Marked
<1> HIDE DEF h
<1>4. [q EXCEPT ![1] = h] \in Seq(Item) /\ Len([q EXCEPT ![1] = h]) = Len(q)
      /\ \A i \in 1 .. Len(q) : [q EXCEPT ![1] = h][i] = IF i = 1 THEN h ELSE q[i]
  BY <1>1, <1>2, ExceptSeq
<1>5. QED
  BY <1>2, <1>3, <1>4

\* _on_rx_data: DATA of another machine goes on, with an answer if it is for
\* this one; its own DATA ends the round it belongs to.  In a ring nobody is
\* removed for DATA that came back unanswered from a destination that is a
\* machine of the ring.
LEMMA OnRxDataActs ==
  ASSUME NEW s, InRing(s), s.waiting => s.queue # <<>>, NEW f,
         f.origem = s.apelido /\ f.controle = CTRL_NONE
           => f.destino \notin Machines \ {s.apelido}
  PROVE  LET r == OnRxData(s, f)
             g == IF f.destino = s.apelido THEN Answer(f) ELSE f IN
         /\ f.origem # s.apelido =>
              /\ r.apelido = s.apelido /\ r.members = s.members
              /\ SameMonitor(s, r) /\ SameWait(s, r)
              /\ r.has_token = s.has_token /\ r.tokens_duplicados = s.tokens_duplicados
              /\ r.queue = s.queue
              /\ r.out.token = {} /\ r.out.data = {[to |-> To(s), frame |-> g]}
         /\ f.origem = s.apelido /\ ~EndsRound(s, f) => Idles(s, r) /\ SameMonitor(s, r)
         /\ f.origem = s.apelido /\ EndsRound(s, f) =>
              Releases(s, r) /\ r.queue = Concluded(s.queue, f)
<1> DEFINE t == NoteActivity([s EXCEPT !.observed_activity = TRUE, !.last_data_activity = 0])
           g == IF f.destino = s.apelido THEN Answer(f) ELSE f
           c == ConcludeReturn(t, f)
           r == OnRxData(s, f)
<1>1. /\ InRing(t) /\ SamePlace(s, t) /\ SameMonitor(s, t) /\ SameWait(s, t)
      /\ t.queue = s.queue /\ t.has_token = s.has_token
      /\ t.tokens_duplicados = s.tokens_duplicados /\ t.out = NoOut
  BY DEF NodeFields, InRing, SamePlace, SameMonitor, SameWait, NoteActivity
<1>2. r = IF f.origem = t.apelido
          THEN IF EndsRound(t, f) THEN CompleteDataRound(c) ELSE t
          ELSE SendFrame(t, IF f.destino = t.apelido THEN Answer(f) ELSE f)
  BY DEF OnRxData
<1> HIDE DEF t, r
<1>3. EndsRound(t, f) <=> EndsRound(s, f)
  BY <1>1 DEF EndsRound, SameWait
<1>4. CASE f.origem # s.apelido
  <2>1. r = SendFrame(t, g)
    BY <1>1, <1>2, <1>4 DEF SamePlace
  <2> HIDE DEF g
  <2>2. /\ SamePlace(t, r) /\ SameMonitor(t, r) /\ SameWait(t, r)
        /\ r.has_token = t.has_token /\ r.tokens_duplicados = t.tokens_duplicados
        /\ r.queue = t.queue
        /\ r.out.token = {} /\ r.out.data = {[to |-> To(t), frame |-> g]}
    BY <1>1, <2>1 DEF NodeFields, InRing, NoOut, SamePlace, SameMonitor, SameWait, To, SendFrame
  <2>3. QED
    BY <1>1, <1>4, <2>2 DEF SamePlace, SameMonitor, SameWait, To, g, r
<1>5. CASE f.origem = s.apelido /\ ~EndsRound(s, f)
  <2>1. r = t
    BY <1>1, <1>2, <1>3, <1>5 DEF SamePlace
  <2>2. QED
    BY <1>1, <1>5, <2>1 DEF NoOut, SamePlace, SameMonitor, SameWait, Idles, Silent, r
<1>6. CASE f.origem = s.apelido /\ EndsRound(s, f)
  <2>1. r = CompleteDataRound(c) /\ s.queue # <<>>
    BY <1>1, <1>2, <1>3, <1>6 DEF SamePlace, EndsRound
  <2> DEFINE d == DropHead(t)
  <2>2. Tail(s.queue) \in Seq(Item)
    BY <2>1 DEF InRing
  <2>3. /\ InRing(d) /\ SamePlace(t, d) /\ SameMonitor(t, d)
        /\ d.queue = Tail(s.queue) /\ d.tokens_duplicados = t.tokens_duplicados
    BY <1>1, <2>1, <2>2 DEF NodeFields, InRing, SamePlace, SameMonitor, DropHead
  <2>4. /\ InRing(c) /\ SamePlace(t, c) /\ SameMonitor(t, c)
        /\ c.queue = Concluded(s.queue, f)
        /\ c.tokens_duplicados = t.tokens_duplicados
    <3>1. CASE f.destino # BROADCAST /\ f.controle = CTRL_NAK
      <4>1. c = NakReturn(t)
        BY <3>1 DEF ConcludeReturn
      <4>2. CASE Head(t.queue).retransmit_used
        <5>1. c = d
          BY <1>1, <2>1, <4>1, <4>2 DEF NakReturn
        <5>2. QED
          BY <1>1, <2>3, <4>2, <5>1 DEF Concluded
      <4>3. CASE ~Head(t.queue).retransmit_used
        <5> DEFINE q == Marked(t.queue)
        <5>1. q \in Seq(Item)
          BY <1>1, <2>1, MarkedItems DEF InRing
        <5>2. t.queue \in Seq(Item) /\ t.queue # <<>> /\ 1 \in DOMAIN t.queue
          BY <1>1, <2>1, HeadItem DEF InRing
        <5>3. c = [t EXCEPT !.queue = q]
          BY ZenonT(60), <1>1, <4>1, <4>3, <5>2 DEF NodeFields, InRing, NakReturn, Marked
        <5> HIDE DEF q, c
        <5>4. /\ InRing(c) /\ SamePlace(t, c) /\ SameMonitor(t, c)
              /\ c.queue = q /\ c.tokens_duplicados = t.tokens_duplicados
          BY <1>1, <5>1, <5>3 DEF NodeFields, InRing, SamePlace, SameMonitor
        <5>5. QED
          BY <1>1, <3>1, <4>3, <5>4 DEF Concluded, q
      <4>4. QED
        BY <4>2, <4>3
    <3>2. CASE f.destino # BROADCAST /\ f.controle = CTRL_NONE
      <4>1. c = RemoveMembers(d, {f.destino})
        BY <3>2 DEF ConcludeReturn, CTRL_NONE, CTRL_NAK
      <4>2. {f.destino} \cap (d.members \ {d.apelido}) = {}
        BY <1>1, <1>6, <2>3, <3>2 DEF InRing, SamePlace
      <4>3. c = d
        BY <4>1, <4>2 DEF RemoveMembers
      <4>4. QED
        BY <2>3, <3>2, <4>3 DEF Concluded, CTRL_NONE, CTRL_NAK
    <3>3. CASE f.destino = BROADCAST \/ f.controle \notin {CTRL_NAK, CTRL_NONE}
      <4>1. c = d
        BY <3>3 DEF ConcludeReturn
      <4>2. QED
        BY <2>3, <3>3, <4>1 DEF Concluded
    <3>4. QED
      BY <3>1, <3>2, <3>3
  <2> HIDE DEF c
  <2>5. /\ r.apelido = c.apelido /\ r.members = c.members /\ SameMonitor(c, r)
        /\ r.queue = c.queue /\ r.tokens_duplicados = c.tokens_duplicados
        /\ r.has_token = FALSE /\ r.waiting = FALSE
        /\ IF c.remove_token_pending THEN Silent(r) ELSE Passes(c, r)
    BY <2>1, <2>4, CompleteDataRoundActs
  <2>6. QED
    BY <1>1, <1>6, <2>4, <2>5 DEF SamePlace, SameMonitor, Passes, To, Releases, r
<1>7. QED
  BY <1>4, <1>5, <1>6

-----------------------------------------------------------------------------
\* Totals

\* A total is one of the sums of its function.
LEMMA TotalIsSum ==
  ASSUME NEW f
  PROVE  \E g : Sums(g, f, Machines) /\ Total(f) = g[Machines]
<1> DEFINE g == CHOOSE g : Sums(g, f, Machines)
<1>1. Sums(g, f, Machines)
  BY MachinesAreNaturals, SumsExist
<1>2. Total(f) = g[Machines]
  BY DEF Total, FoldSet, MapThenFoldSet, Sums
<1>3. QED
  BY <1>1, <1>2

\* What one machine has more is more in all.
LEMMA TotalChange ==
  ASSUME NEW f \in [Machines -> Int], NEW e \in [Machines -> Int], NEW a \in Machines,
         \A b \in Machines : b # a => e[b] = f[b]
  PROVE  Total(f) \in Int /\ Total(e) = Total(f) + (e[a] - f[a])
<1>1. PICK g : Sums(g, f, Machines) /\ Total(f) = g[Machines]
  BY TotalIsSum
<1>2. PICK h : Sums(h, e, Machines) /\ Total(e) = h[Machines]
  BY TotalIsSum
<1>3. IsFiniteSet(Machines) /\ Sums(g, f, Machines) /\ Sums(h, e, Machines)
  BY <1>1, <1>2, MachinesAreNaturals
<1>4. g[Machines] \in Int /\ h[Machines] = g[Machines] + (e[a] - f[a])
  BY <1>3, SumsChange, SMTT(60)
<1>5. QED
  BY <1>1, <1>2, <1>4

\* Naturals add up to a natural, to zero only if they all are.
LEMMA TotalOfNaturals ==
  ASSUME NEW f \in [Machines -> Nat]
  PROVE  /\ Total(f) \in Nat
         /\ (\A a \in Machines : f[a] = 0) => Total(f) = 0
<1>1. PICK g : Sums(g, f, Machines) /\ Total(f) = g[Machines]
  BY TotalIsSum
<1>2. QED
  BY <1>1, MachinesAreNaturals, SumsOfNaturals

\* No machine, and no two machines together, have more than all have.
LEMMA TotalBounds ==
  ASSUME NEW f \in [Machines -> Nat], NEW a \in Machines
  PROVE  /\ f[a] <= Total(f)
         /\ \A b \in Machines : b # a => f[a] + f[b] <= Total(f)
<1> DEFINE e == [f EXCEPT ![a] = 0]
<1>1. /\ e \in [Machines -> Nat] /\ e[a] = 0
      /\ \A b \in Machines : b # a => e[b] = f[b]
  OBVIOUS
<1> HIDE DEF e
<1>2. f \in [Machines -> Int] /\ e \in [Machines -> Int]
  BY <1>1
<1>3. Total(f) \in Int /\ Total(e) = Total(f) + (e[a] - f[a])
  BY <1>1, <1>2, TotalChange
<1>4. Total(e) \in Nat /\ Total(f) \in Nat
  BY <1>1, TotalOfNaturals
<1>5. f[a] \in Nat /\ Total(f) = Total(e) + f[a]
  BY <1>1, <1>3, <1>4
<1>6. ASSUME NEW b \in Machines, b # a
      PROVE  f[a] + f[b] <= Total(f)
  <2> DEFINE h == [e EXCEPT ![b] = 0]
  <2>1. /\ h \in [Machines -> Nat] /\ h[b] = 0
        /\ \A c \in Machines : c # b => h[c] = e[c]
    BY <1>1
  <2> HIDE DEF h
  <2>2. h \in [Machines -> Int]
    BY <2>1
  <2>3. Total(h) = Total(e) + (h[b] - e[b])
    BY <1>2, <2>1, <2>2, TotalChange
  <2>4. Total(h) \in Nat /\ e[b] \in Nat /\ e[b] = f[b]
    BY <1>1, <1>6, <2>1, TotalOfNaturals
  <2>5. QED
    BY <1>4, <1>5, <2>1, <2>3, <2>4
<1>7. QED
  BY <1>4, <1>5, <1>6

-----------------------------------------------------------------------------
\* The invariant

\* Every machine keeps the invariant of a machine and knows the whole ring.
Machines_ok ==
  /\ node \in [Machines -> NodeStates]
  /\ \A n \in Machines :
       /\ MachineInv(node[n])
       /\ node[n].apelido = n /\ node[n].members = Machines
       /\ node[n].out = NoOut /\ node[n].epoch <= MaxEpoch

\* DATA that has been at its destination has an answer, other DATA has none.
InOrder(d) ==
  /\ d \in [to : Machines, frame : Frame]
  /\ d.frame.origem \in Machines
  /\ d.frame.controle = CTRL_NONE <=>
       \/ d.frame.destino \notin Machines
       \/ ~Passed(d.frame.origem, d.to, d.frame.destino)

Network_ok ==
  /\ token \in [Machines -> Nat]
  /\ \A d \in data : InOrder(d)

\* The scenario is one of those given, but for the faults left.
Budget_ok ==
  /\ budget \in [texts : Seq(Text), destinos : SUBSET Destino,
                 faults : SUBSET {"lose", "duplicate", "add", "remove"}, left : Nat]
  /\ \E s \in Scenarios : budget.texts = s.texts /\ budget.faults = s.faults

Past_ok ==
  past \in [typed : Nat, added : Int, taken : Int,
            delivered : [Numbers -> Nat], acked : SUBSET (Nat \X Nat)]

RingInv == Machines_ok /\ Network_ok /\ Budget_ok /\ Past_ok /\ TokenLedger

\* The token a machine has, and the one it sends.
Held(s) == IF s.has_token THEN 1 ELSE 0
Sent(r) == IF r.out.token = {} THEN 0 ELSE 1

\* A machine of the ring is one to which the lemmas about handlers apply.
LEMMA NodeFacts ==
  ASSUME Machines_ok, NEW n \in Machines
  PROVE  /\ InRing(node[n]) /\ To(node[n]) = Successor(Machines, n)
         /\ MachineInv(node[n]) /\ node[n] \in NodeStates
         /\ node[n].apelido = n /\ node[n].members = Machines /\ node[n].out = NoOut
         /\ node[n].waiting => node[n].has_token /\ node[n].queue # <<>>
<1>1. node[n] \in NodeStates /\ node[n].queue \in Seq(Item)
  BY DEF Machines_ok, NodeStates
<1>2. QED
  BY <1>1, FieldsOf DEF Machines_ok, InRing, To, MachineInv, RoundInv

\* The tokens there are, when machine n becomes r.
LEMMA TokensOf ==
  ASSUME Machines_ok, Network_ok, NEW n \in Machines, NEW r \in NodeStates,
         NEW eaten \in {0, 1}, eaten <= token[n], NEW read,
         r.out.token = {} \/ r.out.token = {Successor(Machines, n)},
         Becomes(n, r, eaten, read)
  PROVE  /\ token' \in [Machines -> Nat]
         /\ Tokens \in Nat /\ Tokens' \in Nat /\ Duplicados \in Nat
         /\ Tokens' = Tokens - eaten + Sent(r) + Held(r) - Held(node[n])
         /\ Duplicados' = Duplicados + r.tokens_duplicados - node[n].tokens_duplicados
<1> DEFINE m == Successor(Machines, n)
           has == [k \in Machines |-> Held(node[k])]
           has1 == [k \in Machines |-> Held(node'[k])]
           f == [k \in Machines |-> token[k] + has[k]]
           \* after the token eaten and the one held, after the one sent
           g == [f EXCEPT ![n] = token[n] - eaten + Held(r)]
           h == [g EXCEPT ![m] = @ + Sent(r)]
           dup == [k \in Machines |-> node[k].tokens_duplicados]
           dup1 == [k \in Machines |-> node'[k].tokens_duplicados]
<1>1. m \in Machines /\ m # n
  BY NodeFacts, NotAlone DEF To
<1> HIDE DEF m
<1>2. /\ token \in [Machines -> Nat]
      /\ has \in [Machines -> 0 .. 1] /\ Held(r) \in 0 .. 1 /\ Sent(r) \in 0 .. 1
      /\ dup \in [Machines -> Nat]
  <2>1. \A k \in Machines : node[k] \in NodeStates
    BY DEF Machines_ok
  <2>2. \A k \in Machines : node[k].tokens_duplicados \in Nat
    BY <2>1 DEF NodeStates
  <2>3. QED
    BY <2>2 DEF Network_ok, Held, Sent
<1>3. \A k \in Machines :
        token'[k] = token[k] - (IF k = n THEN eaten ELSE 0) + (IF k = m THEN Sent(r) ELSE 0)
  BY <1>1 DEF Becomes, Sent, m
<1>4. token' \in [Machines -> Nat]
  <2>1. token' = [k \in Machines |-> token[k] - (IF k = n THEN eaten ELSE 0)
                                      + (IF k \in r.out.token THEN 1 ELSE 0)]
    BY DEF Becomes
  <2>2. \A k \in Machines : token[k] - (IF k = n THEN eaten ELSE 0)
                              + (IF k \in r.out.token THEN 1 ELSE 0) \in Nat
    BY <1>2
  <2>3. QED
    BY <2>1, <2>2
<1>5. node' = [node EXCEPT ![n] = [r EXCEPT !.out = NoOut]] /\ DOMAIN node = Machines
  BY DEF Becomes, Machines_ok
<1>6. /\ [r EXCEPT !.out = NoOut].has_token = r.has_token
      /\ [r EXCEPT !.out = NoOut].tokens_duplicados = r.tokens_duplicados
  BY FieldsOf DEF NodeFields
<1>7. /\ \A k \in Machines : has1[k] = IF k = n THEN Held(r) ELSE has[k]
      /\ \A k \in Machines : dup1[k] = IF k = n THEN r.tokens_duplicados ELSE dup[k]
  BY <1>5, <1>6 DEF Held
<1>8. Tokens = Total(f)
  <2>1. f = [k \in Machines |-> token[k] + IF node[k].has_token THEN 1 ELSE 0]
    BY DEF Held
  <2>2. QED
    BY <2>1 DEF Tokens
<1>9. Tokens' = Total([k \in Machines |-> token'[k] + has1[k]])
  <2>1. [k \in Machines |-> token'[k] + has1[k]]
          = [k \in Machines |-> token'[k] + IF node'[k].has_token THEN 1 ELSE 0]
    BY DEF Held
  <2>2. QED
    BY <2>1 DEF Tokens
<1>10. Duplicados = Total(dup) /\ Duplicados' = Total(dup1)
  BY DEF Duplicados
<1> HIDE DEF has, has1, dup, dup1
<1>11. [k \in Machines |-> token'[k] + has1[k]] = h
  <2>1. \A k \in Machines : token'[k] + has1[k] = h[k]
    BY <1>1, <1>2, <1>3, <1>7
  <2>2. QED
    BY <2>1
<1>12. /\ f \in [Machines -> Nat] /\ g \in [Machines -> Int] /\ h \in [Machines -> Int]
       /\ f[n] = token[n] + Held(node[n]) /\ g[n] = token[n] - eaten + Held(r)
       /\ h[m] = g[m] + Sent(r) /\ g[m] \in Int
       /\ \A k \in Machines : k # n => g[k] = f[k]
       /\ \A k \in Machines : k # m => h[k] = g[k]
       /\ Held(node[n]) \in 0 .. 1
  BY <1>1, <1>2 DEF has
<1>13. h \in [Machines -> Nat]
  <2>1. \A k \in Machines : h[k] \in Nat
    BY <1>1, <1>2, <1>12
  <2>2. QED
    BY <1>12, <2>1
<1> HIDE DEF f, g, h
<1>14. Total(f) \in Nat /\ Total(h) \in Nat /\ Total(dup) \in Nat
  BY <1>2, <1>12, <1>13, TotalOfNaturals
<1>15. f \in [Machines -> Int]
  BY <1>12
<1>16. Total(g) = Total(f) + (g[n] - f[n]) /\ Total(g) \in Int
  BY <1>12, <1>15, TotalChange
<1>17. Total(h) = Total(g) + (h[m] - g[m])
  BY <1>1, <1>12, TotalChange
<1>18. Tokens' = Tokens - eaten + Sent(r) + Held(r) - Held(node[n])
  <2>1. token[n] \in Nat /\ eaten \in Int /\ Sent(r) \in Int /\ Held(r) \in Int
        /\ Held(node[n]) \in Int /\ Total(f) \in Int
    BY <1>2, <1>12, <1>14
  <2>2. Tokens' = Total(h) /\ Tokens = Total(f)
    BY <1>8, <1>9, <1>11
  <2>3. Total(h) = Total(f) + ((token[n] - eaten + Held(r)) - (token[n] + Held(node[n])))
                    + Sent(r)
    <3>1. h[m] - g[m] = Sent(r)
      BY <1>12, <2>1
    <3>2. QED
      BY <1>12, <1>16, <1>17, <3>1
  <2>4. QED
    BY <2>1, <2>2, <2>3
<1>19. Duplicados' = Duplicados + r.tokens_duplicados - node[n].tokens_duplicados
  <2>1. dup \in [Machines -> Int] /\ dup1 \in [Machines -> Int]
    <3>1. r.tokens_duplicados \in Nat
      BY DEF NodeStates
    <3>2. \A k \in Machines : dup1[k] \in Int
      BY <1>2, <1>7, <3>1
    <3>3. dup1 = [k \in Machines |-> dup1[k]]
      BY DEF dup1
    <3>4. QED
      BY <1>2, <3>2, <3>3
  <2>2. Total(dup1) = Total(dup) + (dup1[n] - dup[n])
    BY <1>7, <2>1, TotalChange
  <2>3. QED
    BY <1>2, <1>7, <1>10, <1>14, <2>2 DEF dup
<1>20. QED
  BY <1>4, <1>8, <1>9, <1>10, <1>11, <1>14, <1>18, <1>19

-----------------------------------------------------------------------------
\* Every step keeps the invariant

\* A machine becomes what a handler made of it.
LEMMA Becoming ==
  ASSUME Machines_ok, Network_ok, NEW n \in Machines,
         NEW r, MachineInv(r), r.apelido = n, r.members = Machines,
         NEW eaten \in {0, 1}, eaten <= token[n], NEW read,
         r.out.token = {} \/ r.out.token = {Successor(Machines, n)},
         \A d \in r.out.data : InOrder(d),
         Becomes(n, r, eaten, read)
  PROVE  /\ Machines_ok' /\ Network_ok'
         /\ Tokens \in Nat /\ Tokens' \in Nat /\ Duplicados \in Nat
         /\ Tokens' = Tokens - eaten + Sent(r) + Held(r) - Held(node[n])
         /\ Duplicados' = Duplicados + r.tokens_duplicados - node[n].tokens_duplicados
<1> DEFINE s == [r EXCEPT !.out = NoOut]
<1>1. r \in NodeStates /\ DOMAIN r = NodeFields
  BY FieldsOf DEF MachineInv
<1>2. /\ token' \in [Machines -> Nat]
      /\ Tokens \in Nat /\ Tokens' \in Nat /\ Duplicados \in Nat
      /\ Tokens' = Tokens - eaten + Sent(r) + Held(r) - Held(node[n])
      /\ Duplicados' = Duplicados + r.tokens_duplicados - node[n].tokens_duplicados
  BY <1>1, TokensOf
<1>3. MachineInv(s)
  <2>1. NoOut \in Out
    BY DEF NoOut, Out
  <2>2. QED
    BY <1>1, <2>1, OutQuiet, QuietInv
<1>4. /\ s.apelido = n /\ s.members = Machines /\ s.out = NoOut /\ s.epoch <= MaxEpoch
  BY <1>1 DEF NodeFields, Becomes
<1> HIDE DEF s
<1>5. node' = [node EXCEPT ![n] = s] /\ s \in NodeStates
  BY <1>3 DEF Becomes, s, MachineInv
<1>6. Machines_ok'
  <2>1. node' \in [Machines -> NodeStates]
    BY <1>5 DEF Machines_ok
  <2>2. \A k \in Machines :
          /\ MachineInv(node'[k])
          /\ node'[k].apelido = k /\ node'[k].members = Machines
          /\ node'[k].out = NoOut /\ node'[k].epoch <= MaxEpoch
    BY <1>3, <1>4, <1>5 DEF Machines_ok
  <2>3. QED
    BY <2>1, <2>2 DEF Machines_ok
<1>7. Network_ok'
  <2>1. data' \subseteq data \cup r.out.data
    BY DEF Becomes
  <2>2. \A d \in data' : InOrder(d)
    BY <2>1 DEF Network_ok
  <2>3. QED
    BY <1>2, <2>2 DEF Network_ok
<1>8. QED
  BY <1>2, <1>6, <1>7

\* A new DATA has been nowhere.
LEMMA LaunchedInOrder ==
  ASSUME NEW s, InRing(s), NEW r, Launches(s, r)
  PROVE  \A d \in r.out.data : InOrder(d)
<1>1. PICK f \in Frame :
        /\ f.origem = s.apelido /\ f.controle = CTRL_NONE
        /\ r.out.data = {[to |-> To(s), frame |-> f]}
  BY DEF Launches
<1> DEFINE d == [to |-> To(s), frame |-> f]
<1>2. To(s) \in Machines /\ s.apelido \in Machines
  BY NotAlone DEF InRing
<1>3. f.destino \in Machines => ~Passed(s.apelido, To(s), f.destino)
  BY <1>2, MachinesAreNaturals, PassedNobody DEF To
<1>4. InOrder(d)
  BY <1>1, <1>2, <1>3 DEF InOrder
<1>5. QED
  BY <1>1, <1>4

\* DATA that goes on has been at this machine too, and has its answer if it
\* was for this machine.
LEMMA ForwardedInOrder ==
  ASSUME NEW d, InOrder(d), d.frame.origem # d.to
  PROVE  LET f == d.frame
             g == IF f.destino = d.to THEN Answer(f) ELSE f IN
         InOrder([to |-> Successor(Machines, d.to), frame |-> g])
<1> DEFINE f == d.frame
           g == IF f.destino = d.to THEN Answer(f) ELSE f
           m == Successor(Machines, d.to)
<1>1. f \in Frame /\ d.to \in Machines /\ f.origem \in Machines
  BY DEF InOrder
<1>2. m \in Machines
  BY <1>1, MachinesAreNaturals, SuccessorIsMember
<1>3. g \in Frame
  BY <1>1, AnswerIsFrame
<1>4. /\ g.origem = f.origem /\ g.destino = f.destino
      /\ f.destino = d.to => g.controle # CTRL_NONE
      /\ f.destino # d.to => g.controle = f.controle
  BY <1>1 DEF Answer, Frame, CTRL_NONE, CTRL_ACK, CTRL_NAK
<1>5. f.destino \in Machines =>
        (Passed(f.origem, m, f.destino) <=> Passed(f.origem, d.to, f.destino) \/ f.destino = d.to)
  BY <1>1, MachinesAreNaturals, PassedOneMore
<1>6. f.controle = CTRL_NONE <=>
        f.destino \notin Machines \/ ~Passed(f.origem, d.to, f.destino)
  BY DEF InOrder
<1> DEFINE e == [to |-> m, frame |-> g]
<1>7. e.to = m /\ e.frame = g /\ e \in [to : Machines, frame : Frame]
  BY <1>2, <1>3
<1> HIDE DEF e, g, m
<1>8. InOrder(e)
  BY <1>1, <1>4, <1>5, <1>6, <1>7 DEF InOrder
<1>9. QED
  BY <1>8 DEF e, g, m

\* DATA that is back unanswered was for nobody else of the ring.
LEMMA BackUnanswered ==
  ASSUME NEW d, InOrder(d), d.frame.origem = d.to, d.frame.controle = CTRL_NONE
  PROVE  d.frame.destino \notin Machines \ {d.to}
BY MachinesAreNaturals, PassedOthers DEF InOrder

\* The ledger balances, if what machine n does with tokens is what the
\* history says was added and taken.
LEMMA Balance ==
  ASSUME RingInv, NEW n \in Machines, NEW r, MachineInv(r), NEW eaten \in {0, 1},
         Tokens \in Nat, Duplicados \in Nat,
         Tokens' = Tokens - eaten + Sent(r) + Held(r) - Held(node[n]),
         Duplicados' = Duplicados + r.tokens_duplicados - node[n].tokens_duplicados,
         NEW added \in Int, NEW taken \in Int,
         past'.added = past.added + added, past'.taken = past.taken + taken,
         Sent(r) + Held(r) + r.tokens_duplicados
           = Held(node[n]) + node[n].tokens_duplicados + eaten + added - taken
  PROVE  TokenLedger'
<1> DEFINE dup == node[n].tokens_duplicados
           dup1 == r.tokens_duplicados
           held == Held(node[n])
           held1 == Held(r)
           sent == Sent(r)
<1>1. dup \in Int /\ dup1 \in Int
  <2>1. node[n] \in NodeStates /\ r \in NodeStates
    BY DEF RingInv, Machines_ok, MachineInv
  <2>2. QED
    BY <2>1 DEF NodeStates
<1>2. held \in Int /\ held1 \in Int /\ sent \in Int
  BY DEF Held, Sent
<1>3. past.added \in Int /\ past.taken \in Int
  BY DEF RingInv, Past_ok
<1>4. Tokens = past.added - past.taken - Duplicados
  BY DEF RingInv, TokenLedger
<1>5. /\ Tokens' = Tokens - eaten + sent + held1 - held
      /\ Duplicados' = Duplicados + dup1 - dup
      /\ sent + held1 + dup1 = held + dup + eaten + added - taken
  OBVIOUS
<1> HIDE DEF dup, dup1, held, held1, sent
<1>6. Tokens' = past'.added - past'.taken - Duplicados'
  BY <1>1, <1>2, <1>3, <1>4, <1>5
<1>7. QED
  BY <1>6 DEF TokenLedger

\* A machine becomes what a handler made of it, and the ledger balances.
LEMMA MachineStep ==
  ASSUME RingInv, NEW n \in Machines,
         NEW r, MachineInv(r), r.apelido = n, r.members = Machines,
         NEW eaten \in {0, 1}, eaten <= token[n], NEW read,
         r.out.token = {} \/ r.out.token = {Successor(Machines, n)},
         \A d \in r.out.data : InOrder(d),
         Becomes(n, r, eaten, read),
         NEW added \in Int, NEW taken \in Int,
         past'.added = past.added + added, past'.taken = past.taken + taken,
         Sent(r) + Held(r) + r.tokens_duplicados
           = Held(node[n]) + node[n].tokens_duplicados + eaten + added - taken,
         Past_ok', Budget_ok'
  PROVE  RingInv'
<1>1. /\ Machines_ok' /\ Network_ok'
      /\ Tokens \in Nat /\ Tokens' \in Nat /\ Duplicados \in Nat
      /\ Tokens' = Tokens - eaten + Sent(r) + Held(r) - Held(node[n])
      /\ Duplicados' = Duplicados + r.tokens_duplicados - node[n].tokens_duplicados
  BY Becoming DEF RingInv
<1>2. TokenLedger'
  BY <1>1, Balance
<1>3. QED
  BY <1>1, <1>2 DEF RingInv

\* _on_rx_token keeps the invariant.
LEMMA RxTokenStep ==
  ASSUME RingInv, NEW n \in Machines, RxToken(n)
  PROVE  RingInv'
<1>1. PICK soon \in BOOLEAN, hit \in BOOLEAN :
        /\ token[n] > 0
        /\ Becomes(n, OnRxToken(node[n], soon, hit), 1, {})
        /\ past' = [past EXCEPT !.taken = @ + Taken(n, TRUE)]
        /\ budget' = budget
  BY DEF RxToken
<1> DEFINE s == node[n]
           r == OnRxToken(s, soon, hit)
           taken == Taken(n, TRUE)
<1>2. /\ InRing(s) /\ To(s) = Successor(Machines, n) /\ MachineInv(s)
      /\ s.apelido = n /\ s.members = Machines /\ s.epoch <= MaxEpoch
  BY NodeFacts DEF RingInv, Machines_ok
<1>3. MachineInv(r)
  BY <1>2, OnRxTokenKeeps DEF Keeps
<1>4. /\ r.apelido = s.apelido /\ r.members = s.members /\ SameMonitor(s, r)
      /\ r.queue = s.queue
      /\ s.remove_token_pending => Idles(s, r)
      /\ ~s.remove_token_pending /\ s.has_token =>
           /\ SameWait(s, r) /\ r.has_token = s.has_token
           /\ \/ Silent(r) /\ r.tokens_duplicados = s.tokens_duplicados + 1
              \/ Passes(s, r) /\ r.tokens_duplicados = s.tokens_duplicados
      /\ ~s.remove_token_pending /\ ~s.has_token =>
           \/ /\ soon /\ SameWait(s, r) /\ r.has_token = s.has_token
              /\ Silent(r) /\ r.tokens_duplicados = s.tokens_duplicados + 1
           \/ /\ SameWait(s, r) /\ r.has_token = TRUE
              /\ Silent(r) /\ r.tokens_duplicados = s.tokens_duplicados
           \/ /\ s.queue # <<>> /\ Launches(s, r) /\ r.has_token = TRUE
              /\ r.tokens_duplicados = s.tokens_duplicados
  BY <1>2, OnRxTokenActs
<1>5. s.tokens_duplicados \in Nat /\ r.tokens_duplicados \in Nat
  BY <1>2, <1>3 DEF MachineInv, NodeStates
<1>6. Becomes(n, r, 1, {})
  BY <1>1
<1>7. /\ taken = IF s.remove_token_pending THEN 1 ELSE 0
      /\ past' = [past EXCEPT !.taken = @ + taken]
  BY <1>1 DEF Taken
<1> HIDE DEF s, r, taken
<1>8. /\ r.out.token = {} \/ r.out.token = {Successor(Machines, n)}
      /\ \A d \in r.out.data : InOrder(d)
  BY <1>2, <1>4, LaunchedInOrder DEF Idles, Silent, Passes, Launches
<1>9. Sent(r) + Held(r) + r.tokens_duplicados
        = Held(s) + s.tokens_duplicados + 1 + 0 - taken
  <2>1. CASE s.remove_token_pending
    BY <1>4, <1>5, <1>7, <2>1 DEF Sent, Held, Idles, Silent
  <2>2. CASE ~s.remove_token_pending /\ s.has_token
    <3>1. /\ Held(s) = 1 /\ Held(r) = 1
          /\ \/ Sent(r) = 0 /\ r.tokens_duplicados = s.tokens_duplicados + 1
             \/ Sent(r) = 1 /\ r.tokens_duplicados = s.tokens_duplicados
      BY <1>4, <2>2 DEF Sent, Held, Silent, Passes
    <3>2. QED
      BY <1>5, <1>7, <2>2, <3>1
  <2>3. CASE ~s.remove_token_pending /\ ~s.has_token
    <3>1. /\ Sent(r) = 0 /\ Held(s) = 0
          /\ \/ Held(r) = 0 /\ r.tokens_duplicados = s.tokens_duplicados + 1
             \/ Held(r) = 1 /\ r.tokens_duplicados = s.tokens_duplicados
      BY <1>4, <2>3 DEF Sent, Held, Silent, Launches
    <3>2. QED
      BY <1>5, <1>7, <2>3, <3>1
  <2>4. QED
    BY <2>1, <2>2, <2>3
<1>10. /\ Past_ok' /\ taken \in Int
       /\ past'.added = past.added + 0 /\ past'.taken = past.taken + taken
  BY <1>7 DEF RingInv, Past_ok
<1>11. Budget_ok'
  BY <1>1 DEF RingInv, Budget_ok
<1>12. 1 <= token[n]
  BY <1>1 DEF RingInv, Network_ok
<1>13. QED
  BY <1>2, <1>3, <1>4, <1>6, <1>8, <1>9, <1>10, <1>11, <1>12, MachineStep DEF s

\* _on_rx_data keeps the invariant, also for a DATA that is duplicated.
LEMMA ReadsStep ==
  ASSUME RingInv, NEW d \in data, NEW read, Reads(d.to, d.frame, read), Budget_ok'
  PROVE  RingInv'
<1> DEFINE n == d.to
           f == d.frame
           s == node[n]
           r == OnRxData(s, f)
           ends == f.origem = n /\ EndsRound(s, f)
           taken == IF ends /\ s.remove_token_pending THEN 1 ELSE 0
<1>1. InOrder(d) /\ n \in Machines /\ f \in Frame
  BY DEF RingInv, Network_ok, InOrder
<1>2. /\ InRing(s) /\ To(s) = Successor(Machines, n) /\ MachineInv(s)
      /\ s.apelido = n /\ s.members = Machines
      /\ s.waiting => s.has_token /\ s.queue # <<>>
  BY <1>1, NodeFacts DEF RingInv
<1>3. MachineInv(r)
  BY <1>1, <1>2, OnRxDataKeeps DEF Keeps
<1>4. Becomes(n, r, 0, read)
  BY DEF Reads
<1>5. /\ taken = IF ends /\ s.remove_token_pending THEN 1 ELSE 0
      /\ past'.added = past.added + 0 /\ past'.taken = past.taken + taken
      /\ Past_ok'
  <2> DEFINE arrives == f.destino = n /\ f.origem # n /\ CrcMatches(f.message, f.crc)
             acks == ends /\ f.destino # BROADCAST /\ f.controle = CTRL_ACK
             D == IF arrives THEN [past.delivered EXCEPT ![f.no] = @ + 1] ELSE past.delivered
             A == IF acks THEN past.acked \cup {<<Head(s.queue).no, f.no>>} ELSE past.acked
  <2>1. taken = IF ends /\ s.remove_token_pending THEN 1 ELSE 0
    OBVIOUS
  <2> DEFINE K == past.taken + taken
  <2>2. past' = [past EXCEPT !.delivered = D, !.acked = A, !.taken = K]
    BY DEF Reads, Taken
  <2>3. /\ past \in [typed : Nat, added : Int, taken : Int,
                     delivered : [Numbers -> Nat], acked : SUBSET (Nat \X Nat)]
        /\ past.delivered \in [Numbers -> Nat]
    BY DEF RingInv, Past_ok
  <2>4. D \in [Numbers -> Nat]
    <3>1. CASE f.no \in Numbers
      BY <2>3, <3>1
    <3>2. CASE f.no \notin Numbers
      <4>1. [past.delivered EXCEPT ![f.no] = @ + 1] = past.delivered
        BY <2>3, <3>2
      <4>2. QED
        BY <2>3, <4>1
    <3>3. QED
      BY <3>1, <3>2
  <2>5. A \in SUBSET (Nat \X Nat)
    <3>1. acks => Head(s.queue).no \in Nat /\ f.no \in Nat
      <4>1. s.waiting => s.queue \in Seq(Item) /\ s.queue # <<>>
        BY <1>2 DEF InRing
      <4>2. f.no \in Nat
        BY <1>1 DEF Frame
      <4>3. QED
        BY <4>1, <4>2, HeadItem DEF EndsRound, Item
    <3>2. QED
      BY <2>3, <3>1
  <2>6. taken \in Int /\ K \in Int
    BY <2>1, <2>3
  <2>7. K = past.taken + taken
    OBVIOUS
  <2> HIDE DEF D, A, K, taken
  <2>8. /\ past'.added = past.added /\ past'.taken = K
        /\ past' \in [typed : Nat, added : Int, taken : Int,
                      delivered : [Numbers -> Nat], acked : SUBSET (Nat \X Nat)]
    BY <2>2, <2>3, <2>4, <2>5, <2>6
  <2>9. past.added \in Int
    BY <2>3
  <2>10. QED
    BY <2>1, <2>7, <2>8, <2>9 DEF Past_ok
<1>6. s.tokens_duplicados \in Nat /\ r.tokens_duplicados \in Nat
  BY <1>2, <1>3 DEF MachineInv, NodeStates
<1>7. LET g == IF f.destino = s.apelido THEN Answer(f) ELSE f IN
      /\ f.origem # s.apelido =>
           /\ r.apelido = s.apelido /\ r.members = s.members
           /\ SameMonitor(s, r) /\ SameWait(s, r)
           /\ r.has_token = s.has_token /\ r.tokens_duplicados = s.tokens_duplicados
           /\ r.queue = s.queue
           /\ r.out.token = {} /\ r.out.data = {[to |-> To(s), frame |-> g]}
      /\ f.origem = s.apelido /\ ~EndsRound(s, f) => Idles(s, r) /\ SameMonitor(s, r)
      /\ f.origem = s.apelido /\ EndsRound(s, f) =>
           Releases(s, r) /\ r.queue = Concluded(s.queue, f)
  BY <1>1, <1>2, BackUnanswered, OnRxDataActs
<1>8. f.origem # n => InOrder([to |-> To(s), frame |-> IF f.destino = n THEN Answer(f) ELSE f])
  BY <1>1, <1>2, ForwardedInOrder
<1> HIDE DEF n, f, s, r, taken
<1>9. /\ r.apelido = n /\ r.members = Machines
      /\ r.out.token = {} \/ r.out.token = {Successor(Machines, n)}
      /\ \A e \in r.out.data : InOrder(e)
  BY <1>2, <1>7, <1>8 DEF Idles, Silent, Passes, Releases
<1>10. Sent(r) + Held(r) + r.tokens_duplicados
         = Held(s) + s.tokens_duplicados + 0 + 0 - taken
  <2>1. CASE f.origem # n
    BY <1>2, <1>5, <1>6, <1>7, <2>1 DEF Sent, Held
  <2>2. CASE f.origem = n /\ ~EndsRound(s, f)
    BY <1>2, <1>5, <1>6, <1>7, <2>2 DEF Sent, Held, Idles, Silent
  <2>3. CASE f.origem = n /\ EndsRound(s, f)
    <3>1. s.has_token
      BY <1>2, <2>3 DEF EndsRound
    <3>2. /\ Held(s) = 1 /\ Held(r) = 0 /\ r.tokens_duplicados = s.tokens_duplicados
          /\ Sent(r) = IF s.remove_token_pending THEN 0 ELSE 1
      BY <1>2, <1>7, <2>3, <3>1 DEF Sent, Held, Silent, Passes, Releases
    <3>3. taken = IF s.remove_token_pending THEN 1 ELSE 0
      BY <1>5, <2>3
    <3>4. QED
      BY <1>6, <3>2, <3>3
  <2>4. QED
    BY <2>1, <2>2, <2>3
<1>11. 0 <= token[n] /\ taken \in Int
  BY <1>1, <1>5 DEF RingInv, Network_ok
<1>12. QED
  BY <1>1, <1>3, <1>4, <1>5, <1>9, <1>10, <1>11, MachineStep DEF s

\* _on_timer_forward_token keeps the invariant.
LEMMA TimerForwardTokenStep ==
  ASSUME RingInv, NEW n \in Machines, TimerForwardToken(n)
  PROVE  RingInv'
<1>1. PICK ep \in 0 .. MaxEpoch, hit \in BOOLEAN :
        /\ node[n].forward_timers[ep] > 0
        /\ Becomes(n, OnTimerForwardToken(node[n], ep, hit), 0, {})
        /\ budget' = budget /\ past' = past
  BY DEF TimerForwardToken
<1> DEFINE s == node[n]
           r == OnTimerForwardToken(s, ep, hit)
<1>2. /\ InRing(s) /\ To(s) = Successor(Machines, n) /\ MachineInv(s)
      /\ s.apelido = n /\ s.members = Machines
  BY NodeFacts DEF RingInv
<1>3. MachineInv(r)
  BY <1>1, <1>2, OnTimerForwardTokenKeeps DEF Keeps
<1>4. /\ r.apelido = s.apelido /\ r.members = s.members /\ SameMonitor(s, r)
      /\ r.queue = s.queue /\ r.tokens_duplicados = s.tokens_duplicados
      /\ \/ Idles(s, r)
         \/ /\ s.has_token /\ ~s.waiting
            /\ r.has_token = FALSE /\ SameWait(s, r) /\ Passes(s, r)
         \/ /\ s.has_token /\ ~s.waiting /\ s.queue # <<>>
            /\ r.has_token = TRUE /\ Launches(s, r)
  BY <1>2, OnTimerForwardTokenActs
<1>5. s.tokens_duplicados \in Nat
  BY <1>2 DEF MachineInv, NodeStates
<1>6. Becomes(n, r, 0, {})
  BY <1>1
<1> HIDE DEF s, r
<1>7. /\ r.out.token = {} \/ r.out.token = {Successor(Machines, n)}
      /\ \A d \in r.out.data : InOrder(d)
  BY <1>2, <1>4, LaunchedInOrder DEF Idles, Silent, Passes, Launches
<1>8. Sent(r) + Held(r) + r.tokens_duplicados
        = Held(s) + s.tokens_duplicados + 0 + 0 - 0
  <2>1. \/ Sent(r) = 0 /\ Held(r) = Held(s)
        \/ Sent(r) = 1 /\ Held(r) = 0 /\ Held(s) = 1
    BY <1>4 DEF Sent, Held, Idles, Silent, Passes, Launches
  <2>2. Held(s) \in Int
    BY DEF Held
  <2>3. QED
    BY <1>4, <1>5, <2>1, <2>2
<1>9. Past_ok' /\ Budget_ok' /\ past'.added = past.added + 0 /\ past'.taken = past.taken + 0
  BY <1>1 DEF RingInv, Past_ok, Budget_ok
<1>10. 0 <= token[n]
  BY DEF RingInv, Network_ok
<1>11. QED
  BY <1>2, <1>3, <1>4, <1>6, <1>7, <1>8, <1>9, <1>10, MachineStep DEF s

\* _on_timer_data_return_timeout keeps the invariant.
LEMMA TimerDataReturnTimeoutStep ==
  ASSUME RingInv, NEW n \in Machines, TimerDataReturnTimeout(n)
  PROVE  RingInv'
<1> DEFINE s == node[n]
<1>1. PICK attempt \in s.return_timers :
        LET ends == attempt = s.active_data_attempt /\ s.waiting
        IN /\ Becomes(n, OnTimerDataReturnTimeout(s, attempt), 0, {})
           /\ past' = [past EXCEPT !.taken = @ + Taken(n, ends)]
           /\ budget' = budget
  BY DEF TimerDataReturnTimeout
<1> DEFINE r == OnTimerDataReturnTimeout(s, attempt)
           ends == attempt = s.active_data_attempt /\ s.waiting
           taken == IF ends /\ s.remove_token_pending THEN 1 ELSE 0
<1>2. /\ InRing(s) /\ To(s) = Successor(Machines, n) /\ MachineInv(s)
      /\ s.apelido = n /\ s.members = Machines
      /\ s.waiting => s.has_token /\ s.queue # <<>>
  BY NodeFacts DEF RingInv
<1>3. attempt \in Nat
  BY <1>2 DEF MachineInv, NodeStates
<1>4. MachineInv(r)
  BY <1>2, <1>3, OnTimerDataReturnTimeoutKeeps DEF Keeps
<1>5. IF attempt = s.active_data_attempt /\ s.waiting
      THEN Releases(s, r) /\ r.queue = Tail(s.queue)
      ELSE Idles(s, r) /\ SameMonitor(s, r)
  BY <1>2, OnTimerDataReturnTimeoutActs
<1>6. s.tokens_duplicados \in Nat /\ r.tokens_duplicados \in Nat
  BY <1>2, <1>4 DEF MachineInv, NodeStates
<1>7. Becomes(n, r, 0, {})
  BY <1>1
<1>8. past' = [past EXCEPT !.taken = @ + taken]
  BY <1>1 DEF Taken
<1>9. taken = IF ends /\ s.remove_token_pending THEN 1 ELSE 0
  OBVIOUS
<1> HIDE DEF s, r, taken
<1>10. /\ r.out.token = {} \/ r.out.token = {Successor(Machines, n)}
       /\ \A d \in r.out.data : InOrder(d)
       /\ r.apelido = n /\ r.members = Machines
  BY <1>2, <1>5 DEF Idles, Silent, Passes, Releases
<1>11. Sent(r) + Held(r) + r.tokens_duplicados = Held(s) + s.tokens_duplicados + 0 + 0 - taken
  <2>1. CASE ends
    <3>1. /\ Held(s) = 1 /\ Held(r) = 0 /\ r.tokens_duplicados = s.tokens_duplicados
          /\ Sent(r) = IF s.remove_token_pending THEN 0 ELSE 1
      BY <1>2, <1>5, <2>1 DEF Sent, Held, Silent, Passes, Releases
    <3>2. QED
      BY <1>6, <1>9, <2>1, <3>1
  <2>2. CASE ~ends
    BY <1>5, <1>6, <1>9, <2>2 DEF Sent, Held, Idles, Silent
  <2>3. QED
    BY <2>1, <2>2
<1>12. Past_ok' /\ past'.added = past.added + 0 /\ past'.taken = past.taken + taken
       /\ taken \in Int
  <2>1. past.taken \in Int /\ past.added \in Int /\ taken \in Int
    BY <1>9 DEF RingInv, Past_ok
  <2> DEFINE K == past.taken + taken
  <2>2. K \in Int
    BY <2>1
  <2>3. past' = [past EXCEPT !.taken = K]
    BY <1>8
  <2> HIDE DEF K
  <2>4. Past_ok' /\ past'.added = past.added /\ past'.taken = K
    BY <2>2, <2>3 DEF RingInv, Past_ok
  <2>5. QED
    BY <2>1, <2>4 DEF K
<1>13. Budget_ok'
  BY <1>1 DEF RingInv, Budget_ok
<1>14. 0 <= token[n]
  BY DEF RingInv, Network_ok
<1>15. QED
  BY <1>2, <1>4, <1>7, <1>10, <1>11, <1>12, <1>13, <1>14, MachineStep DEF s

\* The loop of the monitor keeps the invariant.
LEMMA MonitorThreadStep ==
  ASSUME RingInv, NEW n \in Machines, MonitorThread(n)
  PROVE  RingInv'
<1> DEFINE s == node[n]
           r == MonitorFires(s)
<1>1. Becomes(n, r, 0, {}) /\ budget' = budget /\ past' = past
  BY DEF MonitorThread
<1>2. /\ InRing(s) /\ To(s) = Successor(Machines, n) /\ MachineInv(s)
      /\ s.apelido = n /\ s.members = Machines
  BY NodeFacts DEF RingInv
<1>3. MachineInv(r)
  BY <1>2, MonitorFiresKeeps DEF Keeps
<1>4. Idles(s, r)
  BY <1>2, MonitorFiresActs
<1>5. s.tokens_duplicados \in Nat
  BY <1>2 DEF MachineInv, NodeStates
<1> HIDE DEF s, r
<1>6. /\ r.out.token = {} /\ \A d \in r.out.data : InOrder(d)
      /\ r.apelido = n /\ r.members = Machines
  BY <1>2, <1>4 DEF Idles, Silent
<1>7. Sent(r) + Held(r) + r.tokens_duplicados = Held(s) + s.tokens_duplicados + 0 + 0 - 0
  BY <1>4, <1>5 DEF Sent, Held, Idles, Silent
<1>8. Past_ok' /\ Budget_ok' /\ past'.added = past.added + 0 /\ past'.taken = past.taken + 0
  BY <1>1 DEF RingInv, Past_ok, Budget_ok
<1>9. 0 <= token[n]
  BY DEF RingInv, Network_ok
<1>10. QED
  BY <1>1, <1>2, <1>3, <1>6, <1>7, <1>8, <1>9, MachineStep DEF s

\* _on_mon_token_timeout keeps the invariant.
LEMMA MonTokenTimeoutStep ==
  ASSUME RingInv, NEW n \in Machines, MonTokenTimeout(n)
  PROVE  RingInv'
<1> DEFINE s == node[n]
           r == OnMonTokenTimeout(s)
           added == r.tokens_perdidos - s.tokens_perdidos
<1>1. /\ Becomes(n, r, 0, {}) /\ budget' = budget
      /\ past' = [past EXCEPT !.added = @ + r.tokens_perdidos - s.tokens_perdidos]
  BY DEF MonTokenTimeout
<1>2. /\ InRing(s) /\ To(s) = Successor(Machines, n) /\ MachineInv(s)
      /\ s.apelido = n /\ s.members = Machines
      /\ s.waiting => s.has_token /\ s.queue # <<>>
  BY NodeFacts DEF RingInv
<1>3. MachineInv(r)
  BY <1>2, OnMonTokenTimeoutKeeps DEF Keeps
<1>4. s.is_controller \in BOOLEAN
  BY <1>2 DEF MachineInv, NodeStates
<1>5. /\ r.mon_posted = FALSE
      /\ IF s.is_controller /\ ~s.has_token /\ ~s.waiting
         THEN /\ r.apelido = s.apelido /\ r.members = s.members /\ SameWait(s, r)
              /\ r.queue = s.queue /\ r.tokens_duplicados = s.tokens_duplicados
              /\ r.tokens_perdidos = s.tokens_perdidos + 1
              /\ r.has_token = FALSE /\ Passes(s, r)
         ELSE Idles(s, r)
  BY <1>2, <1>4, OnMonTokenTimeoutActs
<1>6. /\ s.tokens_duplicados \in Nat /\ r.tokens_duplicados \in Nat
      /\ s.tokens_perdidos \in Nat /\ r.tokens_perdidos \in Nat
  BY <1>2, <1>3 DEF MachineInv, NodeStates
<1> HIDE DEF s, r
<1>7. /\ r.out.token = {} \/ r.out.token = {Successor(Machines, n)}
      /\ \A d \in r.out.data : InOrder(d)
      /\ r.apelido = n /\ r.members = Machines
  BY <1>2, <1>5 DEF Idles, Silent, Passes
<1>8. Sent(r) + Held(r) + r.tokens_duplicados = Held(s) + s.tokens_duplicados + 0 + added - 0
  <2>1. CASE s.is_controller /\ ~s.has_token /\ ~s.waiting
    <3>1. /\ Sent(r) = 1 /\ Held(r) = 0 /\ Held(s) = 0
          /\ r.tokens_duplicados = s.tokens_duplicados
          /\ r.tokens_perdidos = s.tokens_perdidos + 1
      BY <1>5, <2>1 DEF Sent, Held, Passes
    <3>2. QED
      BY <1>6, <3>1
  <2>2. CASE ~(s.is_controller /\ ~s.has_token /\ ~s.waiting)
    <3>1. /\ Sent(r) = 0 /\ Held(r) = Held(s)
          /\ r.tokens_duplicados = s.tokens_duplicados
          /\ r.tokens_perdidos = s.tokens_perdidos
      BY <1>5, <2>2 DEF Sent, Held, Idles, Silent
    <3>2. Held(s) \in Int
      BY DEF Held
    <3>3. QED
      BY <1>6, <3>1, <3>2
  <2>3. QED
    BY <2>1, <2>2
<1>9. Past_ok' /\ past'.added = past.added + added /\ past'.taken = past.taken + 0
      /\ added \in Int
  <2>1. past.taken \in Int /\ past.added \in Int /\ added \in Int
    BY <1>6 DEF RingInv, Past_ok
  <2> DEFINE K == past.added + added
  <2>2. K \in Int
    BY <2>1
  <2>3. past.added + r.tokens_perdidos - s.tokens_perdidos = K
    BY <1>6, <2>1
  <2>4. past' = [past EXCEPT !.added = K]
    BY <1>1, <2>3
  <2> HIDE DEF K
  <2>5. Past_ok' /\ past'.added = K /\ past'.taken = past.taken
    BY <2>2, <2>4 DEF RingInv, Past_ok
  <2>6. QED
    BY <2>1, <2>5 DEF K
<1>10. Budget_ok'
  BY <1>1 DEF RingInv, Budget_ok
<1>11. 0 <= token[n]
  BY DEF RingInv, Network_ok
<1> HIDE DEF added
<1>12. QED
  BY <1>1, <1>2, <1>3, <1>7, <1>8, <1>9, <1>10, <1>11, MachineStep DEF s

\* One more fault leaves the scenario what it is.
LEMMA FaultKeepsBudget ==
  ASSUME Budget_ok, NEW kind, Fault(kind)
  PROVE  Budget_ok'
<1> DEFINE K == budget.left - 1
<1>1. budget' = [budget EXCEPT !.left = K] /\ K \in Nat
  BY DEF Fault, Budget_ok
<1> HIDE DEF K
<1>2. QED
  BY <1>1 DEF Budget_ok

\* _on_cmd_send keeps the invariant.
LEMMA CmdSendStep ==
  ASSUME RingInv, NEW n \in Machines, CmdSend(n)
  PROVE  RingInv'
<1> DEFINE s == node[n]
           no == past.typed + 1
           text == budget.texts[no]
<1>1. PICK destino \in budget.destinos : Becomes(n, OnCmdSend(s, destino, text, no), 0, {})
  BY DEF CmdSend
<1>2. /\ past.typed < Len(budget.texts) /\ budget' = budget
      /\ past' = [past EXCEPT !.typed = @ + 1]
  BY DEF CmdSend
<1>3. no \in Nat /\ text \in Text /\ destino \in Destino
  <2>1. past.typed \in Nat /\ budget.texts \in Seq(Text) /\ budget.destinos \subseteq Destino
    BY DEF RingInv, Past_ok, Budget_ok
  <2>2. no \in 1 .. Len(budget.texts)
    BY <1>2, <2>1
  <2>3. QED
    BY <2>1, <2>2
<1> DEFINE r == OnCmdSend(s, destino, text, no)
<1>4. /\ InRing(s) /\ To(s) = Successor(Machines, n) /\ MachineInv(s)
      /\ s.apelido = n /\ s.members = Machines
  BY NodeFacts DEF RingInv
<1>5. MachineInv(r)
  BY <1>3, <1>4, OnCmdSendKeeps DEF Keeps
<1> HIDE DEF s, no, text
<1> DEFINE item == [destino |-> destino, text |-> text, no |-> no,
                    skip_fault_injection |-> FALSE, retransmit_used |-> FALSE]
<1>6. /\ r.apelido = s.apelido /\ r.members = s.members
      /\ SameMonitor(s, r) /\ SameWait(s, r)
      /\ r.has_token = s.has_token /\ r.tokens_duplicados = s.tokens_duplicados
      /\ Silent(r)
      /\ r.queue = IF Len(s.queue) >= QueueMax THEN s.queue ELSE Append(s.queue, item)
  BY <1>4, OnCmdSendActs
<1>7. s.tokens_duplicados \in Nat
  BY <1>4 DEF MachineInv, NodeStates
<1> HIDE DEF r
<1>8. /\ r.out.token = {} /\ \A d \in r.out.data : InOrder(d)
      /\ r.apelido = n /\ r.members = Machines
  BY <1>4, <1>6 DEF Silent
<1>9. Sent(r) + Held(r) + r.tokens_duplicados = Held(s) + s.tokens_duplicados + 0 + 0 - 0
  BY <1>6, <1>7 DEF Sent, Held, Silent
<1>10. Past_ok' /\ past'.added = past.added + 0 /\ past'.taken = past.taken + 0
  <2>1. past' = [past EXCEPT !.typed = no]
    BY <1>2 DEF no
  <2>2. Past_ok' /\ past'.added = past.added /\ past'.taken = past.taken
    BY <1>3, <2>1 DEF RingInv, Past_ok
  <2>3. QED
    BY <2>2 DEF RingInv, Past_ok
<1>11. Budget_ok'
  BY <1>2 DEF RingInv, Budget_ok
<1>12. 0 <= token[n]
  BY DEF RingInv, Network_ok
<1>13. Becomes(n, r, 0, {})
  BY <1>1 DEF r
<1>14. QED
  BY <1>4, <1>5, <1>8, <1>9, <1>10, <1>11, <1>12, <1>13, MachineStep DEF s

\* _on_cmd_add_token keeps the invariant.
LEMMA CmdAddTokenStep ==
  ASSUME RingInv, NEW n \in Machines, CmdAddToken(n)
  PROVE  RingInv'
<1> DEFINE s == node[n]
           r == OnCmdAddToken(s)
<1>1. /\ Fault("add") /\ Becomes(n, r, 0, {}) /\ past' = [past EXCEPT !.added = @ + 1]
  BY DEF CmdAddToken
<1>2. /\ InRing(s) /\ To(s) = Successor(Machines, n) /\ MachineInv(s)
      /\ s.apelido = n /\ s.members = Machines
  BY NodeFacts DEF RingInv
<1>3. MachineInv(r)
  BY <1>2, OnCmdAddTokenKeeps DEF Keeps
<1>4. /\ r.apelido = s.apelido /\ r.members = s.members
      /\ r.has_token = s.has_token /\ r.tokens_duplicados = s.tokens_duplicados
      /\ Passes(s, r)
  BY <1>2, OnCmdAddTokenActs
<1>5. s.tokens_duplicados \in Nat
  BY <1>2 DEF MachineInv, NodeStates
<1> HIDE DEF s, r
<1>6. /\ r.out.token = {Successor(Machines, n)} /\ \A d \in r.out.data : InOrder(d)
      /\ r.apelido = n /\ r.members = Machines
  BY <1>2, <1>4 DEF Passes
<1>7. Sent(r) + Held(r) + r.tokens_duplicados = Held(s) + s.tokens_duplicados + 0 + 1 - 0
  BY <1>4, <1>5 DEF Sent, Held, Passes
<1>8. Past_ok' /\ past'.added = past.added + 1 /\ past'.taken = past.taken + 0
  BY <1>1 DEF RingInv, Past_ok
<1>9. Budget_ok'
  BY <1>1, FaultKeepsBudget DEF RingInv
<1>10. 0 <= token[n]
  BY DEF RingInv, Network_ok
<1>11. QED
  BY <1>1, <1>2, <1>3, <1>6, <1>7, <1>8, <1>9, <1>10, MachineStep DEF s

\* _on_cmd_remove_token keeps the invariant.
LEMMA CmdRemoveTokenStep ==
  ASSUME RingInv, NEW n \in Machines, CmdRemoveToken(n)
  PROVE  RingInv'
<1> DEFINE s == node[n]
           r == OnCmdRemoveToken(s)
           taken == IF s.has_token /\ ~s.waiting THEN 1 ELSE 0
<1>1. Fault("remove") /\ Becomes(n, r, 0, {}) /\ past' = [past EXCEPT !.taken = @ + taken]
  BY DEF CmdRemoveToken
<1>2. /\ InRing(s) /\ To(s) = Successor(Machines, n) /\ MachineInv(s)
      /\ s.apelido = n /\ s.members = Machines
  BY NodeFacts DEF RingInv
<1>3. MachineInv(r)
  BY <1>2, OnCmdRemoveTokenKeeps DEF Keeps
<1>4. IF s.has_token /\ ~s.waiting
      THEN /\ r.apelido = s.apelido /\ r.members = s.members
           /\ r.waiting = s.waiting /\ r.has_token = FALSE
           /\ r.queue = s.queue /\ r.tokens_duplicados = s.tokens_duplicados
           /\ Silent(r)
      ELSE Idles(s, r)
  BY <1>2, OnCmdRemoveTokenActs
<1>5. s.tokens_duplicados \in Nat
  BY <1>2 DEF MachineInv, NodeStates
<1>6. taken = IF s.has_token /\ ~s.waiting THEN 1 ELSE 0
  OBVIOUS
<1> HIDE DEF s, r, taken
<1>7. /\ r.out.token = {} /\ \A d \in r.out.data : InOrder(d)
      /\ r.apelido = n /\ r.members = Machines
  BY <1>2, <1>4 DEF Idles, Silent
<1>8. Sent(r) + Held(r) + r.tokens_duplicados = Held(s) + s.tokens_duplicados + 0 + 0 - taken
  BY <1>4, <1>5, <1>6 DEF Sent, Held, Idles, Silent
<1>9. Past_ok' /\ past'.added = past.added + 0 /\ past'.taken = past.taken + taken
      /\ taken \in Int
  <2>1. past.taken \in Int /\ past.added \in Int /\ taken \in Int
    BY <1>6 DEF RingInv, Past_ok
  <2> DEFINE K == past.taken + taken
  <2>2. K \in Int /\ past' = [past EXCEPT !.taken = K]
    BY <1>1, <2>1
  <2> HIDE DEF K
  <2>3. Past_ok' /\ past'.added = past.added /\ past'.taken = K
    BY <2>2 DEF RingInv, Past_ok
  <2>4. QED
    BY <2>1, <2>3 DEF K
<1>10. Budget_ok'
  BY <1>1, FaultKeepsBudget DEF RingInv
<1>11. 0 <= token[n]
  BY DEF RingInv, Network_ok
<1>12. QED
  BY <1>1, <1>2, <1>3, <1>7, <1>8, <1>9, <1>10, <1>11, MachineStep DEF s

\* There are as many tokens as there are.
LEMMA TokensAreNatural ==
  ASSUME Machines_ok, Network_ok
  PROVE  Tokens \in Nat
<1> DEFINE f == [m \in Machines |-> token[m] + IF node[m].has_token THEN 1 ELSE 0]
<1>1. \A m \in Machines : token[m] + (IF node[m].has_token THEN 1 ELSE 0) \in Nat
  BY DEF Network_ok
<1>2. f \in [Machines -> Nat]
  BY <1>1
<1>3. Tokens = Total(f)
  BY DEF Tokens
<1>4. QED
  BY <1>2, <1>3, TotalOfNaturals

\* The network takes a token away or doubles it.
LEMMA TokenStep ==
  ASSUME RingInv, NEW n \in Machines, NEW k \in Int, token[n] + k \in Nat,
         token' = [token EXCEPT ![n] = token[n] + k], node' = node, data' = data,
         past'.added - past'.taken = past.added - past.taken + k,
         Past_ok', Budget_ok'
  PROVE  RingInv' /\ Tokens' = Tokens + k
<1> DEFINE f == [m \in Machines |-> token[m] + Held(node[m])]
           g == [m \in Machines |-> token'[m] + Held(node[m])]
<1>1. Machines_ok' /\ Network_ok' /\ Duplicados' = Duplicados
  BY DEF RingInv, Machines_ok, Network_ok, Duplicados
<1>2. token \in [Machines -> Nat] /\ token' \in [Machines -> Nat]
  BY <1>1 DEF RingInv, Network_ok
<1>3. \A m \in Machines : Held(node[m]) \in 0 .. 1
  BY DEF Held
<1>4. f \in [Machines -> Int] /\ g \in [Machines -> Int] /\ f \in [Machines -> Nat]
  BY <1>2, <1>3
<1>5. \A m \in Machines : m # n => g[m] = f[m]
  BY <1>2
<1>6. g[n] - f[n] = k
  BY <1>2, <1>3
<1>7. Tokens = Total(f) /\ Tokens' = Total(g)
  <2>1. f = [m \in Machines |-> token[m] + IF node[m].has_token THEN 1 ELSE 0]
    BY DEF Held
  <2>2. g = [m \in Machines |-> token'[m] + IF node'[m].has_token THEN 1 ELSE 0]
    BY DEF Held
  <2>3. QED
    BY <2>1, <2>2 DEF Tokens
<1> HIDE DEF f, g
<1>8. Total(f) \in Int /\ Total(g) = Total(f) + (g[n] - f[n])
  BY <1>4, <1>5, TotalChange
<1>9. Tokens' = Tokens + k /\ Tokens \in Int
  BY <1>6, <1>7, <1>8
<1>10. Duplicados \in Int
  <2>1. [m \in Machines |-> node[m].tokens_duplicados] \in [Machines -> Nat]
    BY DEF RingInv, Machines_ok, NodeStates
  <2>2. QED
    BY <2>1, TotalOfNaturals DEF Duplicados
<1>11. TokenLedger'
  <2>1. past.added \in Int /\ past.taken \in Int /\ past'.added \in Int /\ past'.taken \in Int
    BY DEF RingInv, Past_ok
  <2>2. Tokens = past.added - past.taken - Duplicados
    BY DEF RingInv, TokenLedger
  <2>3. Tokens' = past'.added - past'.taken - Duplicados'
    BY <1>1, <1>9, <1>10, <2>1, <2>2
  <2>4. QED
    BY <2>3 DEF TokenLedger
<1>12. QED
  BY <1>1, <1>9, <1>11 DEF RingInv

\* A token lost.
LEMMA LoseTokenStep ==
  ASSUME RingInv, NEW n \in Machines, LoseToken(n)
  PROVE  RingInv' /\ Tokens' = Tokens - 1
<1>1. /\ Fault("lose") /\ token[n] > 0 /\ token' = [token EXCEPT ![n] = @ - 1]
      /\ past' = [past EXCEPT !.taken = @ + 1] /\ node' = node /\ data' = data
  BY DEF LoseToken
<1>2. Past_ok' /\ past'.added - past'.taken = past.added - past.taken + (-1)
  BY <1>1 DEF RingInv, Past_ok
<1>3. Budget_ok'
  BY <1>1, FaultKeepsBudget DEF RingInv
<1>4. token[n] + (-1) \in Nat /\ token[n] + (-1) = token[n] - 1
  BY <1>1 DEF RingInv, Network_ok
<1> DEFINE k == -1
           t == token[n] - 1
<1>5. /\ k \in Int /\ token[n] + k \in Nat
      /\ token' = [token EXCEPT ![n] = token[n] + k] /\ node' = node /\ data' = data
      /\ past'.added - past'.taken = past.added - past.taken + k
  <2>1. token' = [token EXCEPT ![n] = t]
    BY <1>1
  <2>2. token[n] + k = t
    BY <1>4
  <2> HIDE DEF t
  <2>3. token' = [token EXCEPT ![n] = token[n] + k]
    BY <2>1, <2>2
  <2>4. k \in Int
    OBVIOUS
  <2>5. past'.added - past'.taken = past.added - past.taken + k
    BY <1>2
  <2>6. token[n] + k \in Nat
    BY <1>4
  <2> HIDE DEF k
  <2>7. QED
    BY <1>1, <2>3, <2>4, <2>5, <2>6
<1> HIDE DEF k
<1>6. RingInv' /\ Tokens' = Tokens + k
  BY <1>2, <1>3, <1>5, TokenStep
<1>7. Tokens \in Nat
  BY TokensAreNatural DEF RingInv
<1>8. QED
  BY <1>6, <1>7 DEF k

\* A token doubled.
LEMMA DuplicateTokenStep ==
  ASSUME RingInv, NEW n \in Machines, DuplicateToken(n)
  PROVE  RingInv'
<1>1. /\ Fault("duplicate") /\ token' = [token EXCEPT ![n] = @ + 1]
      /\ past' = [past EXCEPT !.added = @ + 1] /\ node' = node /\ data' = data
  BY DEF DuplicateToken
<1>2. Past_ok' /\ past'.added - past'.taken = past.added - past.taken + 1
  BY <1>1 DEF RingInv, Past_ok
<1>3. Budget_ok'
  BY <1>1, FaultKeepsBudget DEF RingInv
<1> DEFINE k == 1
<1>4. /\ k \in Int /\ token[n] + k \in Nat
      /\ token' = [token EXCEPT ![n] = token[n] + k] /\ node' = node /\ data' = data
      /\ past'.added - past'.taken = past.added - past.taken + k
  BY <1>1, <1>2 DEF RingInv, Network_ok
<1> HIDE DEF k
<1>5. QED
  BY <1>2, <1>3, <1>4, TokenStep

\* What no token and no machine has a part in.
LEMMA NothingCounted ==
  ASSUME RingInv, node' = node, token' = token, data' \subseteq data, past' = past, Budget_ok'
  PROVE  RingInv'
<1>1. Machines_ok' /\ Network_ok' /\ Past_ok'
  BY DEF RingInv, Machines_ok, Network_ok, Past_ok
<1>2. Tokens' = Tokens /\ Duplicados' = Duplicados
  BY DEF Tokens, Duplicados
<1>3. TokenLedger'
  BY <1>2 DEF RingInv, TokenLedger
<1>4. QED
  BY <1>1, <1>3 DEF RingInv

\* Every step of the ring keeps the invariant.
LEMMA RingInvStep ==
  ASSUME RingInv, [Next]_vars
  PROVE  RingInv'
<1>1. CASE LoseData
  <2>1. /\ node' = node /\ token' = token /\ data' \subseteq data /\ past' = past
        /\ Fault("lose")
    BY <1>1 DEF LoseData
  <2>2. QED
    BY <2>1, FaultKeepsBudget, NothingCounted DEF RingInv
<1>2. ASSUME NEW n \in Machines, System(n)
      PROVE  RingInv'
  <2>1. CASE RxToken(n)
    BY <2>1, RxTokenStep
  <2>2. CASE RxData(n)
    <3>1. PICK d \in data : d.to = n /\ Reads(n, d.frame, {d}) /\ budget' = budget
      BY <2>2 DEF RxData
    <3>2. Budget_ok'
      BY <3>1 DEF RingInv, Budget_ok
    <3>3. QED
      BY <3>1, <3>2, ReadsStep
  <2>3. CASE TimerForwardToken(n)
    BY <2>3, TimerForwardTokenStep
  <2>4. CASE TimerDataReturnTimeout(n)
    BY <2>4, TimerDataReturnTimeoutStep
  <2>5. CASE MonitorThread(n)
    BY <2>5, MonitorThreadStep
  <2>6. CASE MonTokenTimeout(n)
    BY <2>6, MonTokenTimeoutStep
  <2>7. QED
    BY <1>2, <2>1, <2>2, <2>3, <2>4, <2>5, <2>6 DEF System
<1>3. ASSUME NEW n \in Machines, Users(n)
      PROVE  RingInv'
  BY <1>3, CmdSendStep, CmdAddTokenStep, CmdRemoveTokenStep DEF Users
<1>4. ASSUME NEW n \in Machines, Network(n)
      PROVE  RingInv'
  <2>1. CASE LoseToken(n)
    BY <2>1, LoseTokenStep
  <2>2. CASE DuplicateToken(n)
    BY <2>2, DuplicateTokenStep
  <2>3. CASE DuplicateData(n)
    <3>1. PICK d \in data : d.to = n /\ Reads(n, d.frame, {}) /\ Fault("duplicate")
      BY <2>3 DEF DuplicateData
    <3>2. Budget_ok'
      BY <3>1, FaultKeepsBudget DEF RingInv
    <3>3. QED
      BY <3>1, <3>2, ReadsStep
  <2>4. QED
    BY <1>4, <2>1, <2>2, <2>3 DEF Network
<1>5. CASE UNCHANGED vars
  <2>1. node' = node /\ token' = token /\ data' = data /\ past' = past /\ budget' = budget
    BY <1>5 DEF vars
  <2>2. Budget_ok'
    BY <2>1 DEF RingInv, Budget_ok
  <2>3. QED
    BY <2>1, <2>2, NothingCounted
<1>6. QED
  BY <1>1, <1>2, <1>3, <1>4, <1>5 DEF Next

-----------------------------------------------------------------------------
\* The initial states keep the invariant

\* The controller is a machine of the ring.
LEMMA ControllerIsMachine == Controller \in Machines
<1>1. Machines # {}
  BY MachinesAssumption, FS_EmptySet
<1>2. QED
  BY <1>1, MachinesAreNaturals, MinOfNaturals DEF Controller, ControllerApelido

\* A machine that knows the whole ring, before there is a token.
LEMMA JoinedFacts ==
  ASSUME NEW n \in Machines
  PROVE  LET s == Joined(n) IN
         /\ MachineInv(s) /\ InRing(s) /\ s.apelido = n
         /\ s.is_controller = (Controller = n) /\ s.mon_enabled = FALSE
         /\ s.first_token_generated = FALSE /\ s.observed_activity = FALSE
         /\ s.has_token = FALSE /\ s.waiting = FALSE /\ s.queue = <<>>
         /\ s.tokens_duplicados = 0 /\ s.epoch = 0 /\ s.mon_posted = FALSE
<1> DEFINE seen == [m \in Apelido |-> 0]
           timers == [e \in 0 .. MaxEpoch |-> 0]
           b == [apelido |-> n, members |-> {n}, member_last_seen |-> seen,
              is_controller |-> TRUE, has_token |-> FALSE, first_token_generated |-> FALSE,
              observed_activity |-> FALSE, epoch |-> 0, last_token_rx |-> NoInstant,
              expect_token_return |-> FALSE, tokens_perdidos |-> 0, tokens_duplicados |-> 0,
              remove_token_pending |-> FALSE, waiting |-> FALSE, data_attempt_seq |-> 0,
              active_data_attempt |-> NoAttempt, active_data_fingerprint |-> None,
              last_data_activity |-> 0, segurando_sozinho |-> FALSE,
              discovery_deferred |-> FALSE, queue |-> <<>>, forward_timers |-> timers,
              return_timers |-> {}, eval_armed |-> TRUE, eval_posted |-> FALSE,
              mon_enabled |-> FALSE, mon_paused |-> FALSE, mon_silence |-> 0,
              mon_posted |-> FALSE, out |-> NoOut]
           a == Announce(b, "DISCOVER")
           w == [a EXCEPT !.members = Machines]
           u == RecomputeRole(w)
           s == Joined(n)
<1>1. n \in Apelido /\ Machines \subseteq Apelido /\ NoOut \in Out
  BY MachinesAssumption DEF NoOut, Out
<1>2. b \in NodeStates
  <2>1. seen \in [Apelido -> Nat] /\ timers \in [0 .. MaxEpoch -> Nat]
    OBVIOUS
  <2> HIDE DEF seen, timers
  <2>2. <<>> \in Seq(Item) /\ NoAttempt \in Nat
    BY DEF NoAttempt
  <2>3. QED
    BY <1>1, <2>1, <2>2 DEF NodeStates
<1>3. /\ b.apelido = n /\ b.is_controller = TRUE /\ b.mon_enabled = FALSE
      /\ b.first_token_generated = FALSE /\ b.observed_activity = FALSE
      /\ b.has_token = FALSE /\ b.waiting = FALSE /\ b.queue = <<>>
      /\ b.tokens_duplicados = 0 /\ b.epoch = 0 /\ b.mon_posted = FALSE
      /\ b.remove_token_pending = FALSE /\ b.mon_paused = FALSE
      /\ b.segurando_sozinho = FALSE
  OBVIOUS
<1>4. s = [u EXCEPT !.eval_armed = FALSE, !.out = NoOut]
  BY DEF Joined, StartedNode
<1> HIDE DEF b
<1>5. a \in NodeStates
  BY <1>2, AnnounceQuiet DEF Quiet
<1>6. w \in NodeStates
  BY <1>1, <1>5 DEF NodeStates
<1>7. /\ w.apelido = n /\ w.members = Machines /\ w.is_controller = TRUE
      /\ w.first_token_generated = FALSE /\ w.observed_activity = FALSE
      /\ w.has_token = FALSE /\ w.waiting = FALSE /\ w.queue = <<>>
      /\ w.tokens_duplicados = 0 /\ w.epoch = 0 /\ w.mon_posted = FALSE
      /\ w.remove_token_pending = FALSE /\ w.mon_paused = FALSE
      /\ w.segurando_sozinho = FALSE
  <2>1. DOMAIN b = NodeFields
    BY <1>2, FieldsOf
  <2>2. QED
    BY <1>3, <2>1 DEF NodeFields, Announce
<1> HIDE DEF a, w
<1>8. /\ u \in NodeStates /\ RoleInv(u)
      /\ u.apelido = w.apelido /\ u.members = w.members
      /\ u.first_token_generated = w.first_token_generated
      /\ u.observed_activity = w.observed_activity
      /\ u.has_token = w.has_token /\ u.remove_token_pending = w.remove_token_pending
      /\ u.epoch = w.epoch /\ u.forward_timers = w.forward_timers
      /\ u.segurando_sozinho = (w.segurando_sozinho /\ (Alone(w) \/ w.has_token))
      /\ SameRound(w, u)
      /\ u.queue = w.queue /\ u.mon_paused = w.mon_paused
  BY <1>6, <1>7, RecomputeRoleFacts
<1>9. /\ u.tokens_duplicados = 0 /\ u.mon_posted = FALSE
      /\ u.is_controller = (Controller = n) /\ u.mon_enabled = FALSE
  <2>1. DOMAIN w = NodeFields
    BY <1>6, FieldsOf
  <2>2. QED
    BY <1>7, <2>1 DEF NodeFields, RecomputeRole, IsController, Controller
<1> HIDE DEF u, s
<1>10. /\ s.apelido = n /\ s.members = Machines /\ s.out = NoOut
       /\ s.is_controller = (Controller = n) /\ s.mon_enabled = FALSE
       /\ s.first_token_generated = FALSE /\ s.observed_activity = FALSE
       /\ s.has_token = FALSE /\ s.waiting = FALSE /\ s.queue = <<>>
       /\ s.tokens_duplicados = 0 /\ s.epoch = 0 /\ s.mon_posted = FALSE
       /\ s.remove_token_pending = FALSE /\ s.mon_paused = FALSE
  <2>1. DOMAIN u = NodeFields
    BY <1>8, FieldsOf
  <2>2. QED
    BY <1>4, <1>7, <1>8, <1>9, <2>1 DEF NodeFields, SameRound
<1>11. s \in NodeStates
  BY ZenonT(60), <1>1, <1>4, <1>8 DEF NodeStates
<1>12. InRing(s)
  BY <1>10, <1>11, FieldsOf DEF InRing
<1>13. RoleInv(s) /\ QueueInv(s.queue) /\ RoundInv(s) /\ TokenInv(s)
  <2>1. s.is_controller = IsController(s.members, s.apelido)
    BY <1>10 DEF IsController, Controller
  <2>2. RoleInv(s)
    BY <1>10, <2>1 DEF RoleInv
  <2>3. QueueInv(s.queue)
    BY <1>10 DEF QueueInv
  <2>4. RoundInv(s) /\ TokenInv(s)
    BY <1>10 DEF RoundInv, TokenInv
  <2>5. QED
    BY <2>2, <2>3, <2>4
<1>14. QED
  BY <1>10, <1>11, <1>12, <1>13 DEF MachineInv, s

\* _on_eval_first_token at the controller of a ring without a token.
LEMMA OnEvalFirstTokenActs ==
  ASSUME NEW s, InRing(s), s.is_controller, ~s.first_token_generated, ~s.observed_activity
  PROVE  LET r == OnEvalFirstToken(s) IN
         /\ SamePlace(s, r) /\ SameMonitor(s, r) /\ SameWait(s, r)
         /\ r.queue = s.queue /\ r.tokens_duplicados = s.tokens_duplicados
         /\ r.epoch = s.epoch + 1
         /\ r.has_token = FALSE /\ Passes(s, r)
<1> DEFINE t == [s EXCEPT !.eval_posted = FALSE]
           v == RefreshMonitorPause(
                  [t EXCEPT !.epoch = @ + 1,
                            !.expect_token_return = @ \/ t.is_controller,
                            !.last_token_rx = NoInstant,
                            !.first_token_generated = TRUE,
                            !.mon_enabled = t.is_controller,
                            !.has_token = FALSE])
           w == SendToken(v)
           r == OnEvalFirstToken(s)
<1>1. r = NoteActivity(w)
  BY DEF OnEvalFirstToken, GenerateToken
<1>2. /\ InRing(v) /\ SamePlace(s, v) /\ SameWait(s, v) /\ SameMonitor(s, v)
      /\ v.queue = s.queue /\ v.has_token = FALSE /\ v.epoch = s.epoch + 1
      /\ v.tokens_duplicados = s.tokens_duplicados
  BY DEF NodeFields, InRing, SamePlace, SameWait, SameMonitor, RefreshMonitorPause
<1> HIDE DEF v, r
<1>3. /\ SamePlace(v, w) /\ SameMonitor(v, w) /\ SameWait(v, w)
      /\ w.queue = v.queue /\ w.tokens_duplicados = v.tokens_duplicados
      /\ w.has_token = v.has_token /\ Passes(v, w)
  BY <1>2, SendTokenActs
<1>4. DOMAIN w = NodeFields /\ w.epoch = v.epoch
  BY <1>2 DEF NodeFields, InRing, SendToken
<1> HIDE DEF w
<1>5. /\ SamePlace(w, r) /\ SameMonitor(w, r) /\ SameWait(w, r)
      /\ r.queue = w.queue /\ r.tokens_duplicados = w.tokens_duplicados
      /\ r.has_token = w.has_token /\ r.out = w.out /\ r.epoch = w.epoch
  BY <1>1, <1>4 DEF NodeFields, SamePlace, SameMonitor, SameWait, NoteActivity
<1>6. QED
  BY <1>2, <1>3, <1>4, <1>5 DEF SamePlace, SameMonitor, SameWait, Passes, To, r

\* The ring just formed: every machine is idle, the controller has sent the
\* only token.
LEMMA FirstFacts ==
  ASSUME NEW n \in Machines
  PROVE  LET s == First(n) IN
         /\ MachineInv(s) /\ s.apelido = n /\ s.members = Machines /\ s.epoch <= MaxEpoch
         /\ s.has_token = FALSE /\ s.waiting = FALSE /\ s.queue = <<>>
         /\ s.tokens_duplicados = 0 /\ s.mon_posted = FALSE
         /\ n = Controller => s.out.token = {Successor(Machines, Controller)}
<1> DEFINE j == Joined(n)
           s == First(n)
<1>1. /\ MachineInv(j) /\ InRing(j) /\ j.apelido = n
      /\ j.is_controller = (Controller = n) /\ j.mon_enabled = FALSE
      /\ j.first_token_generated = FALSE /\ j.observed_activity = FALSE
      /\ j.has_token = FALSE /\ j.waiting = FALSE /\ j.queue = <<>>
      /\ j.tokens_duplicados = 0 /\ j.epoch = 0 /\ j.mon_posted = FALSE
  BY JoinedFacts
<1>2. MaxEpoch \in Nat /\ MaxEpoch > 0
  BY MaxEpochAssumption, FirstEpochAssumption
<1> HIDE DEF j
<1>3. CASE n = Controller
  <2>1. s = OnEvalFirstToken(j)
    BY <1>3 DEF First, j
  <2> HIDE DEF s
  <2>2. MachineInv(s)
    BY <1>1, <2>1, OnEvalFirstTokenKeeps DEF Keeps
  <2>3. /\ SamePlace(j, s) /\ SameMonitor(j, s) /\ SameWait(j, s)
        /\ s.queue = j.queue /\ s.tokens_duplicados = j.tokens_duplicados
        /\ s.epoch = j.epoch + 1
        /\ s.has_token = FALSE /\ Passes(j, s)
    BY <1>1, <1>3, <2>1, OnEvalFirstTokenActs
  <2>4. QED
    BY <1>1, <1>2, <1>3, <2>2, <2>3
       DEF s, SamePlace, SameMonitor, SameWait, Passes, To, InRing
<1>4. CASE n # Controller
  <2>1. s = j
    BY <1>4 DEF First, j
  <2>2. QED
    BY <1>1, <1>2, <1>4, <2>1 DEF InRing
<1>5. QED
  BY <1>3, <1>4

\* The initial states.
LEMMA InitFacts ==
  ASSUME Init
  PROVE  /\ Machines_ok
         /\ \A n \in Machines :
              /\ node[n].has_token = FALSE /\ node[n].waiting = FALSE /\ node[n].queue = <<>>
              /\ node[n].tokens_duplicados = 0 /\ node[n].mon_posted = FALSE
         /\ token = [n \in Machines |-> IF n = Successor(Machines, Controller) THEN 1 ELSE 0]
<1>1. ASSUME NEW n \in Machines
      PROVE  /\ MachineInv(node[n])
             /\ node[n].apelido = n /\ node[n].members = Machines
             /\ node[n].out = NoOut /\ node[n].epoch <= MaxEpoch
             /\ node[n].has_token = FALSE /\ node[n].waiting = FALSE /\ node[n].queue = <<>>
             /\ node[n].tokens_duplicados = 0 /\ node[n].mon_posted = FALSE
  <2> DEFINE s == First(n)
             t == [s EXCEPT !.out = NoOut]
  <2>1. /\ MachineInv(s) /\ s.apelido = n /\ s.members = Machines /\ s.epoch <= MaxEpoch
        /\ s.has_token = FALSE /\ s.waiting = FALSE /\ s.queue = <<>>
        /\ s.tokens_duplicados = 0 /\ s.mon_posted = FALSE
        /\ n = Controller => s.out.token = {Successor(Machines, Controller)}
    BY FirstFacts
  <2>2. node[n] = t
    BY DEF Init
  <2> HIDE DEF s
  <2>3. DOMAIN s = NodeFields /\ s \in NodeStates
    BY <2>1, FieldsOf DEF MachineInv
  <2>4. MachineInv(t)
    <3>1. NoOut \in Out
      BY DEF NoOut, Out
    <3>2. QED
      BY <2>1, <2>3, <3>1, OutQuiet, QuietInv
  <2>5. QED
    BY <2>1, <2>2, <2>3, <2>4 DEF NodeFields
<1>2. node \in [Machines -> NodeStates]
  <2>1. node = [n \in Machines |-> node[n]]
    BY DEF Init
  <2>2. \A n \in Machines : node[n] \in NodeStates
    BY <1>1 DEF MachineInv
  <2>3. QED
    BY <2>1, <2>2
<1>3. First(Controller).out.token = {Successor(Machines, Controller)}
  BY ControllerIsMachine, FirstFacts
<1>4. token = [n \in Machines |-> IF n = Successor(Machines, Controller) THEN 1 ELSE 0]
  BY <1>3 DEF Init
<1>5. QED
  BY <1>1, <1>2, <1>4 DEF Machines_ok

\* The initial states keep the invariant, with one token.
LEMMA InitRingInv ==
  ASSUME Init
  PROVE  RingInv /\ Tokens = 1 /\ Duplicados = 0
<1> DEFINE a == Successor(Machines, Controller)
           f == [n \in Machines |-> token[n] + IF node[n].has_token THEN 1 ELSE 0]
           zero == [n \in Machines |-> 0]
<1>1. /\ Machines_ok
      /\ \A n \in Machines :
              /\ node[n].has_token = FALSE /\ node[n].waiting = FALSE /\ node[n].queue = <<>>
              /\ node[n].tokens_duplicados = 0 /\ node[n].mon_posted = FALSE
      /\ token = [n \in Machines |-> IF n = a THEN 1 ELSE 0]
  BY InitFacts
<1>2. a \in Machines
  BY ControllerIsMachine, MachinesAreNaturals, SuccessorIsMember
<1>3. Network_ok
  BY <1>1 DEF Network_ok, Init
<1>4. Tokens = 1
  <2>1. /\ f \in [Machines -> Int] /\ zero \in [Machines -> Int] /\ zero \in [Machines -> Nat]
        /\ \A n \in Machines : n # a => f[n] = zero[n]
        /\ f[a] = 1 /\ zero[a] = 0 /\ \A n \in Machines : zero[n] = 0
    BY <1>1, <1>2
  <2>2. Tokens = Total(f)
    BY DEF Tokens
  <2> HIDE DEF f, zero, a
  <2>3. Total(zero) = 0
    BY <2>1, TotalOfNaturals
  <2>4. Total(f) = Total(zero) + (f[a] - zero[a])
    BY <1>2, <2>1, TotalChange
  <2>5. QED
    BY <2>1, <2>2, <2>3, <2>4
<1>5. Duplicados = 0
  <2> DEFINE dup == [n \in Machines |-> node[n].tokens_duplicados]
  <2>1. dup \in [Machines -> Nat] /\ \A n \in Machines : dup[n] = 0
    BY <1>1
  <2>2. QED
    BY <2>1, TotalOfNaturals DEF Duplicados
<1>6. Budget_ok
  BY ScenariosAssumption DEF Init, Budget_ok
<1>7. Past_ok
  BY DEF Init, Past_ok
<1>8. TokenLedger
  BY <1>4, <1>5 DEF Init, TokenLedger
<1>9. QED
  BY <1>1, <1>3, <1>4, <1>5, <1>6, <1>7, <1>8 DEF RingInv

-----------------------------------------------------------------------------
\* Theorems

\* In every reachable state of every ring, machines are consistent, DATA in
\* flight has the answers its way implies, and the ledger of tokens balances.
THEOREM RingInvariant == Spec => []RingInv
<1>1. Init => RingInv
  BY InitRingInv
<1>2. RingInv /\ [Next]_vars => RingInv'
  BY RingInvStep
<1>3. QED
  BY <1>1, <1>2, PTL DEF Spec

\* The fields of every machine and every datagram keep their types.
THEOREM TypeCorrect == Spec => []TypeOK
<1>1. RingInv => TypeOK
  BY DEF RingInv, Machines_ok, Network_ok, InOrder, TypeOK
<1>2. QED
  BY <1>1, RingInvariant, PTL

\* Tokens are conserved, whatever is lost, duplicated, added and removed: no
\* handler loses a token or doubles one in passing.
THEOREM TokensAreConserved == Spec => []TokenLedger
<1>1. RingInv => TokenLedger
  BY DEF RingInv
<1>2. QED
  BY <1>1, RingInvariant, PTL

\* No machine ever takes another one for absent (_on_rx_data,
\* "maquinainexistente"): DATA comes back unanswered only when its
\* destination is not in the ring.
THEOREM RingStaysIntact == Spec => []RingIntact
<1>1. RingInv => RingIntact
  BY DEF RingInv, Machines_ok, RingIntact
<1>2. QED
  BY <1>1, RingInvariant, PTL

-----------------------------------------------------------------------------
\* Messages keep their numbers

\* What says it is message `no' is it: message `no' has been typed, with this text.
IsNamed(no, text, typed, texts) == no \in 1 .. typed /\ text = texts[no]
AllNamed(q, typed, texts) ==
  \A i \in DOMAIN q : IsNamed(q[i].no, q[i].text, typed, texts)

\* The history is ahead of what an ACK on its way will tell, and what ACKs
\* have told was so.
MessagesInv ==
  /\ past.typed <= Len(budget.texts)
  /\ \A n \in Machines : AllNamed(node[n].queue, past.typed, budget.texts)
  /\ \A d \in data :
       /\ IsNamed(d.frame.no, d.frame.crc, past.typed, budget.texts)
       /\ d.frame.controle = CTRL_ACK => past.delivered[d.frame.no] > 0
  /\ \A c \in past.acked : c[1] \in Numbers /\ c[1] = c[2] /\ past.delivered[c[1]] > 0

\* No scenario has the same text twice.
DistinctTexts ==
  \A s \in Scenarios : \A i, j \in DOMAIN s.texts : s.texts[i] = s.texts[j] => i = j

\* DATA that ends a round is that of the head of the queue.
RoundsOwnData ==
  \A d \in data : d.frame.origem = d.to /\ EndsRound(node[d.to], d.frame)
                    => Head(node[d.to].queue).no = d.frame.no

\* A message that has been typed has a number.
LEMMA NamedNumber ==
  ASSUME Budget_ok, Past_ok, past.typed <= Len(budget.texts), NEW no \in 1 .. past.typed
  PROVE  no \in Numbers /\ no \in DOMAIN budget.texts
<1>1. PICK s \in Scenarios : budget.texts = s.texts
  BY DEF Budget_ok
<1>2. budget.texts \in Seq(Text) /\ past.typed \in Nat
  BY DEF Budget_ok, Past_ok
<1>3. no \in DOMAIN budget.texts
  BY <1>2
<1>4. QED
  BY <1>1, <1>3 DEF Numbers

\* What handlers do to a queue keeps messages what they are.
LEMMA NamedQueues ==
  ASSUME NEW q \in Seq(Item), NEW typed \in Nat, NEW texts, AllNamed(q, typed, texts)
  PROVE  /\ q # <<>> => /\ AllNamed(Tail(q), typed, texts)
                        /\ AllNamed(Marked(q), typed, texts)
                        /\ IsNamed(Head(q).no, Head(q).text, typed, texts)
         /\ AllNamed(q, typed + 1, texts)
         /\ \A item \in Item : IsNamed(item.no, item.text, typed + 1, texts)
                                 => AllNamed(Append(q, item), typed + 1, texts)
<1>1. AllNamed(q, typed + 1, texts)
  BY DEF AllNamed, IsNamed
<1>2. ASSUME q # <<>>
      PROVE  /\ AllNamed(Tail(q), typed, texts) /\ AllNamed(Marked(q), typed, texts)
             /\ IsNamed(Head(q).no, Head(q).text, typed, texts)
  <2>1. /\ Tail(q) \in Seq(Item) /\ Len(Tail(q)) = Len(q) - 1
        /\ \A i \in 1 .. Len(Tail(q)) : Tail(q)[i] = q[i + 1]
    BY <1>2, HeadTailProperties
  <2>2. AllNamed(Tail(q), typed, texts)
    BY <2>1 DEF AllNamed
  <2>3. /\ Marked(q) \in Seq(Item) /\ Len(Marked(q)) = Len(q)
        /\ \A i \in 1 .. Len(q) : /\ Marked(q)[i].no = q[i].no
                                  /\ Marked(q)[i].text = q[i].text
    BY <1>2, MarkedItems
  <2>4. AllNamed(Marked(q), typed, texts)
    BY <2>3 DEF AllNamed
  <2>5. Head(q) = q[1] /\ 1 \in DOMAIN q
    BY <1>2, HeadItem
  <2>6. QED
    BY <2>2, <2>4, <2>5 DEF AllNamed
<1>3. ASSUME NEW item \in Item, IsNamed(item.no, item.text, typed + 1, texts)
      PROVE  AllNamed(Append(q, item), typed + 1, texts)
  <2>1. /\ Append(q, item) \in Seq(Item) /\ Len(Append(q, item)) = Len(q) + 1
        /\ \A i \in 1 .. Len(q) : Append(q, item)[i] = q[i]
        /\ Append(q, item)[Len(q) + 1] = item
    BY AppendProperties
  <2>2. \A i \in 1 .. Len(q) + 1 : i # Len(q) + 1 => i \in 1 .. Len(q)
    OBVIOUS
  <2>3. \A i \in 1 .. Len(q) : IsNamed(q[i].no, q[i].text, typed + 1, texts)
    BY <1>1 DEF AllNamed
  <2>4. QED
    BY <1>3, <2>1, <2>2, <2>3 DEF AllNamed
<1>4. QED
  BY <1>1, <1>2, <1>3

\* A machine becomes r and the messages are still what they say.
LEMMA MessagesStep ==
  ASSUME RingInv, MessagesInv, NEW n \in Machines, NEW r, DOMAIN r = NodeFields,
         NEW eaten, NEW read, Becomes(n, r, eaten, read),
         NEW typed \in Nat, past.typed <= typed, typed <= Len(budget.texts),
         past'.typed = typed, budget'.texts = budget.texts,
         \A k \in Machines : AllNamed(node[k].queue, typed, budget.texts),
         AllNamed(r.queue, typed, budget.texts),
         \A d \in r.out.data :
           /\ IsNamed(d.frame.no, d.frame.crc, typed, budget.texts)
           /\ d.frame.controle = CTRL_ACK => past'.delivered[d.frame.no] > 0,
         \A k \in Numbers : past.delivered[k] > 0 => past'.delivered[k] > 0,
         \A c \in past'.acked : c \in past.acked
           \/ (c[1] \in Numbers /\ c[1] = c[2] /\ past'.delivered[c[1]] > 0)
  PROVE  MessagesInv'
<1> DEFINE s == [r EXCEPT !.out = NoOut]
<1>1. node' = [node EXCEPT ![n] = s] /\ DOMAIN node = Machines
  BY DEF Becomes, RingInv, Machines_ok
<1>2. s.queue = r.queue
  BY DEF NodeFields
<1> HIDE DEF s
<1>3. \A k \in Machines : AllNamed(node'[k].queue, typed, budget.texts)
  BY <1>1, <1>2
<1>4. \A d \in data : d.frame.no \in Numbers
  BY NamedNumber DEF RingInv, MessagesInv, IsNamed
<1>5. past.typed \in Nat
  BY DEF RingInv, Past_ok
<1>6. ASSUME NEW d \in data'
      PROVE  /\ IsNamed(d.frame.no, d.frame.crc, typed, budget.texts)
             /\ d.frame.controle = CTRL_ACK => past'.delivered[d.frame.no] > 0
  <2>1. d \in data \/ d \in r.out.data
    BY DEF Becomes
  <2>2. CASE d \in data
    BY <1>4, <1>5, <2>2 DEF MessagesInv, IsNamed
  <2>3. QED
    BY <2>1, <2>2
<1>7. \A c \in past'.acked : c[1] \in Numbers /\ c[1] = c[2] /\ past'.delivered[c[1]] > 0
  BY DEF MessagesInv
<1>8. QED
  BY <1>3, <1>6, <1>7 DEF MessagesInv

\* Machine n becomes r without a message being typed, delivered or concluded
\* by ACK: r sends the head of its queue, or nothing.
LEMMA QuietMessages ==
  ASSUME RingInv, MessagesInv, NEW n \in Machines, NEW r, DOMAIN r = NodeFields,
         NEW eaten, NEW read, Becomes(n, r, eaten, read),
         \/ r.queue = node[n].queue
         \/ node[n].queue # <<>> /\ r.queue = Tail(node[n].queue),
         r.out.data = {} \/ (node[n].queue # <<>> /\ Launches(node[n], r)),
         budget'.texts = budget.texts, past'.typed = past.typed,
         past'.delivered = past.delivered, past'.acked = past.acked
  PROVE  MessagesInv'
<1> DEFINE q == node[n].queue
           t == past.typed
<1>1. q \in Seq(Item) /\ t \in Nat /\ AllNamed(q, t, budget.texts)
      /\ t <= Len(budget.texts)
  BY NodeFacts DEF RingInv, InRing, Past_ok, MessagesInv
<1>2. q # <<>> => /\ AllNamed(Tail(q), t, budget.texts)
                  /\ IsNamed(Head(q).no, Head(q).text, t, budget.texts)
  BY <1>1, NamedQueues
<1>3. AllNamed(r.queue, t, budget.texts)
  BY <1>1, <1>2
<1>4. ASSUME NEW d \in r.out.data
      PROVE  /\ IsNamed(d.frame.no, d.frame.crc, t, budget.texts)
             /\ d.frame.controle # CTRL_ACK
  <2>1. q # <<>> /\ Launches(node[n], r)
    BY <1>4
  <2>2. /\ d.frame.controle = CTRL_NONE
        /\ d.frame.crc = Head(q).text /\ d.frame.no = Head(q).no
    BY <2>1 DEF Launches
  <2>3. QED
    BY <1>2, <2>1, <2>2 DEF CTRL_NONE, CTRL_ACK
<1>5. \A k \in Machines : AllNamed(node[k].queue, t, budget.texts)
  BY DEF MessagesInv
<1>6. past.typed <= t /\ past'.typed = t
  BY <1>1
<1> HIDE DEF q, t
<1>7. QED
  BY <1>1, <1>3, <1>4, <1>5, <1>6, MessagesStep

\* _on_rx_token keeps messages what they are.
LEMMA RxTokenMessages ==
  ASSUME RingInv, MessagesInv, NEW n \in Machines, RxToken(n)
  PROVE  MessagesInv'
<1>1. PICK soon \in BOOLEAN, hit \in BOOLEAN :
        /\ Becomes(n, OnRxToken(node[n], soon, hit), 1, {})
        /\ past' = [past EXCEPT !.taken = @ + Taken(n, TRUE)]
        /\ budget' = budget
  BY DEF RxToken
<1> DEFINE s == node[n]
           r == OnRxToken(s, soon, hit)
<1>2. InRing(s) /\ MachineInv(s) /\ s.epoch <= MaxEpoch
  BY NodeFacts DEF RingInv, Machines_ok
<1>3. MachineInv(r)
  BY <1>2, OnRxTokenKeeps DEF Keeps
<1>4. /\ r.apelido = s.apelido /\ r.members = s.members /\ SameMonitor(s, r)
      /\ r.queue = s.queue
      /\ s.remove_token_pending => Idles(s, r)
      /\ ~s.remove_token_pending /\ s.has_token =>
           /\ SameWait(s, r) /\ r.has_token = s.has_token
           /\ \/ Silent(r) /\ r.tokens_duplicados = s.tokens_duplicados + 1
              \/ Passes(s, r) /\ r.tokens_duplicados = s.tokens_duplicados
      /\ ~s.remove_token_pending /\ ~s.has_token =>
           \/ /\ soon /\ SameWait(s, r) /\ r.has_token = s.has_token
              /\ Silent(r) /\ r.tokens_duplicados = s.tokens_duplicados + 1
           \/ /\ SameWait(s, r) /\ r.has_token = TRUE
              /\ Silent(r) /\ r.tokens_duplicados = s.tokens_duplicados
           \/ /\ s.queue # <<>> /\ Launches(s, r) /\ r.has_token = TRUE
              /\ r.tokens_duplicados = s.tokens_duplicados
  BY <1>2, OnRxTokenActs
<1>5. Becomes(n, r, 1, {})
  BY <1>1
<1>6. /\ past'.typed = past.typed /\ past'.delivered = past.delivered
      /\ past'.acked = past.acked /\ budget'.texts = budget.texts
  BY <1>1 DEF RingInv, Past_ok
<1>7. DOMAIN r = NodeFields
  BY <1>3, FieldsOf DEF MachineInv
<1> HIDE DEF s, r
<1>8. r.out.data = {} \/ (s.queue # <<>> /\ Launches(s, r))
  BY <1>4 DEF Idles, Silent, Passes
<1>9. QED
  BY <1>4, <1>5, <1>6, <1>7, <1>8, QuietMessages DEF s

\* _on_timer_forward_token keeps messages what they are.
LEMMA TimerForwardTokenMessages ==
  ASSUME RingInv, MessagesInv, NEW n \in Machines, TimerForwardToken(n)
  PROVE  MessagesInv'
<1>1. PICK ep \in 0 .. MaxEpoch, hit \in BOOLEAN :
        /\ node[n].forward_timers[ep] > 0
        /\ Becomes(n, OnTimerForwardToken(node[n], ep, hit), 0, {})
        /\ budget' = budget /\ past' = past
  BY DEF TimerForwardToken
<1> DEFINE s == node[n]
           r == OnTimerForwardToken(s, ep, hit)
<1>2. InRing(s) /\ MachineInv(s)
  BY NodeFacts DEF RingInv
<1>3. MachineInv(r)
  BY <1>1, <1>2, OnTimerForwardTokenKeeps DEF Keeps
<1>4. /\ r.apelido = s.apelido /\ r.members = s.members /\ SameMonitor(s, r)
      /\ r.queue = s.queue /\ r.tokens_duplicados = s.tokens_duplicados
      /\ \/ Idles(s, r)
         \/ /\ s.has_token /\ ~s.waiting
            /\ r.has_token = FALSE /\ SameWait(s, r) /\ Passes(s, r)
         \/ /\ s.has_token /\ ~s.waiting /\ s.queue # <<>>
            /\ r.has_token = TRUE /\ Launches(s, r)
  BY <1>2, OnTimerForwardTokenActs
<1>5. Becomes(n, r, 0, {})
  BY <1>1
<1>6. DOMAIN r = NodeFields
  BY <1>3, FieldsOf DEF MachineInv
<1> HIDE DEF s, r
<1>7. r.out.data = {} \/ (s.queue # <<>> /\ Launches(s, r))
  BY <1>4 DEF Idles, Silent, Passes
<1>8. /\ past'.typed = past.typed /\ past'.delivered = past.delivered
      /\ past'.acked = past.acked /\ budget'.texts = budget.texts
  BY <1>1
<1>9. QED
  BY <1>4, <1>5, <1>6, <1>7, <1>8, QuietMessages DEF s

\* _on_timer_data_return_timeout keeps messages what they are.
LEMMA TimerDataReturnTimeoutMessages ==
  ASSUME RingInv, MessagesInv, NEW n \in Machines, TimerDataReturnTimeout(n)
  PROVE  MessagesInv'
<1> DEFINE s == node[n]
<1>1. PICK attempt \in s.return_timers :
        LET ends == attempt = s.active_data_attempt /\ s.waiting
        IN /\ Becomes(n, OnTimerDataReturnTimeout(s, attempt), 0, {})
           /\ past' = [past EXCEPT !.taken = @ + Taken(n, ends)]
           /\ budget' = budget
  BY DEF TimerDataReturnTimeout
<1> DEFINE r == OnTimerDataReturnTimeout(s, attempt)
<1>2. /\ InRing(s) /\ MachineInv(s)
      /\ s.waiting => s.has_token /\ s.queue # <<>>
  BY NodeFacts DEF RingInv
<1>3. attempt \in Nat
  BY <1>2 DEF MachineInv, NodeStates
<1>4. MachineInv(r)
  BY <1>2, <1>3, OnTimerDataReturnTimeoutKeeps DEF Keeps
<1>5. IF attempt = s.active_data_attempt /\ s.waiting
      THEN Releases(s, r) /\ r.queue = Tail(s.queue)
      ELSE Idles(s, r) /\ SameMonitor(s, r)
  BY <1>2, OnTimerDataReturnTimeoutActs
<1>6. Becomes(n, r, 0, {})
  BY <1>1
<1>7. /\ past'.typed = past.typed /\ past'.delivered = past.delivered
      /\ past'.acked = past.acked /\ budget'.texts = budget.texts
  BY <1>1 DEF RingInv, Past_ok
<1>8. DOMAIN r = NodeFields
  BY <1>4, FieldsOf DEF MachineInv
<1> HIDE DEF s, r
<1>9. /\ r.out.data = {}
      /\ r.queue = s.queue \/ (s.queue # <<>> /\ r.queue = Tail(s.queue))
  BY <1>2, <1>5 DEF Idles, Silent, Passes, Releases
<1>10. QED
  BY <1>6, <1>7, <1>8, <1>9, QuietMessages DEF s

\* The monitor and its event keep messages what they are.
LEMMA MonitorMessages ==
  ASSUME RingInv, MessagesInv, NEW n \in Machines, MonitorThread(n) \/ MonTokenTimeout(n)
  PROVE  MessagesInv'
<1> DEFINE s == node[n]
<1>1. InRing(s) /\ MachineInv(s) /\ s.is_controller \in BOOLEAN
  BY NodeFacts DEF RingInv, MachineInv, NodeStates
<1>2. CASE MonitorThread(n)
  <2> DEFINE r == MonitorFires(s)
  <2>1. Becomes(n, r, 0, {}) /\ budget' = budget /\ past' = past
    BY <1>2 DEF MonitorThread
  <2>2. Idles(s, r)
    BY <1>1, MonitorFiresActs
  <2>3. DOMAIN r = NodeFields
    BY <1>1 DEF InRing, MonitorFires
  <2> HIDE DEF s, r
  <2>4. r.out.data = {} /\ r.queue = s.queue
    BY <2>2 DEF Idles, Silent
  <2>5. /\ past'.typed = past.typed /\ past'.delivered = past.delivered
        /\ past'.acked = past.acked /\ budget'.texts = budget.texts
    BY <2>1
  <2>6. QED
    BY <2>1, <2>3, <2>4, <2>5, QuietMessages DEF s
<1>3. CASE MonTokenTimeout(n)
  <2> DEFINE r == OnMonTokenTimeout(s)
  <2>1. /\ Becomes(n, r, 0, {}) /\ budget' = budget
        /\ past' = [past EXCEPT !.added = @ + r.tokens_perdidos - s.tokens_perdidos]
    BY <1>3 DEF MonTokenTimeout
  <2>2. MachineInv(r)
    BY <1>1, OnMonTokenTimeoutKeeps DEF Keeps
  <2>3. DOMAIN r = NodeFields
    BY <2>2, FieldsOf DEF MachineInv
  <2>4. /\ r.mon_posted = FALSE
        /\ IF s.is_controller /\ ~s.has_token /\ ~s.waiting
           THEN /\ r.apelido = s.apelido /\ r.members = s.members /\ SameWait(s, r)
                /\ r.queue = s.queue /\ r.tokens_duplicados = s.tokens_duplicados
                /\ r.tokens_perdidos = s.tokens_perdidos + 1
                /\ r.has_token = FALSE /\ Passes(s, r)
           ELSE Idles(s, r)
    BY <1>1, OnMonTokenTimeoutActs
  <2> HIDE DEF s, r
  <2>5. r.out.data = {} /\ r.queue = s.queue
    BY <2>4 DEF Idles, Silent, Passes
  <2>6. /\ past'.typed = past.typed /\ past'.delivered = past.delivered
        /\ past'.acked = past.acked /\ budget'.texts = budget.texts
    BY <2>1 DEF RingInv, Past_ok
  <2>7. QED
    BY <2>1, <2>3, <2>5, <2>6, QuietMessages DEF s
<1>4. QED
  BY <1>2, <1>3

\* With texts that differ, DATA that ends a round is that of the head of the
\* queue, because its text is.
LEMMA TextsTell ==
  ASSUME DistinctTexts, RingInv, MessagesInv
  PROVE  RoundsOwnData
<1> SUFFICES ASSUME NEW d \in data, d.frame.origem = d.to, EndsRound(node[d.to], d.frame)
             PROVE  Head(node[d.to].queue).no = d.frame.no
  BY DEF RoundsOwnData
<1> DEFINE n == d.to
           f == d.frame
           s == node[n]
           t == past.typed
<1>1. n \in Machines
  BY DEF RingInv, Network_ok, InOrder
<1>2. /\ InRing(s) /\ MachineInv(s)
      /\ s.waiting => s.has_token /\ s.queue # <<>>
  BY <1>1, NodeFacts DEF RingInv
<1>3. s.waiting /\ FingerprintOf(f).crc = s.active_data_fingerprint.crc
  BY DEF EndsRound
<1>4. f.crc = Head(s.queue).text /\ s.queue # <<>>
  BY <1>2, <1>3 DEF MachineInv, RoundInv, FingerprintOf
<1>5. t \in Nat /\ t <= Len(budget.texts)
  BY DEF RingInv, Past_ok, MessagesInv
<1>6. s.queue \in Seq(Item) /\ AllNamed(s.queue, t, budget.texts)
  BY <1>1, <1>2 DEF InRing, MessagesInv
<1>7. IsNamed(Head(s.queue).no, Head(s.queue).text, t, budget.texts)
  BY <1>4, <1>5, <1>6, NamedQueues
<1>8. IsNamed(f.no, f.crc, t, budget.texts)
  BY DEF MessagesInv
<1>9. /\ Head(s.queue).no \in 1 .. past.typed
      /\ f.no \in 1 .. past.typed
      /\ budget.texts[Head(s.queue).no] = budget.texts[f.no]
  BY <1>4, <1>7, <1>8 DEF IsNamed
<1>10. Head(s.queue).no \in DOMAIN budget.texts /\ f.no \in DOMAIN budget.texts
  BY <1>5, <1>9, NamedNumber DEF RingInv
<1>11. PICK sc \in Scenarios : budget.texts = sc.texts
  BY DEF RingInv, Budget_ok
<1>12. QED
  BY <1>9, <1>10, <1>11 DEF DistinctTexts

\* _on_rx_data keeps messages what they are where DATA that ends a round is
\* the one sent for the head of the queue.
LEMMA ReadsMessages ==
  ASSUME RoundsOwnData, RingInv, MessagesInv, NEW d \in data, NEW read,
         Reads(d.to, d.frame, read), budget'.texts = budget.texts
  PROVE  MessagesInv'
<1> DEFINE n == d.to
           f == d.frame
           s == node[n]
           r == OnRxData(s, f)
           t == past.typed
           arrives == f.destino = n /\ f.origem # n /\ CrcMatches(f.message, f.crc)
           ends == f.origem = n /\ EndsRound(s, f)
           acks == ends /\ f.destino # BROADCAST /\ f.controle = CTRL_ACK
           D == IF arrives THEN [past.delivered EXCEPT ![f.no] = @ + 1] ELSE past.delivered
           A == IF acks THEN past.acked \cup {<<Head(s.queue).no, f.no>>} ELSE past.acked
<1>1. InOrder(d) /\ n \in Machines /\ f \in Frame
  BY DEF RingInv, Network_ok, InOrder
<1>2. /\ InRing(s) /\ MachineInv(s) /\ s.apelido = n
      /\ s.waiting => s.has_token /\ s.queue # <<>>
  BY <1>1, NodeFacts DEF RingInv
<1>3. DOMAIN r = NodeFields
  BY <1>1, <1>2, OnRxDataKeeps, FieldsOf DEF Keeps, MachineInv
<1>4. Becomes(n, r, 0, read)
  BY DEF Reads
<1>5. /\ past'.delivered = D /\ past'.acked = A /\ past'.typed = past.typed
  <2> DEFINE K == past.taken + Taken(n, ends)
  <2>1. past' = [past EXCEPT !.delivered = D, !.acked = A, !.taken = K]
    BY DEF Reads
  <2> HIDE DEF D, A, K
  <2>2. QED
    BY <2>1 DEF RingInv, Past_ok
<1>6. LET g == IF f.destino = s.apelido THEN Answer(f) ELSE f IN
      /\ f.origem # s.apelido =>
           /\ r.apelido = s.apelido /\ r.members = s.members
           /\ SameMonitor(s, r) /\ SameWait(s, r)
           /\ r.has_token = s.has_token /\ r.tokens_duplicados = s.tokens_duplicados
           /\ r.queue = s.queue
           /\ r.out.token = {} /\ r.out.data = {[to |-> To(s), frame |-> g]}
      /\ f.origem = s.apelido /\ ~EndsRound(s, f) => Idles(s, r) /\ SameMonitor(s, r)
      /\ f.origem = s.apelido /\ EndsRound(s, f) =>
           Releases(s, r) /\ r.queue = Concluded(s.queue, f)
  BY <1>1, <1>2, BackUnanswered, OnRxDataActs
<1>7. t \in Nat /\ t <= Len(budget.texts) /\ past.delivered \in [Numbers -> Nat]
  BY DEF RingInv, Past_ok, MessagesInv
<1>8. /\ IsNamed(f.no, f.crc, t, budget.texts)
      /\ f.controle = CTRL_ACK => past.delivered[f.no] > 0
      /\ f.no \in Numbers /\ f.no \in DOMAIN budget.texts
  <2>1. /\ IsNamed(f.no, f.crc, t, budget.texts)
        /\ f.controle = CTRL_ACK => past.delivered[f.no] > 0
    BY DEF MessagesInv
  <2>2. f.no \in 1 .. past.typed
    BY <2>1 DEF IsNamed
  <2>3. QED
    BY <1>7, <2>1, <2>2, NamedNumber DEF RingInv
<1>9. s.queue \in Seq(Item) /\ AllNamed(s.queue, t, budget.texts)
  BY <1>1, <1>2 DEF InRing, MessagesInv
<1>10. s.queue # <<>> => /\ AllNamed(Tail(s.queue), t, budget.texts)
                         /\ AllNamed(Marked(s.queue), t, budget.texts)
                         /\ IsNamed(Head(s.queue).no, Head(s.queue).text, t, budget.texts)
  BY <1>7, <1>9, NamedQueues
<1>11. /\ \A k \in Numbers : past.delivered[k] > 0 => D[k] > 0
       /\ arrives => D[f.no] > 0
  BY <1>7, <1>8
<1>12. ends => s.waiting /\ s.queue # <<>> /\ f.crc = Head(s.queue).text
  <2>1. ends => s.waiting /\ FingerprintOf(f).crc = s.active_data_fingerprint.crc
    BY DEF EndsRound
  <2>2. ends => f.crc = Head(s.queue).text
    BY <1>2, <2>1 DEF MachineInv, RoundInv, FingerprintOf
  <2>3. QED
    BY <1>2, <2>1, <2>2
<1>13. acks => Head(s.queue).no = f.no
  BY DEF RoundsOwnData
<1>14. \A c \in A : c \in past.acked \/ (c[1] \in Numbers /\ c[1] = c[2] /\ D[c[1]] > 0)
  <2>1. CASE acks
    <3>1. D[f.no] > 0 /\ Head(s.queue).no = f.no
      BY <1>8, <1>11, <1>13, <2>1
    <3> HIDE DEF D
    <3>2. \A c \in A : c \in past.acked \/ c = <<f.no, f.no>>
      BY <2>1, <3>1
    <3>3. QED
      BY <1>8, <3>1, <3>2
  <2>2. CASE ~acks
    BY <2>2
  <2>3. QED
    BY <2>1, <2>2
<1>15. AllNamed(r.queue, t, budget.texts)
  <2>1. CASE ends
    <3>1. r.queue = Concluded(s.queue, f)
      BY <1>2, <1>6, <2>1
    <3>2. QED
      BY <1>10, <1>12, <2>1, <3>1 DEF Concluded
  <2>2. CASE ~ends
    BY <1>2, <1>6, <1>9, <2>2 DEF Idles
  <2>3. QED
    BY <2>1, <2>2
<1>16. \A e \in r.out.data :
         /\ IsNamed(e.frame.no, e.frame.crc, t, budget.texts)
         /\ e.frame.controle = CTRL_ACK => D[e.frame.no] > 0
  <2>1. CASE f.origem = n
    BY <1>2, <1>6, <2>1 DEF Idles, Silent, Releases, Passes
  <2>2. CASE f.origem # n
    <3> DEFINE g == IF f.destino = n THEN Answer(f) ELSE f
    <3>1. r.out.data = {[to |-> To(s), frame |-> g]}
      BY <1>2, <1>6, <2>2
    <3>2. /\ g.no = f.no /\ g.crc = f.crc
          /\ f.destino # n => g.controle = f.controle
          /\ f.destino = n /\ g.controle = CTRL_ACK => CrcMatches(f.message, f.crc)
      BY <1>1 DEF Answer, Frame, CTRL_ACK, CTRL_NAK
    <3> HIDE DEF g
    <3>3. g.controle = CTRL_ACK => D[g.no] > 0
      <4>1. ASSUME g.controle = CTRL_ACK
            PROVE  D[f.no] > 0
        <5>1. CASE f.destino = n
          BY <1>11, <2>2, <3>2, <4>1, <5>1
        <5>2. CASE f.destino # n
          <6>1. past.delivered[f.no] > 0
            BY <1>8, <3>2, <4>1, <5>2
          <6>2. QED
            BY <1>8, <1>11, <6>1
        <5>3. QED
          BY <5>1, <5>2
      <4>2. QED
        BY <3>2, <4>1
    <3>4. QED
      BY <1>8, <3>1, <3>2, <3>3
  <2>3. QED
    BY <2>1, <2>2
<1>17. \A k \in Machines : AllNamed(node[k].queue, t, budget.texts)
  BY DEF MessagesInv
<1>18. past.typed <= t /\ past'.typed = t
  BY <1>5, <1>7
<1> HIDE DEF n, f, s, r, t, D, A, arrives, ends, acks
<1>19. QED
  BY <1>1, <1>3, <1>4, <1>5, <1>7, <1>11, <1>14, <1>15, <1>16, <1>17, <1>18, MessagesStep

\* _on_cmd_send names a new message.
LEMMA CmdSendMessages ==
  ASSUME RingInv, MessagesInv, NEW n \in Machines, CmdSend(n)
  PROVE  MessagesInv'
<1> DEFINE s == node[n]
           no == past.typed + 1
           text == budget.texts[no]
<1>1. PICK destino \in budget.destinos : Becomes(n, OnCmdSend(s, destino, text, no), 0, {})
  BY DEF CmdSend
<1>2. /\ past.typed < Len(budget.texts) /\ budget' = budget
      /\ past' = [past EXCEPT !.typed = no]
  BY DEF CmdSend
<1>3. /\ no \in Nat /\ text \in Text /\ destino \in Destino
      /\ past.typed \in Nat /\ no <= Len(budget.texts)
  <2>1. past.typed \in Nat /\ budget.texts \in Seq(Text) /\ budget.destinos \subseteq Destino
    BY DEF RingInv, Past_ok, Budget_ok
  <2>2. no \in 1 .. Len(budget.texts)
    BY <1>2, <2>1
  <2>3. QED
    BY <2>1, <2>2
<1> DEFINE r == OnCmdSend(s, destino, text, no)
           item == [destino |-> destino, text |-> text, no |-> no,
                    skip_fault_injection |-> FALSE, retransmit_used |-> FALSE]
<1>4. InRing(s) /\ MachineInv(s)
  BY NodeFacts DEF RingInv
<1>5. DOMAIN r = NodeFields
  BY <1>3, <1>4, OnCmdSendKeeps, FieldsOf DEF Keeps, MachineInv
<1> HIDE DEF s, text
<1>6. /\ r.apelido = s.apelido /\ r.members = s.members
      /\ SameMonitor(s, r) /\ SameWait(s, r)
      /\ r.has_token = s.has_token /\ r.tokens_duplicados = s.tokens_duplicados
      /\ Silent(r)
      /\ r.queue = IF Len(s.queue) >= QueueMax THEN s.queue ELSE Append(s.queue, item)
  BY <1>4, OnCmdSendActs
<1> HIDE DEF r
<1>7. item \in Item /\ item.no = no /\ item.text = text
  BY <1>3 DEF Item
<1>8. IsNamed(item.no, item.text, no, budget.texts)
  BY <1>3, <1>7 DEF IsNamed, text
<1> HIDE DEF item
<1>9. \A k \in Machines : AllNamed(node[k].queue, no, budget.texts)
  <2>1. ASSUME NEW k \in Machines
        PROVE  AllNamed(node[k].queue, no, budget.texts)
    <3>1. node[k].queue \in Seq(Item) /\ AllNamed(node[k].queue, past.typed, budget.texts)
      BY NodeFacts DEF RingInv, InRing, MessagesInv
    <3>2. QED
      BY <1>3, <3>1, NamedQueues
  <2>2. QED
    BY <2>1
<1>10. AllNamed(r.queue, no, budget.texts)
  <2>1. s.queue \in Seq(Item) /\ AllNamed(s.queue, past.typed, budget.texts)
    BY <1>4 DEF InRing, MessagesInv, s
  <2>2. AllNamed(Append(s.queue, item), no, budget.texts)
    BY <1>3, <1>7, <1>8, <2>1, NamedQueues
  <2>3. AllNamed(s.queue, no, budget.texts)
    BY <1>9 DEF s
  <2>4. QED
    BY <1>6, <2>2, <2>3
<1>11. Becomes(n, r, 0, {})
  BY <1>1 DEF r
<1>12. past.typed <= no
  BY <1>3
<1> HIDE DEF no
<1>13. /\ past'.typed = no /\ past'.delivered = past.delivered
       /\ past'.acked = past.acked /\ budget'.texts = budget.texts
  BY <1>2 DEF RingInv, Past_ok
<1>14. r.out.data = {}
  BY <1>6 DEF Silent
<1>15. QED
  BY <1>3, <1>5, <1>9, <1>10, <1>11, <1>12, <1>13, <1>14, MessagesStep DEF MessagesInv

\* Tokens added and removed by users leave messages what they are.
LEMMA CmdTokenMessages ==
  ASSUME RingInv, MessagesInv, NEW n \in Machines, CmdAddToken(n) \/ CmdRemoveToken(n)
  PROVE  MessagesInv'
<1> DEFINE s == node[n]
<1>1. InRing(s) /\ MachineInv(s)
  BY NodeFacts DEF RingInv
<1>2. budget'.texts = budget.texts
  BY DEF CmdAddToken, CmdRemoveToken, Fault, RingInv, Budget_ok
<1>3. CASE CmdAddToken(n)
  <2> DEFINE r == OnCmdAddToken(s)
  <2>1. Becomes(n, r, 0, {}) /\ past' = [past EXCEPT !.added = @ + 1]
    BY <1>3 DEF CmdAddToken
  <2>2. DOMAIN r = NodeFields
    BY <1>1, OnCmdAddTokenKeeps, FieldsOf DEF Keeps, MachineInv
  <2>3. /\ r.apelido = s.apelido /\ r.members = s.members
        /\ SameMonitor(s, r) /\ SameWait(s, r)
        /\ r.has_token = s.has_token /\ r.tokens_duplicados = s.tokens_duplicados
        /\ r.queue = s.queue /\ Passes(s, r)
    BY <1>1, OnCmdAddTokenActs
  <2> HIDE DEF s, r
  <2>4. /\ past'.typed = past.typed /\ past'.delivered = past.delivered
        /\ past'.acked = past.acked
    BY <2>1 DEF RingInv, Past_ok
  <2>5. QED
    BY <1>2, <2>1, <2>2, <2>3, <2>4, QuietMessages DEF s, Passes
<1>4. CASE CmdRemoveToken(n)
  <2> DEFINE r == OnCmdRemoveToken(s)
             K == past.taken + IF s.has_token /\ ~s.waiting THEN 1 ELSE 0
  <2>1. Becomes(n, r, 0, {}) /\ past' = [past EXCEPT !.taken = K]
    BY <1>4 DEF CmdRemoveToken
  <2>2. DOMAIN r = NodeFields
    BY <1>1, OnCmdRemoveTokenKeeps, FieldsOf DEF Keeps, MachineInv
  <2>3. /\ SameMonitor(s, r)
        /\ IF s.has_token /\ ~s.waiting
           THEN /\ r.apelido = s.apelido /\ r.members = s.members
                /\ r.waiting = s.waiting /\ r.has_token = FALSE
                /\ r.queue = s.queue /\ r.tokens_duplicados = s.tokens_duplicados
                /\ Silent(r)
           ELSE Idles(s, r)
    BY <1>1, OnCmdRemoveTokenActs
  <2> HIDE DEF s, r, K
  <2>4. r.queue = s.queue /\ r.out.data = {}
    BY <2>3 DEF Idles, Silent
  <2>5. /\ past'.typed = past.typed /\ past'.delivered = past.delivered
        /\ past'.acked = past.acked
    BY <2>1 DEF RingInv, Past_ok
  <2>6. QED
    BY <1>2, <2>1, <2>2, <2>4, <2>5, QuietMessages DEF s
<1>5. QED
  BY <1>3, <1>4

\* Faults of the network leave messages what they are, but for a DATA read twice.
LEMMA NetworkMessages ==
  ASSUME RingInv, MessagesInv,
         LoseData \/ UNCHANGED vars \/ \E n \in Machines : LoseToken(n) \/ DuplicateToken(n)
  PROVE  MessagesInv'
<1> DEFINE Still == /\ node' = node /\ data' \subseteq data /\ budget'.texts = budget.texts
                     /\ past'.typed = past.typed /\ past'.delivered = past.delivered
                     /\ past'.acked = past.acked
<1>1. Still
  <2>1. CASE LoseData
    BY <2>1 DEF LoseData, Fault, RingInv, Budget_ok
  <2>2. CASE UNCHANGED vars
    BY <2>2 DEF vars
  <2>3. ASSUME NEW n \in Machines, LoseToken(n)
        PROVE  Still
    BY <2>3 DEF LoseToken, Fault, RingInv, Budget_ok, Past_ok
  <2>4. ASSUME NEW n \in Machines, DuplicateToken(n)
        PROVE  Still
    BY <2>4 DEF DuplicateToken, Fault, RingInv, Budget_ok, Past_ok
  <2>5. QED
    BY <2>1, <2>2, <2>3, <2>4
<1>2. QED
  BY <1>1 DEF MessagesInv

\* Every step keeps messages what they are.
LEMMA MessagesInvStep ==
  ASSUME RoundsOwnData, RingInv, MessagesInv, [Next]_vars
  PROVE  MessagesInv'
<1>1. ASSUME NEW n \in Machines, System(n)
      PROVE  MessagesInv'
  <2>1. CASE RxData(n)
    <3>1. PICK d \in data : d.to = n /\ Reads(n, d.frame, {d}) /\ budget' = budget
      BY <2>1 DEF RxData
    <3>2. QED
      BY <3>1, ReadsMessages
  <2>2. QED
    BY <1>1, <2>1, RxTokenMessages, TimerForwardTokenMessages, TimerDataReturnTimeoutMessages,
       MonitorMessages DEF System
<1>2. ASSUME NEW n \in Machines, DuplicateData(n)
      PROVE  MessagesInv'
  <2>1. PICK d \in data : d.to = n /\ Reads(n, d.frame, {}) /\ Fault("duplicate")
    BY <1>2 DEF DuplicateData
  <2>2. budget'.texts = budget.texts
    BY <2>1 DEF Fault, RingInv, Budget_ok
  <2>3. QED
    BY <2>1, <2>2, ReadsMessages
<1>3. ASSUME NEW n \in Machines, Users(n)
      PROVE  MessagesInv'
  BY <1>3, CmdSendMessages, CmdTokenMessages DEF Users
<1>4. QED
  BY <1>1, <1>2, <1>3, NetworkMessages DEF Next, Network

\* Nothing has been typed in the initial states.
LEMMA InitMessages ==
  ASSUME Init
  PROVE  MessagesInv
<1>1. \A n \in Machines : node[n].queue = <<>>
  BY InitFacts
<1>2. past.typed = 0 /\ data = {} /\ past.acked = {}
  BY DEF Init
<1>3. 0 <= Len(budget.texts)
  BY InitRingInv DEF RingInv, Budget_ok
<1>4. QED
  BY <1>1, <1>2, <1>3 DEF MessagesInv, AllNamed

\* Messages keep their numbers and their texts, from typing to conclusion.
THEOREM MessagesInvariant ==
  ASSUME DistinctTexts
  PROVE  Spec => []MessagesInv
<1>1. Init => MessagesInv
  BY InitMessages
<1>2. RingInv /\ MessagesInv /\ [Next]_vars => MessagesInv'
  BY MessagesInvStep, TextsTell
<1>3. QED
  BY <1>1, <1>2, RingInvariant, PTL DEF Spec

\* "mensagem entregue com sucesso (ACK)" is true: a message concluded with
\* ACK has arrived intact at its destination, whatever the network loses,
\* duplicates and reorders, as long as no two messages have the same text.
THEOREM AcksAreTrue ==
  ASSUME DistinctTexts
  PROVE  Spec => []AckMeansDelivered
<1>1. MessagesInv => AckMeansDelivered
  BY DEF MessagesInv, AckMeansDelivered
<1>2. QED
  BY <1>1, MessagesInvariant, PTL

\* No message is concluded by the DATA of another one, unless two messages
\* have the same text: then the fingerprint of one is that of the other.
THEOREM NothingMixedUp ==
  ASSUME DistinctTexts
  PROVE  Spec => []NoMixUp
<1>1. MessagesInv => NoMixUp
  BY DEF MessagesInv, NoMixUp
<1>2. QED
  BY <1>1, MessagesInvariant, PTL

-----------------------------------------------------------------------------
\* Rings whose configured durations fit, while nobody adds tokens: there is
\* one token at most, so one machine at most has DATA out, and the ring
\* implements RingService.

\* The rings of this module: timeouts are long enough, and neither users nor
\* the network add tokens or DATA.
PatientRing ==
  /\ Patient
  /\ \A sc \in Scenarios : sc.faults \cap {"add", "duplicate"} = {}

\* The controller takes the token for lost only when it is.
PostedInv ==
  \A n \in Machines : node[n].mon_posted => n = Controller /\ Tokens = 0 /\ data = {}

\* The DATA on the ring, if any, is the one its origin waits for.
DataInv ==
  /\ \A d, e \in data : d = e
  /\ \A d \in data :
       LET o == node[d.frame.origem] IN
       /\ o.waiting
       /\ FingerprintOf(d.frame) = o.active_data_fingerprint
       /\ d.frame.no = Head(o.queue).no

\* Messages in queues have been typed, and none is in two places.
QueuesInv ==
  /\ past.typed <= Len(budget.texts)
  /\ \A n \in Machines : \A i \in DOMAIN node[n].queue :
       /\ node[n].queue[i].no \in 1 .. past.typed
       /\ \A m \in Machines : \A j \in DOMAIN node[m].queue :
            node[m].queue[j].no = node[n].queue[i].no => m = n /\ j = i

\* A message is delivered once; it has not been while it is not the one that
\* is out, nor while its DATA has no ACK.
DeliveredInv ==
  /\ \A k \in Numbers : /\ past.delivered[k] <= 1
                        /\ k > past.typed => past.delivered[k] = 0
  /\ \A n \in Machines : \A i \in DOMAIN node[n].queue :
       i > 1 \/ ~node[n].waiting => past.delivered[node[n].queue[i].no] = 0
  /\ \A d \in data : d.frame.controle # CTRL_ACK => past.delivered[d.frame.no] = 0

PatientInv == AtMostOneToken /\ PostedInv /\ DataInv /\ QueuesInv /\ DeliveredInv

-----------------------------------------------------------------------------
\* Where the only token is

\* The token machines hold, or are sent, in all.
Has(nd, tk) == [m \in Machines |-> tk[m] + IF nd[m].has_token THEN 1 ELSE 0]

\* The machine that has the token is the only one that does.
LEMMA OnlyHolder ==
  ASSUME NEW nd, \A m \in Machines : nd[m].has_token \in BOOLEAN,
         NEW tk \in [Machines -> Nat], Total(Has(nd, tk)) <= 1,
         NEW n \in Machines, nd[n].has_token \/ tk[n] > 0
  PROVE  /\ Total(Has(nd, tk)) = 1
         /\ \A m \in Machines : nd[m].has_token \/ tk[m] > 0 => m = n
         /\ nd[n].has_token => tk[n] = 0
         /\ tk[n] <= 1
<1> DEFINE f == Has(nd, tk)
<1>1. f \in [Machines -> Nat]
  BY DEF Has
<1>2. \A m \in Machines : f[m] = tk[m] + IF nd[m].has_token THEN 1 ELSE 0
  BY DEF Has
<1> HIDE DEF f
<1>3. f[n] <= Total(f) /\ \A m \in Machines : m # n => f[n] + f[m] <= Total(f)
  BY <1>1, TotalBounds
<1>4. Total(f) \in Nat
  BY <1>1, TotalOfNaturals
<1>5. Total(f) <= 1 /\ f[n] \in Nat /\ f[n] >= 1
  BY <1>1, <1>2 DEF f
<1>6. f[n] = 1 /\ Total(f) = 1
  BY <1>3, <1>4, <1>5
<1>7. \A m \in Machines : m # n => f[m] = 0
  BY <1>1, <1>3, <1>6
<1>8. \A m \in Machines : nd[m].has_token \/ tk[m] > 0 => m = n
  BY <1>2, <1>7
<1>9. nd[n].has_token => tk[n] = 0
  BY <1>2, <1>6
<1>10. tk[n] <= 1
  BY <1>2, <1>6
<1>11. QED
  BY <1>6, <1>8, <1>9, <1>10 DEF f

\* Without a token no machine has one.
LEMMA NoHolder ==
  ASSUME NEW nd, \A m \in Machines : nd[m].has_token \in BOOLEAN,
         NEW tk \in [Machines -> Nat], Total(Has(nd, tk)) <= 0,
         NEW n \in Machines
  PROVE  ~nd[n].has_token /\ tk[n] = 0
<1>1. Has(nd, tk) \in [Machines -> Nat]
  BY DEF Has
<1>2. Has(nd, tk)[n] <= Total(Has(nd, tk)) /\ Has(nd, tk)[n] \in Nat
  BY <1>1, TotalBounds
<1>3. Total(Has(nd, tk)) \in Nat
  BY <1>1, TotalOfNaturals
<1>4. Has(nd, tk)[n] = 0
  BY <1>2, <1>3
<1>5. QED
  BY <1>4 DEF Has

\* Where the token is now: at machine n, in its hands or on its way to it.
LEMMA HolderNow ==
  ASSUME RingInv, Tokens <= 1, NEW n \in Machines, node[n].has_token \/ token[n] > 0
  PROVE  /\ Tokens = 1 /\ Holder = n /\ Holder # 0
         /\ node[n].has_token => token[n] = 0
         /\ token[n] <= 1
         /\ \A m \in Machines : m # n => ~node[m].has_token /\ token[m] = 0 /\ ~node[m].waiting
         /\ ~node[n].has_token => ~node[n].waiting
<1>1. /\ \A m \in Machines : node[m].has_token \in BOOLEAN
      /\ \A m \in Machines : node[m].waiting => node[m].has_token
      /\ token \in [Machines -> Nat]
  BY DEF RingInv, Machines_ok, Network_ok, MachineInv, RoundInv, NodeStates
<1>2. Tokens = Total(Has(node, token))
  BY DEF Tokens, Has
<1>3. /\ Tokens = 1 /\ token[n] <= 1
      /\ \A m \in Machines : node[m].has_token \/ token[m] > 0 => m = n
      /\ node[n].has_token => token[n] = 0
  BY <1>1, <1>2, OnlyHolder
<1>4. Holder = n
  BY <1>3 DEF Holder
<1>5. n # 0
  BY MachinesAssumption
<1>6. QED
  BY <1>1, <1>3, <1>4, <1>5

\* Where it will be.
LEMMA HolderNext ==
  ASSUME RingInv', Tokens' <= 1, NEW n \in Machines, node'[n].has_token \/ token'[n] > 0
  PROVE  Holder' = n
<1>1. /\ \A m \in Machines : node'[m].has_token \in BOOLEAN
      /\ token' \in [Machines -> Nat]
  BY DEF RingInv, Machines_ok, Network_ok, NodeStates
<1>2. Tokens' = Total(Has(node', token'))
  BY DEF Tokens, Has
<1>3. /\ Tokens' = 1
      /\ \A m \in Machines : node'[m].has_token \/ token'[m] > 0 => m = n
  BY <1>1, <1>2, OnlyHolder
<1>4. QED
  BY <1>3 DEF Holder

\* There is none.
LEMMA NobodyHolds ==
  ASSUME RingInv, Tokens = 0
  PROVE  Holder = 0 /\ \A m \in Machines : ~node[m].has_token /\ token[m] = 0 /\ ~node[m].waiting
<1>1. /\ \A m \in Machines : node[m].has_token \in BOOLEAN
      /\ \A m \in Machines : node[m].waiting => node[m].has_token
      /\ token \in [Machines -> Nat]
  BY DEF RingInv, Machines_ok, Network_ok, MachineInv, RoundInv, NodeStates
<1>2. Total(Has(node, token)) <= 0
  BY DEF Tokens, Has
<1>3. QED
  BY <1>1, <1>2, NoHolder DEF Holder

\* There is one, so somebody has it.
LEMMA SomebodyHolds ==
  ASSUME RingInv, Tokens # 0
  PROVE  \E n \in Machines : node[n].has_token \/ token[n] > 0
<1> SUFFICES ASSUME \A n \in Machines : ~(node[n].has_token \/ token[n] > 0)
             PROVE  FALSE
  OBVIOUS
<1>1. token \in [Machines -> Nat]
  BY DEF RingInv, Network_ok
<1>2. Has(node, token) \in [Machines -> Nat] /\ \A n \in Machines : Has(node, token)[n] = 0
  BY <1>1 DEF Has
<1>3. Total(Has(node, token)) = 0
  BY <1>2, TotalOfNaturals
<1>4. QED
  BY <1>3 DEF Tokens, Has

\* While a machine waits, or DATA is on the ring, there is a token.
LEMMA WaitingMeansToken ==
  ASSUME RingInv, PatientInv
  PROVE  /\ \A n \in Machines : node[n].waiting => node[n].has_token
         /\ \A d \in data : d.frame.origem \in Machines /\ node[d.frame.origem].has_token
         /\ Tokens = 0 => data = {}
<1>1. \A n \in Machines : node[n].waiting => node[n].has_token
  BY DEF RingInv, Machines_ok, MachineInv, RoundInv
<1>2. \A d \in data : d.frame.origem \in Machines /\ node[d.frame.origem].has_token
  BY <1>1 DEF PatientInv, DataInv, RingInv, Network_ok, InOrder
<1>3. Tokens = 0 => data = {}
  BY <1>2, NobodyHolds
<1>4. QED
  BY <1>1, <1>2, <1>3

\* A machine that waits for nothing, and has the token, finds the ring empty.
LEMMA RingIsFree ==
  ASSUME RingInv, PatientInv, NEW n \in Machines, node[n].has_token \/ token[n] > 0,
         ~node[n].waiting
  PROVE  data = {} /\ \A m \in Machines : ~node[m].waiting
<1>1. \A m \in Machines : m # n => ~node[m].waiting
  BY HolderNow DEF PatientInv, AtMostOneToken
<1>2. QED
  BY <1>1 DEF PatientInv, DataInv, RingInv, Network_ok, InOrder

-----------------------------------------------------------------------------
\* Steps of the service

\* Nothing the service speaks of changes.
LEMMA ServiceStutters ==
  ASSUME Holder' = Holder, Waiting' = Waiting, past'.typed = past.typed
  PROVE  [Service!Next]_(Service!vars)
BY DEF Service!vars

\* The successor of the service is that of the code.
LEMMA SameSuccessor ==
  ASSUME NEW n
  PROVE  /\ Service!Next_of(n) = Successor(Machines, n)
         /\ Service!Next_of(Service!ControllerApelido(Machines)) = Successor(Machines, Controller)
BY DEF Service!Next_of, Service!Successor, Successor, Service!After, After,
       Service!ControllerApelido, Controller, ControllerApelido, Service!Min, Min

\* The token goes on.
LEMMA ServicePasses ==
  ASSUME Holder \in Machines, Holder' = Successor(Machines, Holder),
         Waiting' = Waiting, past'.typed = past.typed
  PROVE  [Service!Next]_(Service!vars)
<1>1. Service!Pass
  BY SameSuccessor DEF Service!Pass
<1>2. QED
  BY <1>1 DEF Service!Next

\* The token is lost, or removed.
LEMMA ServiceLoses ==
  ASSUME Holder \in Machines, Holder' = 0, Waiting' = Waiting, past'.typed = past.typed
  PROVE  [Service!Next]_(Service!vars)
<1>1. Service!Lose
  BY DEF Service!Lose
<1>2. QED
  BY <1>1 DEF Service!Next

\* The controller makes a new one.
LEMMA ServiceRegenerates ==
  ASSUME Holder = 0, Holder' = Successor(Machines, Controller),
         Waiting' = Waiting, past'.typed = past.typed
  PROVE  [Service!Next]_(Service!vars)
<1>1. Service!Regenerate
  BY SameSuccessor DEF Service!Regenerate
<1>2. QED
  BY <1>1 DEF Service!Next

\* The holder concludes its first message.
LEMMA ServiceConcludes ==
  ASSUME Holder \in Machines, Waiting[Holder] # <<>>,
         Waiting' = [Waiting EXCEPT ![Holder] = Tail(@)],
         Holder' = Successor(Machines, Holder) \/ Holder' = 0,
         past'.typed = past.typed
  PROVE  [Service!Next]_(Service!vars)
<1>1. Service!Conclude
  BY SameSuccessor DEF Service!Conclude
<1>2. QED
  BY <1>1 DEF Service!Next

\* A user types a message at machine n.
LEMMA ServiceTypes ==
  ASSUME NEW n \in Machines, Holder' = Holder, past'.typed = past.typed + 1,
         Waiting' = IF Len(Waiting[n]) < QueueMax
                      THEN [Waiting EXCEPT ![n] = Append(@, past.typed + 1)]
                      ELSE Waiting
  PROVE  [Service!Next]_(Service!vars)
<1>1. Service!Type(n)
  BY DEF Service!Type
<1>2. QED
  BY <1>1 DEF Service!Next

-----------------------------------------------------------------------------
\* Queues

\* The numbers of the messages in a queue.
Nos(q) == [i \in DOMAIN q |-> q[i].no]

\* Queue p is what is left of q when k messages have been taken from it.
Behind(p, q, k) ==
  /\ p \in Seq(Item) /\ Len(p) = Len(q) - k
  /\ \A i \in 1 .. Len(p) : p[i].no = q[i + k].no

\* What handlers make of queues.
LEMMA BehindFacts ==
  ASSUME NEW q \in Seq(Item)
  PROVE  /\ Behind(q, q, 0)
         /\ q # <<>> => Behind(Tail(q), q, 1) /\ Behind(Marked(q), q, 0)
<1>1. Behind(q, q, 0)
  BY DEF Behind
<1>2. ASSUME q # <<>>
      PROVE  Behind(Tail(q), q, 1) /\ Behind(Marked(q), q, 0)
  <2>1. /\ Tail(q) \in Seq(Item) /\ Len(Tail(q)) = Len(q) - 1
        /\ \A i \in 1 .. Len(Tail(q)) : Tail(q)[i] = q[i + 1]
    BY <1>2, HeadTailProperties
  <2>2. /\ Marked(q) \in Seq(Item) /\ Len(Marked(q)) = Len(q)
        /\ \A i \in 1 .. Len(q) : /\ Marked(q)[i].no = q[i].no
                                  /\ Marked(q)[i].text = q[i].text
    BY <1>2, MarkedItems
  <2>3. Behind(Tail(q), q, 1)
    BY <2>1 DEF Behind
  <2>4. Behind(Marked(q), q, 0)
    BY <2>2 DEF Behind
  <2>5. QED
    BY <2>3, <2>4
<1>3. QED
  BY <1>1, <1>2

\* The numbers of a queue are a sequence as long as the queue.
LEMMA NosIsSeq ==
  ASSUME NEW q \in Seq(Item)
  PROVE  Nos(q) \in Seq(Nat) /\ Len(Nos(q)) = Len(q) /\ \A i \in 1 .. Len(q) : Nos(q)[i] = q[i].no
<1>1. /\ Len(q) \in Nat /\ DOMAIN q = 1 .. Len(q)
      /\ \A i \in 1 .. Len(q) : q[i] \in Item
  BY LenProperties, ElementOfSeq
<1>2. \A i \in 1 .. Len(q) : q[i].no \in Nat
  BY <1>1 DEF Item
<1>3. /\ Nos(q) \in [1 .. Len(q) -> Nat]
      /\ \A i \in 1 .. Len(q) : Nos(q)[i] = q[i].no
  BY <1>1, <1>2 DEF Nos
<1>4. Nos(q) \in Seq(Nat)
  BY <1>1, <1>3, SeqDef
<1>5. Len(Nos(q)) = Len(q)
  <2>1. DOMAIN Nos(q) = 1 .. Len(q) /\ DOMAIN Nos(q) = 1 .. Len(Nos(q)) /\ Len(Nos(q)) \in Nat
    BY <1>3, <1>4, LenProperties
  <2>2. QED
    BY <1>1, <2>1
<1>6. QED
  BY <1>3, <1>4, <1>5

\* The numbers follow the messages.
LEMMA NosFacts ==
  ASSUME NEW q \in Seq(Item)
  PROVE  /\ q # <<>> => /\ Nos(q) # <<>>
                        /\ Nos(Tail(q)) = Tail(Nos(q)) /\ Nos(Marked(q)) = Nos(q)
         /\ \A item \in Item : Nos(Append(q, item)) = Append(Nos(q), item.no)
<1>1. /\ Nos(q) \in Seq(Nat) /\ Len(Nos(q)) = Len(q) /\ Len(q) \in Nat
      /\ \A i \in 1 .. Len(q) : Nos(q)[i] = q[i].no
  BY NosIsSeq, LenProperties
<1>2. ASSUME q # <<>>
      PROVE  /\ Nos(q) # <<>>
             /\ Nos(Tail(q)) = Tail(Nos(q)) /\ Nos(Marked(q)) = Nos(q)
  <2>1. Nos(q) # <<>>
    <3>1. Len(q) # 0
      BY <1>2, EmptySeq
    <3>2. QED
      BY <1>1, <3>1, EmptySeq
  <2>2. /\ Tail(q) \in Seq(Item) /\ Len(Tail(q)) = Len(q) - 1
        /\ \A i \in 1 .. Len(Tail(q)) : Tail(q)[i] = q[i + 1]
    BY <1>2, HeadTailProperties
  <2>3. /\ Tail(Nos(q)) \in Seq(Nat) /\ Len(Tail(Nos(q))) = Len(q) - 1
        /\ \A i \in 1 .. Len(q) - 1 : Tail(Nos(q))[i] = Nos(q)[i + 1]
    BY <1>1, <2>1, HeadTailProperties
  <2>4. Nos(Tail(q)) = Tail(Nos(q))
    <3>1. /\ Nos(Tail(q)) \in Seq(Nat) /\ Len(Nos(Tail(q))) = Len(q) - 1
          /\ \A i \in 1 .. Len(q) - 1 : Nos(Tail(q))[i] = Tail(q)[i].no
      BY <2>2, NosIsSeq
    <3>2. \A i \in 1 .. Len(q) - 1 : i + 1 \in 1 .. Len(q)
      BY <1>1
    <3>3. \A i \in 1 .. Len(q) - 1 : Nos(Tail(q))[i] = Tail(Nos(q))[i]
      BY <1>1, <2>2, <2>3, <3>1, <3>2
    <3>4. QED
      BY <2>3, <3>1, <3>3, SeqEqual
  <2>5. /\ Marked(q) \in Seq(Item) /\ Len(Marked(q)) = Len(q)
        /\ \A i \in 1 .. Len(q) : /\ Marked(q)[i].no = q[i].no
                                  /\ Marked(q)[i].text = q[i].text
    BY <1>2, MarkedItems
  <2>6. Nos(Marked(q)) = Nos(q)
    <3>1. /\ Nos(Marked(q)) \in Seq(Nat) /\ Len(Nos(Marked(q))) = Len(q)
          /\ \A i \in 1 .. Len(q) : Nos(Marked(q))[i] = Marked(q)[i].no
      BY <2>5, NosIsSeq
    <3>2. \A i \in 1 .. Len(q) : Nos(Marked(q))[i] = Nos(q)[i]
      BY <1>1, <2>5, <3>1
    <3>3. QED
      BY <1>1, <3>1, <3>2, SeqEqual
  <2>7. QED
    BY <2>1, <2>4, <2>6
<1>3. ASSUME NEW item \in Item
      PROVE  Nos(Append(q, item)) = Append(Nos(q), item.no)
  <2> DEFINE a == Append(q, item)
             b == Append(Nos(q), item.no)
  <2>1. /\ a \in Seq(Item) /\ Len(a) = Len(q) + 1
        /\ \A i \in 1 .. Len(q) : a[i] = q[i]
        /\ a[Len(q) + 1] = item
    BY AppendProperties
  <2>2. item.no \in Nat
    BY DEF Item
  <2>3. /\ b \in Seq(Nat) /\ Len(b) = Len(q) + 1
        /\ \A i \in 1 .. Len(q) : b[i] = Nos(q)[i]
        /\ b[Len(q) + 1] = item.no
    BY <1>1, <2>2, AppendProperties
  <2> HIDE DEF a, b
  <2>4. /\ Nos(a) \in Seq(Nat) /\ Len(Nos(a)) = Len(q) + 1
        /\ \A i \in 1 .. Len(q) + 1 : Nos(a)[i] = a[i].no
    BY <2>1, NosIsSeq
  <2>5. \A i \in 1 .. Len(q) + 1 : i = Len(q) + 1 \/ i \in 1 .. Len(q)
    BY <1>1
  <2>6. \A i \in 1 .. Len(q) + 1 : Nos(a)[i] = b[i]
    BY <1>1, <2>1, <2>3, <2>4, <2>5
  <2>7. Nos(a) = b
    BY <2>3, <2>4, <2>6, SeqEqual
  <2>8. QED
    BY <2>7 DEF a, b
<1>4. QED
  BY <1>2, <1>3

-----------------------------------------------------------------------------
\* What becomes of the invariant when machine n becomes r

\* The fields of the machines afterwards.
LEMMA BecomesFields ==
  ASSUME RingInv, NEW n \in Machines, NEW r, DOMAIN r = NodeFields,
         NEW eaten, NEW read, Becomes(n, r, eaten, read)
  PROVE  /\ \A m \in Machines : m # n => node'[m] = node[m]
         /\ node'[n].queue = r.queue /\ node'[n].waiting = r.waiting
         /\ node'[n].has_token = r.has_token /\ node'[n].mon_posted = r.mon_posted
         /\ node'[n].active_data_fingerprint = r.active_data_fingerprint
         /\ data' = (data \ read) \cup r.out.data
         /\ Waiting' = [Waiting EXCEPT ![n] = Nos(r.queue)]
         /\ Waiting[n] = Nos(node[n].queue)
<1> DEFINE s == [r EXCEPT !.out = NoOut]
<1>1. node' = [node EXCEPT ![n] = s] /\ DOMAIN node = Machines
  BY DEF Becomes, RingInv, Machines_ok
<1>2. /\ s.queue = r.queue /\ s.waiting = r.waiting
      /\ s.has_token = r.has_token /\ s.mon_posted = r.mon_posted
      /\ s.active_data_fingerprint = r.active_data_fingerprint
  BY DEF NodeFields
<1> HIDE DEF s
<1>3. node'[n] = s /\ \A m \in Machines : m # n => node'[m] = node[m]
  BY <1>1
<1>4. data' = (data \ read) \cup r.out.data
  BY DEF Becomes
<1>5. Waiting' = [Waiting EXCEPT ![n] = Nos(r.queue)] /\ Waiting[n] = Nos(node[n].queue)
  <2>1. Waiting = [m \in Machines |-> Nos(node[m].queue)]
    BY DEF Waiting, Nos
  <2>2. Waiting' = [m \in Machines |-> Nos(node'[m].queue)]
    BY DEF Waiting, Nos
  <2>3. \A m \in Machines : node'[m].queue = IF m = n THEN r.queue ELSE node[m].queue
    BY <1>2, <1>3
  <2>4. QED
    BY <2>1, <2>2, <2>3
<1>6. QED
  BY <1>2, <1>3, <1>4, <1>5

\* No new token, and no new alarm.
LEMMA PostedKept ==
  ASSUME RingInv, RingInv', PatientInv, NEW n \in Machines, NEW r, DOMAIN r = NodeFields,
         NEW eaten, NEW read, Becomes(n, r, eaten, read),
         r.mon_posted = node[n].mon_posted, Tokens' <= Tokens, Tokens = 0 => data' = {}
  PROVE  AtMostOneToken' /\ PostedInv'
<1>1. Tokens \in Nat /\ Tokens' \in Nat
  <2>1. Tokens \in Nat
    BY TokensAreNatural DEF RingInv
  <2>2. Has(node', token') \in [Machines -> Nat]
    BY DEF RingInv, Network_ok, Has
  <2>3. Tokens' = Total(Has(node', token'))
    BY DEF Tokens, Has
  <2>4. QED
    BY <2>1, <2>2, <2>3, TotalOfNaturals
<1>2. Tokens' <= 1 /\ (Tokens = 0 => Tokens' = 0)
  BY <1>1 DEF PatientInv, AtMostOneToken
<1>3. \A m \in Machines : node'[m].mon_posted = node[m].mon_posted
  BY BecomesFields
<1>4. QED
  BY <1>2, <1>3 DEF PatientInv, PostedInv, AtMostOneToken

\* Messages leave queues from their heads.
LEMMA QueuesKept ==
  ASSUME RingInv, PatientInv, NEW n \in Machines, NEW r, DOMAIN r = NodeFields,
         NEW eaten, NEW read, Becomes(n, r, eaten, read),
         NEW k \in {0, 1}, Behind(r.queue, node[n].queue, k),
         past'.typed = past.typed, budget'.texts = budget.texts
  PROVE  QueuesInv'
<1>1. \A m \in Machines : /\ node[m].queue \in Seq(Item) /\ Len(node[m].queue) \in Nat
                          /\ DOMAIN node[m].queue = 1 .. Len(node[m].queue)
  BY NodeFacts, LenProperties DEF RingInv, InRing
<1> DEFINE q == [m \in Machines |-> node[m].queue]
           p == [m \in Machines |-> node'[m].queue]
           h == [m \in Machines |-> IF m = n THEN k ELSE 0]
<1>2. ASSUME NEW m \in Machines, NEW i \in DOMAIN p[m]
      PROVE  /\ i \in Nat /\ i + h[m] \in DOMAIN q[m]
             /\ p[m][i].no = q[m][i + h[m]].no
  <2>1. CASE m # n
    <3>1. p[m] = q[m] /\ h[m] = 0
      BY <2>1, BecomesFields
    <3>2. DOMAIN q[m] = 1 .. Len(q[m]) /\ Len(q[m]) \in Nat
      BY <1>1
    <3> HIDE DEF p, q, h
    <3>3. i \in Nat /\ i + h[m] = i
      BY <1>2, <3>1, <3>2
    <3>4. QED
      BY <1>2, <3>1, <3>3
  <2>2. CASE m = n
    <3>1. p[m] = r.queue /\ h[m] = k /\ q[m] = node[n].queue
      BY <2>2, BecomesFields
    <3>2. DOMAIN q[m] = 1 .. Len(q[m]) /\ Len(q[m]) \in Nat
      BY <1>1
    <3> HIDE DEF p, q, h
    <3>3. Behind(p[m], q[m], k)
      BY <3>1
    <3>4. p[m] \in Seq(Item) /\ Len(p[m]) = Len(q[m]) - k
          /\ \A j \in 1 .. Len(p[m]) : p[m][j].no = q[m][j + k].no
      BY <3>3 DEF Behind
    <3>5. DOMAIN p[m] = 1 .. Len(p[m])
      BY <3>4, LenProperties
    <3>6. i \in 1 .. Len(p[m])
      BY <1>2, <3>5
    <3>7. i \in Nat /\ i + k \in 1 .. Len(q[m])
      BY <3>2, <3>4, <3>6
    <3>8. QED
      BY <3>1, <3>2, <3>4, <3>6, <3>7
  <2>3. QED
    BY <2>1, <2>2
<1>3. \A m \in Machines : h[m] \in {0, 1}
  OBVIOUS
<1>4. /\ past.typed <= Len(budget.texts)
      /\ \A a \in Machines : \A i \in DOMAIN q[a] :
           /\ q[a][i].no \in 1 .. past.typed
           /\ \A b \in Machines : \A j \in DOMAIN q[b] :
                q[b][j].no = q[a][i].no => b = a /\ j = i
  BY DEF PatientInv, QueuesInv
<1>5. \A m \in Machines : node'[m].queue = p[m]
  OBVIOUS
<1> HIDE DEF p, q, h
<1>6. ASSUME NEW a \in Machines, NEW i \in DOMAIN p[a]
      PROVE  /\ p[a][i].no \in 1 .. past.typed
             /\ \A b \in Machines : \A j \in DOMAIN p[b] : p[b][j].no = p[a][i].no => b = a /\ j = i
  <2>1. i \in Nat /\ i + h[a] \in DOMAIN q[a] /\ p[a][i].no = q[a][i + h[a]].no
    BY <1>2
  <2>2. ASSUME NEW b \in Machines, NEW j \in DOMAIN p[b], p[b][j].no = p[a][i].no
        PROVE  b = a /\ j = i
    <3>1. j \in Nat /\ j + h[b] \in DOMAIN q[b] /\ p[b][j].no = q[b][j + h[b]].no
      BY <1>2
    <3>2. q[b][j + h[b]].no = q[a][i + h[a]].no
      BY <2>1, <2>2, <3>1
    <3>3. b = a /\ j + h[b] = i + h[a]
      BY <1>4, <2>1, <3>1, <3>2
    <3>4. QED
      BY <1>3, <2>1, <3>1, <3>3
  <2>3. QED
    BY <1>4, <2>1, <2>2
<1>7. QED
  BY <1>4, <1>5, <1>6 DEF QueuesInv

\* What nobody delivers is not delivered twice.
LEMMA DeliveredKept ==
  ASSUME RingInv, PatientInv, NEW n \in Machines, NEW r, DOMAIN r = NodeFields,
         NEW eaten, NEW read, Becomes(n, r, eaten, read),
         NEW k \in {0, 1}, Behind(r.queue, node[n].queue, k),
         k = 0 /\ node[n].waiting /\ ~r.waiting => past.delivered[Head(node[n].queue).no] = 0,
         \A d \in r.out.data : d.frame.controle # CTRL_ACK => past.delivered[d.frame.no] = 0,
         past'.typed = past.typed, past'.delivered = past.delivered
  PROVE  DeliveredInv'
<1> DEFINE q == node[n].queue
           p == r.queue
<1>1. q \in Seq(Item) /\ Len(q) \in Nat /\ DOMAIN q = 1 .. Len(q)
  BY NodeFacts, LenProperties DEF RingInv, InRing
<1>2. node'[n].queue = p /\ node'[n].waiting = r.waiting
      /\ \A m \in Machines : m # n => node'[m] = node[m]
      /\ data' = (data \ read) \cup r.out.data
  BY BecomesFields
<1>3. ASSUME NEW i \in DOMAIN p, i > 1 \/ ~r.waiting
      PROVE  past.delivered[p[i].no] = 0
  <2>1. /\ i \in 1 .. Len(p) /\ i + k \in DOMAIN q /\ p[i].no = q[i + k].no
    <3> HIDE DEF p, q
    <3>1. Behind(p, q, k)
      BY DEF p, q
    <3>2. p \in Seq(Item) /\ Len(p) = Len(q) - k
          /\ \A j \in 1 .. Len(p) : p[j].no = q[j + k].no
      BY <3>1 DEF Behind
    <3>3. i \in 1 .. Len(p)
      BY <1>3, <3>2, LenProperties
    <3>4. i + k \in 1 .. Len(q)
      BY <1>1, <3>2, <3>3
    <3>5. QED
      BY <1>1, <3>2, <3>3, <3>4
  <2>2. \A j \in DOMAIN q : j > 1 \/ ~node[n].waiting => past.delivered[q[j].no] = 0
    BY DEF PatientInv, DeliveredInv
  <2>3. CASE i + k > 1 \/ ~node[n].waiting
    BY <2>1, <2>2, <2>3
  <2>4. CASE ~(i + k > 1 \/ ~node[n].waiting)
    <3>1. i = 1 /\ k = 0 /\ node[n].waiting /\ ~r.waiting
      BY <1>3, <2>1, <2>4
    <3>2. p[i].no = q[1].no /\ q # <<>>
      BY <1>1, <2>1, <3>1
    <3>3. Head(q) = q[1]
      BY <1>1, <3>2, HeadItem
    <3>4. QED
      BY <3>1, <3>2, <3>3
  <2>5. QED
    BY <2>3, <2>4
<1> HIDE DEF p, q
<1>4. \A m \in Machines : \A i \in DOMAIN node'[m].queue :
        i > 1 \/ ~node'[m].waiting => past.delivered[node'[m].queue[i].no] = 0
  <2>1. \A i \in DOMAIN node'[n].queue :
          i > 1 \/ ~node'[n].waiting => past.delivered[node'[n].queue[i].no] = 0
    BY <1>2, <1>3
  <2>2. QED
    BY <1>2, <2>1 DEF PatientInv, DeliveredInv
<1>5. \A d \in data' : d.frame.controle # CTRL_ACK => past.delivered[d.frame.no] = 0
  <2>1. \A d \in data : d.frame.controle # CTRL_ACK => past.delivered[d.frame.no] = 0
    BY DEF PatientInv, DeliveredInv
  <2>2. data' \subseteq data \cup r.out.data
    BY DEF Becomes
  <2>3. QED
    BY <2>1, <2>2
<1>6. \A j \in Numbers : /\ past.delivered[j] <= 1
                         /\ j > past.typed => past.delivered[j] = 0
  BY DEF PatientInv, DeliveredInv
<1>7. QED
  BY <1>4, <1>5, <1>6 DEF DeliveredInv

-----------------------------------------------------------------------------
\* What becomes of messages

\* A handler that leaves the messages and the round of its machine alone.
LEMMA StillFlow ==
  ASSUME RingInv, PatientInv, NEW n \in Machines, NEW r, DOMAIN r = NodeFields,
         NEW eaten, Becomes(n, r, eaten, {}),
         r.queue = node[n].queue, SameWait(node[n], r), r.out.data = {},
         past'.typed = past.typed, past'.delivered = past.delivered,
         budget'.texts = budget.texts
  PROVE  DataInv' /\ QueuesInv' /\ DeliveredInv'
<1>1. /\ \A m \in Machines : m # n => node'[m] = node[m]
      /\ node'[n].queue = r.queue /\ node'[n].waiting = r.waiting
      /\ node'[n].active_data_fingerprint = r.active_data_fingerprint
      /\ data' = data
  <2>1. /\ \A m \in Machines : m # n => node'[m] = node[m]
        /\ node'[n].queue = r.queue /\ node'[n].waiting = r.waiting
        /\ node'[n].active_data_fingerprint = r.active_data_fingerprint
    BY BecomesFields
  <2>2. data' = data
    BY DEF Becomes
  <2>3. QED
    BY <2>1, <2>2
<1>2. \A m \in Machines :
        /\ node'[m].queue = node[m].queue /\ node'[m].waiting = node[m].waiting
        /\ node'[m].active_data_fingerprint = node[m].active_data_fingerprint
  BY <1>1 DEF SameWait
<1>3. \A d \in data : d.frame.origem \in Machines
  BY DEF RingInv, Network_ok, InOrder
<1>4. DataInv'
  BY <1>1, <1>2, <1>3 DEF PatientInv, DataInv
<1>5. Behind(r.queue, node[n].queue, 0)
  BY NodeFacts, BehindFacts DEF RingInv, InRing
<1>6. QueuesInv'
  BY <1>5, QueuesKept
<1>7. DeliveredInv'
  <2>1. r.waiting = node[n].waiting
    BY DEF SameWait
  <2>2. QED
    BY <1>5, <2>1, DeliveredKept
<1>8. QED
  BY <1>4, <1>6, <1>7

\* A handler that leaves the ring empty, and its machine waiting for nothing.
LEMMA EndFlow ==
  ASSUME RingInv, PatientInv, NEW n \in Machines, NEW r, DOMAIN r = NodeFields,
         NEW eaten, NEW read, Becomes(n, r, eaten, read), data \subseteq read,
         NEW k \in {0, 1}, Behind(r.queue, node[n].queue, k), r.out.data = {},
         k = 0 /\ node[n].waiting => past.delivered[Head(node[n].queue).no] = 0,
         past'.typed = past.typed, past'.delivered = past.delivered,
         budget'.texts = budget.texts
  PROVE  DataInv' /\ QueuesInv' /\ DeliveredInv'
<1>1. data' = {}
  BY BecomesFields
<1>2. DataInv'
  BY <1>1 DEF DataInv
<1>3. QueuesInv'
  BY QueuesKept
<1>4. DeliveredInv'
  BY DeliveredKept
<1>5. QED
  BY <1>2, <1>3, <1>4

\* A handler that puts the head of the queue on the empty ring.
LEMMA LaunchFlow ==
  ASSUME RingInv, PatientInv, NEW n \in Machines, NEW r, DOMAIN r = NodeFields,
         NEW eaten, Becomes(n, r, eaten, {}), data = {}, ~node[n].waiting,
         r.queue = node[n].queue, r.queue # <<>>, Launches(node[n], r),
         past'.typed = past.typed, past'.delivered = past.delivered,
         budget'.texts = budget.texts
  PROVE  DataInv' /\ QueuesInv' /\ DeliveredInv'
<1>1. PICK f \in Frame :
        /\ f.origem = n /\ f.controle = CTRL_NONE /\ f.no = Head(node[n].queue).no
        /\ r.active_data_fingerprint = FingerprintOf(f)
        /\ r.out.data = {[to |-> To(node[n]), frame |-> f]}
  BY NodeFacts DEF RingInv, Launches
<1> DEFINE d == [to |-> To(node[n]), frame |-> f]
<1>2. d.frame = f /\ r.out.data = {d}
  BY <1>1
<1> HIDE DEF d
<1>3. /\ node'[n].queue = r.queue /\ node'[n].waiting = r.waiting
      /\ node'[n].active_data_fingerprint = r.active_data_fingerprint
      /\ data' = {d}
  BY <1>2, BecomesFields
<1>4. r.waiting
  BY DEF Launches
<1>5. DataInv'
  BY <1>1, <1>2, <1>3, <1>4 DEF DataInv
<1>6. Behind(r.queue, node[n].queue, 0)
  BY NodeFacts, BehindFacts DEF RingInv, InRing
<1>7. QueuesInv'
  BY <1>6, QueuesKept
<1>8. past.delivered[f.no] = 0
  <2>1. node[n].queue \in Seq(Item)
    BY NodeFacts DEF RingInv, InRing
  <2>2. 1 \in DOMAIN node[n].queue /\ Head(node[n].queue) = node[n].queue[1]
    BY <2>1, HeadItem
  <2>3. QED
    BY <1>1, <2>2 DEF PatientInv, DeliveredInv
<1>9. DeliveredInv'
  BY <1>2, <1>4, <1>6, <1>8, DeliveredKept
<1>10. QED
  BY <1>5, <1>7, <1>9

\* A handler that sends the DATA on: this machine delivers it if it is for
\* this machine and intact.
LEMMA ForwardFlow ==
  ASSUME RingInv, PatientInv, NEW d \in data, d.frame.origem # d.to,
         NEW r, DOMAIN r = NodeFields, Becomes(d.to, r, 0, {d}),
         r.queue = node[d.to].queue, SameWait(node[d.to], r),
         LET g == IF d.frame.destino = d.to THEN Answer(d.frame) ELSE d.frame IN
         r.out.data = {[to |-> To(node[d.to]), frame |-> g]},
         past'.typed = past.typed, budget'.texts = budget.texts,
         past'.delivered = IF d.frame.destino = d.to /\ CrcMatches(d.frame.message, d.frame.crc)
                             THEN [past.delivered EXCEPT ![d.frame.no] = @ + 1]
                             ELSE past.delivered
  PROVE  DataInv' /\ QueuesInv' /\ DeliveredInv'
<1> DEFINE n == d.to
           f == d.frame
           g == IF f.destino = n THEN Answer(f) ELSE f
           e == [to |-> To(node[n]), frame |-> g]
           arrives == f.destino = n /\ CrcMatches(f.message, f.crc)
           o == f.origem
<1>1. InOrder(d) /\ n \in Machines /\ f \in Frame /\ o \in Machines /\ o # n
  BY DEF RingInv, Network_ok, InOrder
<1>2. /\ g.origem = o /\ FingerprintOf(g) = FingerprintOf(f) /\ g.no = f.no
      /\ g.controle = CTRL_ACK => f.controle = CTRL_ACK \/ arrives
      /\ g.controle # CTRL_ACK => ~arrives /\ (f.destino # n => f.controle # CTRL_ACK)
  BY <1>1 DEF Answer, Frame, FingerprintOf, CTRL_ACK, CTRL_NAK
<1>3. f.destino = n => f.controle # CTRL_ACK
  <2>1. f.destino = n => ~Passed(o, n, n)
    BY <1>1, MachinesAreNaturals, PassedNotHere
  <2>2. f.destino = n => f.controle = CTRL_NONE
    BY <1>1, <2>1 DEF InOrder
  <2>3. QED
    BY <2>2 DEF CTRL_NONE, CTRL_ACK
<1>4. e.frame = g /\ r.out.data = {e}
  OBVIOUS
<1>5. data = {d}
  BY DEF PatientInv, DataInv
<1>6. data' = {e}
  <2>1. data' = (data \ {d}) \cup r.out.data
    BY DEF Becomes
  <2>2. QED
    BY <1>4, <1>5, <2>1
<1>7. node[o].waiting /\ FingerprintOf(f) = node[o].active_data_fingerprint
      /\ f.no = Head(node[o].queue).no
  BY DEF PatientInv, DataInv
<1>8. past'.delivered = IF arrives THEN [past.delivered EXCEPT ![f.no] = @ + 1]
                        ELSE past.delivered
  OBVIOUS
<1>9. Becomes(n, r, 0, {d}) /\ r.queue = node[n].queue /\ SameWait(node[n], r)
  OBVIOUS
<1> HIDE DEF n, f, g, e, o, arrives
<1>10. /\ \A m \in Machines : m # n => node'[m] = node[m]
       /\ node'[n].queue = r.queue /\ node'[n].waiting = r.waiting
       /\ node'[n].active_data_fingerprint = r.active_data_fingerprint
  BY <1>1, <1>9, BecomesFields
<1>11. \A m \in Machines :
         /\ node'[m].queue = node[m].queue /\ node'[m].waiting = node[m].waiting
         /\ node'[m].active_data_fingerprint = node[m].active_data_fingerprint
  BY <1>9, <1>10 DEF SameWait
<1>12. DataInv'
  <2>1. e.frame.origem = o /\ FingerprintOf(e.frame) = FingerprintOf(f) /\ e.frame.no = f.no
    BY <1>2, <1>4
  <2>2. node'[o].waiting /\ FingerprintOf(f) = node'[o].active_data_fingerprint
        /\ f.no = Head(node'[o].queue).no
    BY <1>1, <1>7, <1>11
  <2>3. QED
    BY <1>6, <2>1, <2>2 DEF DataInv
<1>13. Behind(r.queue, node[n].queue, 0)
  BY <1>1, <1>9, NodeFacts, BehindFacts DEF RingInv, InRing
<1>14. QueuesInv'
  BY <1>1, <1>9, <1>13, QueuesKept
<1>15. node[o].queue # <<>> /\ 1 \in DOMAIN node[o].queue /\ f.no = node[o].queue[1].no
  <2>1. node[o].queue \in Seq(Item) /\ node[o].queue # <<>>
    BY <1>1, <1>7, NodeFacts DEF RingInv, InRing
  <2>2. QED
    BY <1>7, <2>1, HeadItem
<1>16. f.no \in 1 .. past.typed
  BY <1>1, <1>15 DEF PatientInv, QueuesInv
<1>17. \A m \in Machines : \A i \in DOMAIN node[m].queue :
         node[m].queue[i].no = f.no => m = o /\ i = 1
  BY <1>1, <1>15 DEF PatientInv, QueuesInv
<1>18. DeliveredInv'
  <2>1. past.delivered \in [Numbers -> Nat] /\ past.typed \in Nat
    BY DEF RingInv, Past_ok
  <2>2. \A k \in Numbers : past'.delivered[k] = IF arrives /\ k = f.no THEN past.delivered[k] + 1
                                                ELSE past.delivered[k]
    BY <1>8, <2>1
  <2>3. \A k : k # f.no => past'.delivered[k] = past.delivered[k]
    BY <1>8, <2>1
  <2>4. arrives => past.delivered[f.no] = 0
    <3>1. \A c \in data : c.frame.controle # CTRL_ACK => past.delivered[c.frame.no] = 0
      BY DEF PatientInv, DeliveredInv
    <3>2. arrives => f.destino = n
      BY DEF arrives
    <3>3. QED
      BY <1>3, <3>1, <3>2 DEF f
  <2>5. ASSUME NEW k \in Numbers
        PROVE  past'.delivered[k] <= 1 /\ (k > past.typed => past'.delivered[k] = 0)
    <3>1. past.delivered[k] <= 1 /\ (k > past.typed => past.delivered[k] = 0)
      BY DEF PatientInv, DeliveredInv
    <3>2. k = f.no => ~(k > past.typed)
      BY <1>16, <2>1
    <3>3. QED
      BY <2>2, <2>4, <3>1, <3>2
  <2>6. ASSUME NEW m \in Machines, NEW i \in DOMAIN node[m].queue, i > 1 \/ ~node[m].waiting
        PROVE  past'.delivered[node[m].queue[i].no] = 0
    <3>1. past.delivered[node[m].queue[i].no] = 0
      BY <2>6 DEF PatientInv, DeliveredInv
    <3>2. node[m].queue[i].no # f.no
      <4>1. ~(1 > 1)
        OBVIOUS
      <4>2. QED
        BY <1>7, <1>17, <2>6, <4>1
    <3>3. QED
      BY <2>3, <3>1, <3>2
  <2>7. e.frame.controle # CTRL_ACK => past'.delivered[e.frame.no] = 0
    <3>1. \A c \in data : c.frame.controle # CTRL_ACK => past.delivered[c.frame.no] = 0
      BY DEF PatientInv, DeliveredInv
    <3>2. f.controle # CTRL_ACK => past.delivered[f.no] = 0
      BY <3>1 DEF f
    <3>3. g.controle # CTRL_ACK => ~arrives /\ f.controle # CTRL_ACK
      BY <1>2, <1>3
    <3>4. QED
      BY <1>2, <1>4, <1>8, <3>2, <3>3
  <2>8. past'.typed = past.typed
    OBVIOUS
  <2>9. /\ \A k \in Numbers : /\ past'.delivered[k] <= 1
                              /\ k > past'.typed => past'.delivered[k] = 0
        /\ \A m \in Machines : \A i \in DOMAIN node'[m].queue :
             i > 1 \/ ~node'[m].waiting => past'.delivered[node'[m].queue[i].no] = 0
        /\ \A c \in data' : c.frame.controle # CTRL_ACK => past'.delivered[c.frame.no] = 0
    BY ZenonT(60), <1>6, <1>11, <2>5, <2>6, <2>7, <2>8
  <2>10. QED
    BY <2>9 DEF DeliveredInv
<1>19. QED
  BY <1>12, <1>14, <1>18

\* A message that is typed, and appended unless the queue is full.
LEMMA TypeFlow ==
  ASSUME RingInv, PatientInv, NEW n \in Machines, NEW r, DOMAIN r = NodeFields,
         Becomes(n, r, 0, {}), SameWait(node[n], r), r.out.data = {},
         NEW item \in Item, item.no = past.typed + 1,
         r.queue = node[n].queue \/ r.queue = Append(node[n].queue, item),
         past.typed < Len(budget.texts), past'.typed = past.typed + 1,
         past'.delivered = past.delivered, budget'.texts = budget.texts
  PROVE  DataInv' /\ QueuesInv' /\ DeliveredInv'
<1> DEFINE q == [m \in Machines |-> node[m].queue]
           p == [m \in Machines |-> node'[m].queue]
           no == past.typed + 1
           new == Len(q[n]) + 1
<1>1. \A m \in Machines : /\ q[m] \in Seq(Item) /\ Len(q[m]) \in Nat
                          /\ DOMAIN q[m] = 1 .. Len(q[m])
  <2>1. \A m \in Machines : node[m].queue \in Seq(Item)
    BY NodeFacts DEF RingInv, InRing
  <2>2. QED
    BY <2>1, LenProperties
<1>2. past.typed \in Nat /\ past.delivered \in [Numbers -> Nat]
  BY DEF RingInv, Past_ok
<1>3. /\ \A m \in Machines : m # n => node'[m] = node[m]
      /\ node'[n].queue = r.queue
      /\ \A m \in Machines :
           /\ node'[m].waiting = node[m].waiting
           /\ node'[m].active_data_fingerprint = node[m].active_data_fingerprint
      /\ data' = data
  <2>1. /\ \A m \in Machines : m # n => node'[m] = node[m]
        /\ node'[n].queue = r.queue /\ node'[n].waiting = r.waiting
        /\ node'[n].active_data_fingerprint = r.active_data_fingerprint
    BY BecomesFields
  <2>2. data' = data
    BY DEF Becomes
  <2>3. QED
    BY <2>1, <2>2 DEF SameWait
<1>4. \A m \in Machines : m # n => p[m] = q[m]
  BY <1>3
<1>5. p[n] = q[n] \/ p[n] = Append(q[n], item)
  BY <1>3
<1>6. \A m \in Machines : node'[m].queue = p[m] /\ node[m].queue = q[m]
  OBVIOUS
<1> HIDE DEF p, q
\* What is in a queue was there before, or is the new message at the end.
<1>7. ASSUME NEW m \in Machines, NEW i \in DOMAIN p[m]
      PROVE  \/ i \in DOMAIN q[m] /\ p[m][i] = q[m][i]
             \/ m = n /\ i = new /\ p[m][i].no = no
  <2>1. CASE p[m] = q[m]
    BY <1>7, <2>1
  <2>2. CASE m = n /\ p[m] = Append(q[n], item)
    <3>1. /\ p[m] \in Seq(Item) /\ Len(p[m]) = new
          /\ \A j \in 1 .. Len(q[n]) : p[m][j] = q[n][j]
          /\ p[m][new] = item
      BY <1>1, <2>2, AppendProperties
    <3>2. i \in 1 .. new
      BY <1>7, <3>1, LenProperties
    <3>3. i \in 1 .. Len(q[n]) \/ i = new
      BY <1>1, <3>2
    <3>4. QED
      BY <1>1, <2>2, <3>1, <3>3
  <2>3. QED
    BY <1>4, <1>5, <2>1, <2>2
<1>8. \A m \in Machines : q[m] # <<>> => p[m] # <<>> /\ Head(p[m]) = Head(q[m])
  <2>1. ASSUME NEW m \in Machines, q[m] # <<>>
        PROVE  p[m] # <<>> /\ Head(p[m]) = Head(q[m])
    <3>1. CASE p[m] = q[m]
      BY <2>1, <3>1
    <3>2. CASE m = n /\ p[m] = Append(q[n], item)
      <4>1. /\ p[m] \in Seq(Item) /\ Len(p[m]) = Len(q[n]) + 1
            /\ \A j \in 1 .. Len(q[n]) : p[m][j] = q[n][j]
        BY <1>1, <3>2, AppendProperties
      <4>2. 1 \in 1 .. Len(q[n])
        BY <1>1, <2>1, <3>2, HeadItem
      <4>3. p[m] # <<>>
        BY <1>1, <4>1, EmptySeq
      <4>4. Head(p[m]) = p[m][1] /\ Head(q[n]) = q[n][1]
        BY <1>1, <2>1, <3>2, <4>1, <4>3, HeadItem
      <4>5. QED
        BY <3>2, <4>1, <4>2, <4>3, <4>4
    <3>3. QED
      BY <1>4, <1>5, <3>1, <3>2
  <2>2. QED
    BY <2>1
<1>9. DataInv'
  <2>1. \A m \in Machines : node[m].waiting => q[m] # <<>>
    BY <1>6, NodeFacts DEF RingInv
  <2>2. \A d \in data : d.frame.origem \in Machines
    BY DEF RingInv, Network_ok, InOrder
  <2>3. ASSUME NEW d \in data
        PROVE  /\ node'[d.frame.origem].waiting
               /\ FingerprintOf(d.frame) = node'[d.frame.origem].active_data_fingerprint
               /\ d.frame.no = Head(node'[d.frame.origem].queue).no
    <3>1. /\ node[d.frame.origem].waiting
          /\ FingerprintOf(d.frame) = node[d.frame.origem].active_data_fingerprint
          /\ d.frame.no = Head(node[d.frame.origem].queue).no
      BY DEF PatientInv, DataInv
    <3>2. QED
      BY <1>3, <1>6, <1>8, <2>1, <2>2, <3>1
  <2>4. \A d, e \in data : d = e
    BY DEF PatientInv, DataInv
  <2>5. QED
    BY <1>3, <2>3, <2>4 DEF DataInv
<1>10. /\ \A a \in Machines : \A i \in DOMAIN q[a] :
            /\ q[a][i].no \in 1 .. past.typed
            /\ \A b \in Machines : \A j \in DOMAIN q[b] :
                 q[b][j].no = q[a][i].no => b = a /\ j = i
  BY <1>6 DEF PatientInv, QueuesInv
<1>11. QueuesInv'
  <2>1. past'.typed <= Len(budget'.texts)
    <3>1. Len(budget.texts) \in Nat
      BY LenProperties DEF RingInv, Budget_ok
    <3>2. QED
      BY <1>2, <3>1
  <2>2. ASSUME NEW a \in Machines, NEW i \in DOMAIN p[a]
        PROVE  /\ p[a][i].no \in 1 .. past'.typed
               /\ \A b \in Machines : \A j \in DOMAIN p[b] : p[b][j].no = p[a][i].no => b = a /\ j = i
    <3>1. ASSUME NEW b \in Machines, NEW j \in DOMAIN p[b]
          PROVE  \/ j \in DOMAIN q[b] /\ p[b][j].no = q[b][j].no /\ p[b][j].no \in 1 .. past.typed
                 \/ b = n /\ j = new /\ p[b][j].no = no
      BY <1>7, <1>10
    <3>2. no \notin 1 .. past.typed /\ no \in 1 .. no /\ \A k \in 1 .. past.typed : k \in 1 .. no
      BY <1>2
    <3>3. p[a][i].no \in 1 .. past'.typed
      BY <3>1, <3>2
    <3>4. ASSUME NEW b \in Machines, NEW j \in DOMAIN p[b], p[b][j].no = p[a][i].no
          PROVE  b = a /\ j = i
      <4>1. \/ j \in DOMAIN q[b] /\ p[b][j].no = q[b][j].no /\ p[b][j].no \in 1 .. past.typed
            \/ b = n /\ j = new /\ p[b][j].no = no
        BY <3>1
      <4>2. \/ i \in DOMAIN q[a] /\ p[a][i].no = q[a][i].no /\ p[a][i].no \in 1 .. past.typed
            \/ a = n /\ i = new /\ p[a][i].no = no
        BY <3>1
      <4> HIDE DEF no, new
      <4>3. QED
        BY <1>10, <3>2, <3>4, <4>1, <4>2
    <3>5. QED
      BY <3>3, <3>4
  <2>3. QED
    BY <1>6, <2>1, <2>2 DEF QueuesInv
<1>12. no \in Numbers /\ past.delivered[no] = 0
  <2>1. PICK s \in Scenarios : budget.texts = s.texts
    BY DEF RingInv, Budget_ok
  <2>2. budget.texts \in Seq(Text)
    BY DEF RingInv, Budget_ok
  <2>3. DOMAIN budget.texts = 1 .. Len(budget.texts) /\ Len(budget.texts) \in Nat
    BY <2>2, LenProperties
  <2>4. no \in DOMAIN s.texts
    BY <1>2, <2>1, <2>3
  <2>5. no \in Numbers
    BY <2>4 DEF Numbers
  <2>6. no > past.typed
    BY <1>2
  <2>7. QED
    BY <2>5, <2>6 DEF PatientInv, DeliveredInv
<1>13. DeliveredInv'
  <2>1. ASSUME NEW m \in Machines, NEW i \in DOMAIN p[m], i > 1 \/ ~node'[m].waiting
        PROVE  past.delivered[p[m][i].no] = 0
    <3>1. CASE i \in DOMAIN q[m] /\ p[m][i] = q[m][i]
      <4>1. i > 1 \/ ~node[m].waiting
        BY <1>3, <2>1
      <4>2. past.delivered[node[m].queue[i].no] = 0
        BY <1>6, <3>1, <4>1 DEF PatientInv, DeliveredInv
      <4>3. QED
        BY <1>6, <3>1, <4>2
    <3>2. CASE p[m][i].no = no
      BY <1>12, <3>2
    <3>3. QED
      BY <1>7, <3>1, <3>2
  <2>2. \A d \in data' : d.frame.controle # CTRL_ACK => past.delivered[d.frame.no] = 0
    BY <1>3 DEF PatientInv, DeliveredInv
  <2>3. \A k \in Numbers : /\ past.delivered[k] <= 1
                           /\ k > past'.typed => past.delivered[k] = 0
    <3>1. \A k \in Numbers : /\ past.delivered[k] <= 1
                             /\ k > past.typed => past.delivered[k] = 0
      BY DEF PatientInv, DeliveredInv
    <3>2. Numbers \subseteq Nat
      <4>1. ASSUME NEW s \in Scenarios
            PROVE  DOMAIN s.texts \subseteq Nat
        <5>1. s.texts \in Seq(Text)
          BY ScenariosAssumption
        <5>2. DOMAIN s.texts = 1 .. Len(s.texts)
          BY <5>1, LenProperties
        <5>3. QED
          BY <5>2
      <4>2. QED
        BY <4>1 DEF Numbers
    <3>3. \A k \in Numbers : k > past'.typed => k > past.typed
      BY <1>2, <3>2
    <3>4. QED
      BY <3>1, <3>3
  <2>4. QED
    BY <1>6, <2>1, <2>2, <2>3 DEF DeliveredInv
<1>14. QED
  BY <1>9, <1>11, <1>13

-----------------------------------------------------------------------------
\* What becomes of the token and of the queues, for the service

\* What a machine does with its queue is what the service does.
LEMMA WaitingAfter ==
  ASSUME RingInv, NEW n \in Machines, NEW r, DOMAIN r = NodeFields,
         NEW eaten, NEW read, Becomes(n, r, eaten, read)
  PROVE  /\ r.queue = node[n].queue => Waiting' = Waiting
         /\ node[n].queue # <<>> /\ r.queue = Marked(node[n].queue) => Waiting' = Waiting
         /\ node[n].queue # <<>> /\ r.queue = Tail(node[n].queue) =>
              Waiting[n] # <<>> /\ Waiting' = [Waiting EXCEPT ![n] = Tail(@)]
         /\ \A item \in Item : r.queue = Append(node[n].queue, item) =>
              Waiting' = [Waiting EXCEPT ![n] = Append(@, item.no)]
         /\ Len(Waiting[n]) = Len(node[n].queue)
<1> DEFINE q == node[n].queue
           W == Waiting
<1>1. q \in Seq(Item)
  BY NodeFacts DEF RingInv, InRing
<1>2. W[n] = Nos(q) /\ Waiting' = [W EXCEPT ![n] = Nos(r.queue)]
  BY BecomesFields
<1>3. W = [m \in Machines |-> W[m]]
  BY DEF Waiting
<1> HIDE DEF q, W
<1>4. /\ q # <<>> => /\ Nos(q) # <<>>
                     /\ Nos(Tail(q)) = Tail(Nos(q)) /\ Nos(Marked(q)) = Nos(q)
      /\ \A item \in Item : Nos(Append(q, item)) = Append(Nos(q), item.no)
      /\ Len(Nos(q)) = Len(q)
  BY <1>1, NosFacts, NosIsSeq
<1>5. [W EXCEPT ![n] = Nos(q)] = W
  BY <1>2, <1>3
<1>6. QED
  BY <1>2, <1>4, <1>5 DEF q, W

\* Where the token is afterwards.
LEMMA HolderAfter ==
  ASSUME RingInv, RingInv', NEW n \in Machines, NEW r, DOMAIN r = NodeFields,
         NEW eaten, NEW read, Becomes(n, r, eaten, read), Tokens' <= 1
  PROVE  /\ r.has_token => Holder' = n
         /\ r.out.token = {Successor(Machines, n)} => Holder' = Successor(Machines, n)
         /\ Tokens' = 0 => Holder' = 0
<1>1. node'[n].has_token = r.has_token
  BY BecomesFields
<1>2. r.has_token => Holder' = n
  BY <1>1, HolderNext
<1>3. ASSUME r.out.token = {Successor(Machines, n)}
      PROVE  Holder' = Successor(Machines, n)
  <2> DEFINE m == Successor(Machines, n)
  <2>1. m \in Machines /\ m # n
    BY NodeFacts, NotAlone DEF RingInv, To
  <2>2. m \in r.out.token
    BY <1>3
  <2> HIDE DEF m
  <2>3. token'[m] = token[m] - 0 + 1
    BY <2>1, <2>2 DEF Becomes
  <2>4. token[m] \in Nat
    BY <2>1 DEF RingInv, Network_ok
  <2>5. token'[m] > 0
    BY <2>3, <2>4
  <2>6. Holder' = m
    BY <2>1, <2>5, HolderNext
  <2>7. QED
    BY <2>6 DEF m
<1>4. Tokens' = 0 => Holder' = 0
  BY DEF Holder
<1>5. QED
  BY <1>2, <1>3, <1>4

\* A machine that neither takes nor gives a token.
LEMMA HolderKept ==
  ASSUME RingInv, RingInv', Tokens <= 1, NEW n \in Machines, NEW r, DOMAIN r = NodeFields,
         NEW read, Becomes(n, r, 0, read),
         r.has_token = node[n].has_token, r.out.token = {}
  PROVE  Tokens' = Tokens /\ Holder' = Holder
<1>1. \A m \in Machines : node'[m].has_token = node[m].has_token
  <2>1. node'[n].has_token = r.has_token /\ \A m \in Machines : m # n => node'[m] = node[m]
    BY BecomesFields
  <2>2. QED
    BY <2>1
<1>2. token' = token
  <2>1. token \in [Machines -> Nat]
    BY DEF RingInv, Network_ok
  <2>2. \A m \in Machines : token'[m] = token[m] - 0 + 0
    BY DEF Becomes
  <2>3. \A m \in Machines : token'[m] = token[m]
    BY <2>1, <2>2
  <2>4. token' = [m \in Machines |-> token'[m]]
    BY DEF Becomes
  <2>5. QED
    BY <2>1, <2>3, <2>4
<1>3. [m \in Machines |-> token'[m] + IF node'[m].has_token THEN 1 ELSE 0]
        = [m \in Machines |-> token[m] + IF node[m].has_token THEN 1 ELSE 0]
  BY <1>1, <1>2
<1>4. Tokens' = Tokens
  BY <1>3 DEF Tokens
<1>5. Holder' = Holder
  <2>1. CASE Tokens = 0
    BY <1>4, <2>1 DEF Holder
  <2>2. CASE Tokens # 0
    <3>1. PICK m \in Machines : node[m].has_token \/ token[m] > 0
      BY <2>2, SomebodyHolds
    <3>2. Holder = m
      BY <3>1, HolderNow
    <3>3. (node'[m].has_token \/ token'[m] > 0) /\ Tokens' <= 1
      BY <1>1, <1>2, <1>4, <3>1
    <3>4. QED
      BY <3>2, <3>3, HolderNext
  <2>3. QED
    BY <2>1, <2>2
<1>6. QED
  BY <1>4, <1>5

\* Messages on a ring where nothing happens but a loss.
LEMMA LossFlow ==
  ASSUME PatientInv, node' = node, data' \subseteq data, past'.typed = past.typed,
         past'.delivered = past.delivered, budget'.texts = budget.texts
  PROVE  DataInv' /\ QueuesInv' /\ DeliveredInv' /\ Waiting' = Waiting
<1>1. DataInv'
  BY DEF PatientInv, DataInv
<1>2. QueuesInv'
  BY DEF PatientInv, QueuesInv
<1>3. DeliveredInv'
  BY DEF PatientInv, DeliveredInv
<1>4. Waiting' = Waiting
  BY DEF Waiting
<1>5. QED
  BY <1>1, <1>2, <1>3, <1>4

-----------------------------------------------------------------------------
\* Every step keeps the invariant, and is a step of the service

PatientStep == PatientInv' /\ [Service!Next]_(Service!vars)

\* The token that is there, when machine n becomes r.
LEMMA TokenAfter ==
  ASSUME RingInv, RingInv', PatientInv, NEW n \in Machines, node[n].has_token \/ token[n] > 0,
         NEW r \in NodeStates, NEW eaten \in {0, 1}, eaten <= token[n], NEW read,
         r.out.token = {} \/ r.out.token = {Successor(Machines, n)},
         Becomes(n, r, eaten, read), r.mon_posted = node[n].mon_posted,
         eaten = 1 \/ node[n].has_token, r.has_token => r.out.token = {}
  PROVE  /\ AtMostOneToken' /\ PostedInv'
         /\ Holder = n /\ Holder \in Machines
         /\ r.has_token => Holder' = n
         /\ r.out.token = {Successor(Machines, n)} => Holder' = Successor(Machines, n)
         /\ ~r.has_token /\ r.out.token = {} => Holder' = 0
<1>1. /\ Tokens = 1 /\ Holder = n
      /\ node[n].has_token => token[n] = 0
  BY HolderNow DEF PatientInv, AtMostOneToken
<1>2. Tokens' = Tokens - eaten + Sent(r) + Held(r) - Held(node[n])
  BY TokensOf DEF RingInv
<1>3. eaten + Held(node[n]) = 1
  BY <1>1 DEF Held
<1>4. Tokens' = Sent(r) + Held(r)
  <2>1. Sent(r) \in Int /\ Held(r) \in Int /\ Held(node[n]) \in Int /\ eaten \in Int
    BY DEF Sent, Held
  <2>2. QED
    BY <1>1, <1>2, <1>3, <2>1
<1>5. Tokens' <= 1
  BY <1>4 DEF Sent, Held
<1>6. DOMAIN r = NodeFields
  BY FieldsOf
<1>7. AtMostOneToken' /\ PostedInv'
  <2>1. \A m \in Machines : ~node[m].mon_posted
    BY <1>1 DEF PatientInv, PostedInv
  <2>2. \A m \in Machines : ~node'[m].mon_posted
    BY <1>6, <2>1, BecomesFields
  <2>3. QED
    BY <1>5, <2>2 DEF AtMostOneToken, PostedInv
<1>8. ~r.has_token /\ r.out.token = {} => Tokens' = 0
  BY <1>4 DEF Sent, Held
<1>9. QED
  BY <1>1, <1>5, <1>6, <1>7, <1>8, HolderAfter

\* A machine that neither takes nor gives a token, and raises no alarm.
LEMMA TokenStays ==
  ASSUME RingInv, RingInv', PatientInv, NEW n \in Machines, NEW r, DOMAIN r = NodeFields,
         NEW read, Becomes(n, r, 0, read), r.mon_posted = node[n].mon_posted,
         r.has_token = node[n].has_token, r.out.token = {},
         Tokens = 0 => r.out.data = {}
  PROVE  AtMostOneToken' /\ PostedInv' /\ Holder' = Holder
<1>1. Tokens' = Tokens /\ Holder' = Holder
  BY HolderKept DEF PatientInv, AtMostOneToken
<1>2. \A m \in Machines : node'[m].mon_posted = node[m].mon_posted
  BY BecomesFields
<1>3. Tokens = 0 => data' = {}
  <2>1. Tokens = 0 => data = {}
    BY WaitingMeansToken
  <2>2. data' \subseteq data \cup r.out.data
    BY DEF Becomes
  <2>3. QED
    BY <2>1, <2>2
<1>4. AtMostOneToken'
  BY <1>1 DEF PatientInv, AtMostOneToken
<1>5. PostedInv'
  BY <1>1, <1>2, <1>3 DEF PatientInv, PostedInv
<1>6. QED
  BY <1>1, <1>4, <1>5

\* _on_rx_token: the token is kept, used or removed.
LEMMA RxTokenServes ==
  ASSUME PatientRing, RingInv, RingInv', PatientInv, NEW n \in Machines, RxToken(n)
  PROVE  PatientStep
<1>1. PICK soon \in BOOLEAN, hit \in BOOLEAN :
        /\ token[n] > 0
        /\ Patient /\ soon => Tokens > 1
        /\ Becomes(n, OnRxToken(node[n], soon, hit), 1, {})
        /\ past' = [past EXCEPT !.taken = @ + Taken(n, TRUE)]
        /\ budget' = budget
  BY DEF RxToken
<1> DEFINE s == node[n]
           r == OnRxToken(s, soon, hit)
<1>2. /\ Tokens = 1 /\ Holder = n /\ ~s.waiting /\ ~s.has_token
  <2>1. token[n] # 0
    BY <1>1
  <2>2. QED
    BY <1>1, <2>1, HolderNow DEF PatientInv, AtMostOneToken
<1>3. ~soon
  BY <1>1, <1>2 DEF PatientRing
<1>4. /\ InRing(s) /\ To(s) = Successor(Machines, n) /\ MachineInv(s)
      /\ s.apelido = n /\ s.members = Machines /\ s.epoch <= MaxEpoch
  BY NodeFacts DEF RingInv, Machines_ok
<1>5. MachineInv(r)
  BY <1>4, OnRxTokenKeeps DEF Keeps
<1>6. /\ r.apelido = s.apelido /\ r.members = s.members /\ SameMonitor(s, r)
      /\ r.queue = s.queue
      /\ s.remove_token_pending => Idles(s, r)
      /\ ~s.remove_token_pending /\ s.has_token =>
           /\ SameWait(s, r) /\ r.has_token = s.has_token
           /\ \/ Silent(r) /\ r.tokens_duplicados = s.tokens_duplicados + 1
              \/ Passes(s, r) /\ r.tokens_duplicados = s.tokens_duplicados
      /\ ~s.remove_token_pending /\ ~s.has_token =>
           \/ /\ soon /\ SameWait(s, r) /\ r.has_token = s.has_token
              /\ Silent(r) /\ r.tokens_duplicados = s.tokens_duplicados + 1
           \/ /\ SameWait(s, r) /\ r.has_token = TRUE
              /\ Silent(r) /\ r.tokens_duplicados = s.tokens_duplicados
           \/ /\ s.queue # <<>> /\ Launches(s, r) /\ r.has_token = TRUE
              /\ r.tokens_duplicados = s.tokens_duplicados
  BY <1>4, OnRxTokenActs
<1>7. Becomes(n, r, 1, {})
  BY <1>1
<1>8. r \in NodeStates /\ DOMAIN r = NodeFields
  BY <1>5, FieldsOf DEF MachineInv
<1>9. past'.typed = past.typed /\ past'.delivered = past.delivered /\ budget'.texts = budget.texts
  BY <1>1 DEF RingInv, Past_ok
<1>10. s = node[n]
  OBVIOUS
<1> HIDE DEF s, r
<1>11. r.out.token = {}
  BY <1>2, <1>3, <1>6 DEF Idles, Silent, Launches
<1>12. /\ AtMostOneToken' /\ PostedInv' /\ Holder \in Machines
       /\ r.has_token => Holder' = n
       /\ ~r.has_token => Holder' = 0
  <2>1. 1 <= token[n] /\ r.mon_posted = node[n].mon_posted
    BY <1>1, <1>6, <1>10 DEF SameMonitor, RingInv, Network_ok
  <2>2. QED
    BY <1>1, <1>7, <1>8, <1>11, <2>1, TokenAfter
<1>13. Waiting' = Waiting
  BY <1>6, <1>7, <1>8, <1>10, WaitingAfter
<1>14. CASE SameWait(s, r) /\ r.out.data = {}
  <2>1. DataInv' /\ QueuesInv' /\ DeliveredInv'
    BY <1>6, <1>7, <1>8, <1>9, <1>10, <1>14, StillFlow
  <2>2. Holder' = Holder \/ Holder' = 0
    BY <1>2, <1>12
  <2>3. [Service!Next]_(Service!vars)
    BY <1>9, <1>12, <1>13, <2>2, ServiceStutters, ServiceLoses
  <2>4. QED
    BY <1>12, <2>1, <2>3 DEF PatientStep, PatientInv
<1>15. CASE s.queue # <<>> /\ Launches(s, r) /\ r.has_token = TRUE
  <2>1. data = {}
    BY <1>1, <1>2, <1>10, RingIsFree
  <2>2. DataInv' /\ QueuesInv' /\ DeliveredInv'
    BY <1>2, <1>6, <1>7, <1>8, <1>9, <1>10, <1>15, <2>1, LaunchFlow
  <2>3. [Service!Next]_(Service!vars)
    BY <1>2, <1>9, <1>12, <1>13, <1>15, ServiceStutters
  <2>4. QED
    BY <1>12, <2>2, <2>3 DEF PatientStep, PatientInv
<1>16. QED
  BY <1>2, <1>3, <1>6, <1>14, <1>15 DEF Idles, Silent

\* A handler that leaves token, messages and round of its machine alone.
LEMMA IdleServes ==
  ASSUME RingInv, RingInv', PatientInv, NEW n \in Machines, NEW r, DOMAIN r = NodeFields,
         Becomes(n, r, 0, {}), Idles(node[n], r), r.mon_posted = node[n].mon_posted,
         past'.typed = past.typed, past'.delivered = past.delivered,
         budget'.texts = budget.texts
  PROVE  PatientStep
<1>1. /\ r.queue = node[n].queue /\ SameWait(node[n], r) /\ r.out.data = {}
      /\ r.has_token = node[n].has_token /\ r.out.token = {}
  BY DEF Idles, Silent
<1>2. DataInv' /\ QueuesInv' /\ DeliveredInv'
  BY <1>1, StillFlow
<1>3. AtMostOneToken' /\ PostedInv' /\ Holder' = Holder
  BY <1>1, TokenStays
<1>4. Waiting' = Waiting
  BY <1>1, WaitingAfter
<1>5. QED
  BY <1>2, <1>3, <1>4, ServiceStutters DEF PatientStep, PatientInv

\* _on_timer_forward_token: the token goes on, or the ring stays as it is.
LEMMA TimerForwardTokenServes ==
  ASSUME RingInv, RingInv', PatientInv, NEW n \in Machines, TimerForwardToken(n)
  PROVE  PatientStep
<1>1. PICK ep \in 0 .. MaxEpoch, hit \in BOOLEAN :
        /\ node[n].forward_timers[ep] > 0
        /\ Becomes(n, OnTimerForwardToken(node[n], ep, hit), 0, {})
        /\ budget' = budget /\ past' = past
  BY DEF TimerForwardToken
<1> DEFINE s == node[n]
           r == OnTimerForwardToken(s, ep, hit)
<1>2. /\ InRing(s) /\ To(s) = Successor(Machines, n) /\ MachineInv(s)
      /\ s.apelido = n /\ s.members = Machines
  BY NodeFacts DEF RingInv
<1>3. MachineInv(r)
  BY <1>1, <1>2, OnTimerForwardTokenKeeps DEF Keeps
<1>4. /\ r.apelido = s.apelido /\ r.members = s.members /\ SameMonitor(s, r)
      /\ r.queue = s.queue /\ r.tokens_duplicados = s.tokens_duplicados
      /\ \/ Idles(s, r)
         \/ /\ s.has_token /\ ~s.waiting
            /\ r.has_token = FALSE /\ SameWait(s, r) /\ Passes(s, r)
         \/ /\ s.has_token /\ ~s.waiting /\ s.queue # <<>>
            /\ r.has_token = TRUE /\ Launches(s, r)
  BY <1>2, OnTimerForwardTokenActs
<1>5. Becomes(n, r, 0, {})
  BY <1>1
<1>6. r \in NodeStates /\ DOMAIN r = NodeFields
  BY <1>3, FieldsOf DEF MachineInv
<1>7. past'.typed = past.typed /\ past'.delivered = past.delivered /\ budget'.texts = budget.texts
  BY <1>1
<1>8. s = node[n] /\ 0 <= token[n]
  BY DEF RingInv, Network_ok
<1> HIDE DEF s, r
<1>9. Waiting' = Waiting
  BY <1>4, <1>5, <1>6, <1>8, WaitingAfter
<1>10. CASE Idles(s, r)
  BY <1>4, <1>5, <1>6, <1>7, <1>8, <1>10, IdleServes DEF SameMonitor
<1>11. CASE s.has_token /\ r.has_token = FALSE /\ SameWait(s, r) /\ Passes(s, r)
  <2>1. r.out.token = {Successor(Machines, n)} /\ r.out.data = {} /\ r.mon_posted = node[n].mon_posted
    BY <1>2, <1>4, <1>8, <1>11 DEF Passes, SameMonitor
  <2>2. /\ AtMostOneToken' /\ PostedInv' /\ Holder = n /\ Holder \in Machines
        /\ Holder' = Successor(Machines, n)
    BY <1>5, <1>6, <1>8, <1>11, <2>1, TokenAfter
  <2>3. DataInv' /\ QueuesInv' /\ DeliveredInv'
    BY <1>4, <1>5, <1>6, <1>7, <1>8, <1>11, <2>1, StillFlow
  <2>4. [Service!Next]_(Service!vars)
    BY <1>7, <1>9, <2>2, ServicePasses
  <2>5. QED
    BY <2>2, <2>3, <2>4 DEF PatientStep, PatientInv
<1>12. CASE /\ s.has_token /\ ~s.waiting /\ s.queue # <<>>
            /\ r.has_token = TRUE /\ Launches(s, r)
  <2>1. r.out.token = {} /\ r.mon_posted = node[n].mon_posted
    BY <1>4, <1>8, <1>12 DEF Launches, SameMonitor
  <2>2. /\ AtMostOneToken' /\ PostedInv' /\ Holder = n /\ Holder' = n
    BY <1>5, <1>6, <1>8, <1>12, <2>1, TokenAfter
  <2>3. data = {}
    BY <1>8, <1>12, RingIsFree
  <2>4. DataInv' /\ QueuesInv' /\ DeliveredInv'
    BY <1>4, <1>5, <1>6, <1>7, <1>8, <1>12, <2>3, LaunchFlow
  <2>5. [Service!Next]_(Service!vars)
    BY <1>7, <1>9, <2>2, ServiceStutters
  <2>6. QED
    BY <2>2, <2>4, <2>5 DEF PatientStep, PatientInv
<1>13. QED
  BY <1>4, <1>10, <1>11, <1>12

\* The end of a round, with the ring empty: the head of the queue is
\* concluded, or stays for its retransmission; the token goes on or is removed.
LEMMA ReleaseServes ==
  ASSUME RingInv, RingInv', PatientInv, NEW n \in Machines, node[n].waiting,
         NEW r \in NodeStates, NEW read, Becomes(n, r, 0, read), data \subseteq read,
         Releases(node[n], r),
         \/ r.queue = Tail(node[n].queue)
         \/ /\ r.queue = Marked(node[n].queue)
            /\ past.delivered[Head(node[n].queue).no] = 0,
         past'.typed = past.typed, past'.delivered = past.delivered,
         budget'.texts = budget.texts
  PROVE  PatientStep
<1> DEFINE q == node[n].queue
<1>1. /\ q \in Seq(Item) /\ q # <<>> /\ node[n].has_token /\ 0 <= token[n]
      /\ To(node[n]) = Successor(Machines, n)
  BY NodeFacts DEF RingInv, Network_ok, InRing
<1>2. DOMAIN r = NodeFields
  BY FieldsOf
<1>3. /\ r.mon_posted = node[n].mon_posted /\ ~r.has_token /\ r.out.data = {}
      /\ r.out.token = {} \/ r.out.token = {Successor(Machines, n)}
  BY <1>1 DEF Releases, SameMonitor, Silent, Passes
<1>4. /\ AtMostOneToken' /\ PostedInv' /\ Holder = n /\ Holder \in Machines
      /\ Holder' = Successor(Machines, n) \/ Holder' = 0
  BY <1>1, <1>3, TokenAfter
<1>5. Behind(Tail(q), q, 1) /\ Behind(Marked(q), q, 0)
  BY <1>1, BehindFacts
<1>6. CASE r.queue = Tail(q)
  <2>1. DataInv' /\ QueuesInv' /\ DeliveredInv'
    <3> DEFINE k == 1
    <3>1. k \in {0, 1} /\ ~(k = 0) /\ Behind(r.queue, node[n].queue, k)
      BY <1>5, <1>6
    <3> HIDE DEF k
    <3>2. QED
      BY <1>2, <1>3, <3>1, EndFlow
  <2>2. Waiting[n] # <<>> /\ Waiting' = [Waiting EXCEPT ![n] = Tail(@)]
    BY <1>1, <1>2, <1>6, WaitingAfter
  <2>3. [Service!Next]_(Service!vars)
    BY <1>4, <2>2, ServiceConcludes
  <2>4. QED
    BY <1>4, <2>1, <2>3 DEF PatientStep, PatientInv
<1>7. CASE r.queue = Marked(q) /\ past.delivered[Head(q).no] = 0
  <2>1. DataInv' /\ QueuesInv' /\ DeliveredInv'
    <3> DEFINE k == 0
    <3>1. k \in {0, 1} /\ Behind(r.queue, node[n].queue, k)
      BY <1>5, <1>7
    <3> HIDE DEF k
    <3>2. QED
      BY <1>2, <1>3, <1>7, <3>1, EndFlow
  <2>2. Waiting' = Waiting
    BY <1>1, <1>2, <1>7, WaitingAfter
  <2>3. [Service!Next]_(Service!vars)
    BY <1>4, <2>2, ServicePasses, ServiceLoses
  <2>4. QED
    BY <1>4, <2>1, <2>3 DEF PatientStep, PatientInv
<1>8. QED
  BY <1>6, <1>7

\* _on_timer_data_return_timeout: the message is given up, once its DATA is gone.
LEMMA TimerDataReturnTimeoutServes ==
  ASSUME PatientRing, RingInv, RingInv', PatientInv, NEW n \in Machines,
         TimerDataReturnTimeout(n)
  PROVE  PatientStep
<1> DEFINE s == node[n]
<1>1. PICK attempt \in s.return_timers :
        LET ends == attempt = s.active_data_attempt /\ s.waiting
        IN /\ Patient /\ ends => Circulating(n) = {}
           /\ Becomes(n, OnTimerDataReturnTimeout(s, attempt), 0, {})
           /\ past' = [past EXCEPT !.taken = @ + Taken(n, ends)]
           /\ budget' = budget
  BY DEF TimerDataReturnTimeout
<1> DEFINE r == OnTimerDataReturnTimeout(s, attempt)
           ends == attempt = s.active_data_attempt /\ s.waiting
<1>2. /\ InRing(s) /\ To(s) = Successor(Machines, n) /\ MachineInv(s)
      /\ s.apelido = n /\ s.members = Machines
      /\ s.waiting => s.has_token /\ s.queue # <<>>
  BY NodeFacts DEF RingInv
<1>3. attempt \in Nat
  BY <1>2 DEF MachineInv, NodeStates
<1>4. MachineInv(r)
  BY <1>2, <1>3, OnTimerDataReturnTimeoutKeeps DEF Keeps
<1>5. IF attempt = s.active_data_attempt /\ s.waiting
      THEN Releases(s, r) /\ r.queue = Tail(s.queue)
      ELSE Idles(s, r) /\ SameMonitor(s, r)
  BY <1>2, OnTimerDataReturnTimeoutActs
<1>6. Becomes(n, r, 0, {}) /\ (ends => Circulating(n) = {})
  BY <1>1 DEF PatientRing
<1>7. r \in NodeStates /\ DOMAIN r = NodeFields
  BY <1>4, FieldsOf DEF MachineInv
<1>8. past'.typed = past.typed /\ past'.delivered = past.delivered /\ budget'.texts = budget.texts
  BY <1>1 DEF RingInv, Past_ok
<1>9. s = node[n]
  OBVIOUS
<1> HIDE DEF s, r
<1>10. CASE ends
  <2>1. data = {}
    <3>1. \A m \in Machines : m # n => ~node[m].waiting
      BY <1>2, <1>9, <1>10, HolderNow DEF PatientInv, AtMostOneToken
    <3>2. ASSUME NEW d \in data
          PROVE  d.frame.origem = n
      BY <3>1 DEF PatientInv, DataInv, RingInv, Network_ok, InOrder
    <3>3. QED
      BY <1>6, <1>10, <3>2 DEF Circulating
  <2>2. Releases(node[n], r) /\ r.queue = Tail(node[n].queue) /\ node[n].waiting
    BY <1>5, <1>9, <1>10
  <2>3. data \subseteq {}
    BY <2>1
  <2>4. QED
    BY <1>6, <1>7, <1>8, <2>2, <2>3, ReleaseServes
<1>11. CASE ~ends
  BY <1>5, <1>6, <1>7, <1>8, <1>9, <1>11, IdleServes DEF SameMonitor
<1>12. QED
  BY <1>10, <1>11

\* _on_rx_data: the DATA goes on, or is back and ends its round.
LEMMA RxDataServes ==
  ASSUME RingInv, RingInv', PatientInv, NEW d \in data, Reads(d.to, d.frame, {d}),
         budget' = budget
  PROVE  PatientStep
<1> DEFINE n == d.to
           f == d.frame
           s == node[n]
           r == OnRxData(s, f)
           ends == f.origem = n /\ EndsRound(s, f)
           arrives == f.destino = n /\ f.origem # n /\ CrcMatches(f.message, f.crc)
           g == IF f.destino = s.apelido THEN Answer(f) ELSE f
<1>1. InOrder(d) /\ n \in Machines /\ f \in Frame
  BY DEF RingInv, Network_ok, InOrder
<1>2. /\ InRing(s) /\ To(s) = Successor(Machines, n) /\ MachineInv(s)
      /\ s.apelido = n /\ s.members = Machines
      /\ s.waiting => s.has_token /\ s.queue # <<>>
  BY <1>1, NodeFacts DEF RingInv
<1>3. MachineInv(r)
  BY <1>1, <1>2, OnRxDataKeeps DEF Keeps
<1>4. Becomes(n, r, 0, {d})
  BY DEF Reads
<1>5. /\ past'.typed = past.typed /\ budget'.texts = budget.texts
      /\ past'.delivered = IF arrives THEN [past.delivered EXCEPT ![f.no] = @ + 1]
                                      ELSE past.delivered
  <2> DEFINE acks == ends /\ f.destino # BROADCAST /\ f.controle = CTRL_ACK
             D == IF arrives THEN [past.delivered EXCEPT ![f.no] = @ + 1] ELSE past.delivered
             A == IF acks THEN past.acked \cup {<<Head(s.queue).no, f.no>>} ELSE past.acked
             K == past.taken + Taken(n, ends)
  <2>1. past' = [past EXCEPT !.delivered = D, !.acked = A, !.taken = K]
    BY DEF Reads
  <2>2. D = IF arrives THEN [past.delivered EXCEPT ![f.no] = @ + 1] ELSE past.delivered
    OBVIOUS
  <2> HIDE DEF D, A, K
  <2>3. past'.typed = past.typed /\ past'.delivered = D
    BY <2>1 DEF RingInv, Past_ok
  <2>4. QED
    BY <2>2, <2>3
<1>6. LET h == IF f.destino = s.apelido THEN Answer(f) ELSE f IN
      /\ f.origem # s.apelido =>
           /\ r.apelido = s.apelido /\ r.members = s.members
           /\ SameMonitor(s, r) /\ SameWait(s, r)
           /\ r.has_token = s.has_token /\ r.tokens_duplicados = s.tokens_duplicados
           /\ r.queue = s.queue
           /\ r.out.token = {} /\ r.out.data = {[to |-> To(s), frame |-> h]}
      /\ f.origem = s.apelido /\ ~EndsRound(s, f) => Idles(s, r) /\ SameMonitor(s, r)
      /\ f.origem = s.apelido /\ EndsRound(s, f) =>
           Releases(s, r) /\ r.queue = Concluded(s.queue, f)
  BY <1>1, <1>2, BackUnanswered, OnRxDataActs
<1>7. r \in NodeStates /\ DOMAIN r = NodeFields
  BY <1>3, FieldsOf DEF MachineInv
<1>8. data = {d}
  BY DEF PatientInv, DataInv
<1>9. /\ n = d.to /\ f = d.frame /\ s = node[n]
      /\ arrives = (f.destino = n /\ f.origem # n /\ CrcMatches(f.message, f.crc))
  OBVIOUS
<1>10. node[f.origem].waiting /\ FingerprintOf(f) = node[f.origem].active_data_fingerprint
       /\ f.no = Head(node[f.origem].queue).no
  BY DEF PatientInv, DataInv
<1> HIDE DEF r, n, f, s, arrives
<1>11. CASE f.origem # n
  <2>1. /\ SameWait(node[d.to], r) /\ r.queue = node[d.to].queue
        /\ r.has_token = node[d.to].has_token /\ r.mon_posted = node[d.to].mon_posted
        /\ r.out.token = {} /\ d.frame.origem # d.to /\ Becomes(d.to, r, 0, {d})
        /\ past'.typed = past.typed /\ budget'.texts = budget.texts
    BY <1>2, <1>4, <1>5, <1>6, <1>9, <1>11 DEF SameMonitor
  <2>2. LET h == IF d.frame.destino = d.to THEN Answer(d.frame) ELSE d.frame IN
        r.out.data = {[to |-> To(node[d.to]), frame |-> h]}
    BY <1>2, <1>6, <1>9, <1>11
  <2>3. past'.delivered = IF d.frame.destino = d.to /\ CrcMatches(d.frame.message, d.frame.crc)
                             THEN [past.delivered EXCEPT ![d.frame.no] = @ + 1]
                             ELSE past.delivered
    BY <1>5, <1>9, <1>11
  <2>4. DataInv' /\ QueuesInv' /\ DeliveredInv'
    BY <1>7, <2>1, <2>2, <2>3, ForwardFlow
  <2>5. Tokens # 0
    BY WaitingMeansToken
  <2>6. d.to \in Machines
    BY <1>1, <1>9
  <2>7. AtMostOneToken' /\ PostedInv' /\ Holder' = Holder
    BY <1>7, <2>1, <2>5, <2>6, TokenStays
  <2>8. Waiting' = Waiting
    BY <1>7, <2>1, <2>6, WaitingAfter
  <2>9. QED
    BY <2>1, <2>4, <2>7, <2>8, ServiceStutters DEF PatientStep, PatientInv
<1>12. CASE f.origem = n
  <2>1. EndsRound(s, f) /\ s.waiting
    BY <1>9, <1>10, <1>12 DEF EndsRound
  <2>2. Releases(s, r) /\ r.queue = Concluded(s.queue, f)
    BY <1>2, <1>6, <1>12, <2>1
  <2>3. past'.delivered = past.delivered
    BY <1>5, <1>9, <1>12
  <2>4. \/ r.queue = Tail(s.queue)
        \/ r.queue = Marked(s.queue) /\ past.delivered[Head(s.queue).no] = 0
    <3>1. CASE f.controle = CTRL_NAK
      <4>1. f.controle # CTRL_ACK
        BY <3>1 DEF CTRL_ACK, CTRL_NAK
      <4>2. past.delivered[f.no] = 0
        BY <1>9, <4>1 DEF PatientInv, DeliveredInv
      <4>3. QED
        BY <1>9, <1>10, <1>12, <2>2, <4>2 DEF Concluded
    <3>2. CASE f.controle # CTRL_NAK
      BY <2>2, <3>2 DEF Concluded
    <3>3. QED
      BY <3>1, <3>2
  <2>5. data \subseteq {d}
    BY <1>8
  <2>6. QED
    BY <1>1, <1>4, <1>5, <1>7, <1>9, <2>1, <2>2, <2>3, <2>4, <2>5, ReleaseServes
<1>13. QED
  BY <1>11, <1>12

\* The loop of the monitor: only that of the controller fires, and only when
\* the token is lost.
LEMMA MonitorThreadServes ==
  ASSUME PatientRing, RingInv, RingInv', PatientInv, NEW n \in Machines, MonitorThread(n)
  PROVE  PatientStep
<1> DEFINE s == node[n]
           r == MonitorFires(s)
<1>1. /\ Becomes(n, r, 0, {}) /\ budget' = budget /\ past' = past
      /\ s.mon_enabled /\ Tokens = 0 /\ data = {}
  BY DEF MonitorThread, MonitorMayFire, PatientRing
<1>2. InRing(s) /\ MachineInv(s) /\ s.apelido = n /\ s.members = Machines
  BY NodeFacts DEF RingInv
<1>3. MachineInv(r)
  BY <1>2, MonitorFiresKeeps DEF Keeps
<1>4. Idles(s, r)
  BY <1>2, MonitorFiresActs
<1>5. n = Controller
  BY <1>1, <1>2 DEF MachineInv, RoleInv, IsController, Controller
<1>6. DOMAIN r = NodeFields
  BY <1>3, FieldsOf DEF MachineInv
<1>7. s = node[n]
  OBVIOUS
<1> HIDE DEF s, r
<1>8. /\ r.queue = node[n].queue /\ SameWait(node[n], r) /\ r.out.data = {}
      /\ r.has_token = node[n].has_token /\ r.out.token = {}
  BY <1>4, <1>7 DEF Idles, Silent
<1>9. DataInv' /\ QueuesInv' /\ DeliveredInv'
  BY <1>1, <1>6, <1>8, StillFlow
<1>10. Tokens' = Tokens /\ Holder' = Holder
  BY <1>1, <1>6, <1>8, HolderKept DEF PatientInv, AtMostOneToken
<1>11. Waiting' = Waiting
  BY <1>1, <1>6, <1>8, WaitingAfter
<1>12. AtMostOneToken' /\ PostedInv'
  <2>1. data' = {}
    BY <1>1, <1>8 DEF Becomes
  <2>2. \A m \in Machines : node'[m].mon_posted => m = n \/ node[m].mon_posted
    BY <1>1, <1>6, BecomesFields
  <2>3. \A m \in Machines : node'[m].mon_posted => m = Controller
    BY <1>5, <2>2 DEF PatientInv, PostedInv
  <2>4. QED
    BY <1>1, <1>10, <2>1, <2>3 DEF AtMostOneToken, PostedInv
<1>13. QED
  BY <1>1, <1>9, <1>10, <1>11, <1>12, ServiceStutters DEF PatientStep, PatientInv

\* _on_mon_token_timeout: the controller makes a new token.
LEMMA MonTokenTimeoutServes ==
  ASSUME RingInv, RingInv', PatientInv, NEW n \in Machines, MonTokenTimeout(n)
  PROVE  PatientStep
<1> DEFINE s == node[n]
           r == OnMonTokenTimeout(s)
<1>1. /\ Becomes(n, r, 0, {}) /\ budget' = budget /\ s.mon_posted
      /\ past' = [past EXCEPT !.added = @ + r.tokens_perdidos - s.tokens_perdidos]
  BY DEF MonTokenTimeout
<1>2. /\ InRing(s) /\ To(s) = Successor(Machines, n) /\ MachineInv(s)
      /\ s.apelido = n /\ s.members = Machines
  BY NodeFacts DEF RingInv
<1>3. MachineInv(r)
  BY <1>2, OnMonTokenTimeoutKeeps DEF Keeps
<1>4. s.is_controller \in BOOLEAN
  BY <1>2 DEF MachineInv, NodeStates
<1>5. /\ r.mon_posted = FALSE
      /\ IF s.is_controller /\ ~s.has_token /\ ~s.waiting
         THEN /\ r.apelido = s.apelido /\ r.members = s.members /\ SameWait(s, r)
              /\ r.queue = s.queue /\ r.tokens_duplicados = s.tokens_duplicados
              /\ r.tokens_perdidos = s.tokens_perdidos + 1
              /\ r.has_token = FALSE /\ Passes(s, r)
         ELSE Idles(s, r)
  BY <1>2, <1>4, OnMonTokenTimeoutActs
<1>6. n = Controller /\ Tokens = 0 /\ data = {}
  BY <1>1 DEF PatientInv, PostedInv
<1>7. ~s.has_token /\ ~s.waiting /\ Holder = 0
  BY <1>6, NobodyHolds
<1>8. s.is_controller
  BY <1>2, <1>6 DEF MachineInv, RoleInv, IsController, Controller
<1>9. r \in NodeStates /\ DOMAIN r = NodeFields
  BY <1>3, FieldsOf DEF MachineInv
<1>10. past'.typed = past.typed /\ past'.delivered = past.delivered /\ budget'.texts = budget.texts
  BY <1>1 DEF RingInv, Past_ok
<1>11. s = node[n] /\ 0 <= token[n]
  BY DEF RingInv, Network_ok
<1> HIDE DEF s, r
<1>12. /\ SameWait(node[n], r) /\ r.queue = node[n].queue /\ r.has_token = FALSE
       /\ r.out.token = {Successor(Machines, n)} /\ r.out.data = {}
  BY <1>2, <1>5, <1>7, <1>8, <1>11 DEF Passes
<1>13. Tokens' = 1
  <2>1. Tokens' = Tokens - 0 + Sent(r) + Held(r) - Held(node[n])
    BY <1>1, <1>9, <1>11, <1>12, TokensOf DEF RingInv
  <2>2. Sent(r) = 1 /\ Held(r) = 0 /\ Held(node[n]) = 0
    BY <1>7, <1>11, <1>12 DEF Sent, Held
  <2>3. QED
    BY <1>6, <2>1, <2>2
<1>14. Holder' = Successor(Machines, Controller)
  BY <1>1, <1>6, <1>9, <1>12, <1>13, HolderAfter
<1>15. AtMostOneToken' /\ PostedInv'
  <2>1. \A m \in Machines : m # n => ~node[m].mon_posted
    BY <1>6 DEF PatientInv, PostedInv
  <2>2. \A m \in Machines : ~node'[m].mon_posted
    BY <1>1, <1>5, <1>9, <2>1, BecomesFields
  <2>3. QED
    BY <1>13, <2>2 DEF AtMostOneToken, PostedInv
<1>16. DataInv' /\ QueuesInv' /\ DeliveredInv'
  BY <1>1, <1>9, <1>10, <1>12, StillFlow
<1>17. Waiting' = Waiting
  BY <1>1, <1>9, <1>12, WaitingAfter
<1>18. [Service!Next]_(Service!vars)
  BY <1>7, <1>10, <1>14, <1>17, ServiceRegenerates
<1>19. QED
  BY <1>15, <1>16, <1>18 DEF PatientStep, PatientInv

\* _on_cmd_send: a message is typed.
LEMMA CmdSendServes ==
  ASSUME RingInv, RingInv', PatientInv, NEW n \in Machines, CmdSend(n)
  PROVE  PatientStep
<1> DEFINE s == node[n]
           no == past.typed + 1
           text == budget.texts[no]
<1>1. PICK destino \in budget.destinos : Becomes(n, OnCmdSend(s, destino, text, no), 0, {})
  BY DEF CmdSend
<1>2. /\ past.typed < Len(budget.texts) /\ budget' = budget
      /\ past' = [past EXCEPT !.typed = no]
  BY DEF CmdSend
<1>3. no \in Nat /\ text \in Text /\ destino \in Destino /\ no = past.typed + 1
  <2>1. past.typed \in Nat /\ budget.texts \in Seq(Text) /\ budget.destinos \subseteq Destino
    BY DEF RingInv, Past_ok, Budget_ok
  <2>2. no \in 1 .. Len(budget.texts)
    BY <1>2, <2>1
  <2>3. QED
    BY <2>1, <2>2
<1> DEFINE r == OnCmdSend(s, destino, text, no)
           item == [destino |-> destino, text |-> text, no |-> no,
                    skip_fault_injection |-> FALSE, retransmit_used |-> FALSE]
<1>4. InRing(s) /\ MachineInv(s)
  BY NodeFacts DEF RingInv
<1>5. MachineInv(r)
  BY <1>3, <1>4, OnCmdSendKeeps DEF Keeps
<1> HIDE DEF s, no, text
<1>6. /\ r.apelido = s.apelido /\ r.members = s.members
      /\ SameMonitor(s, r) /\ SameWait(s, r)
      /\ r.has_token = s.has_token /\ r.tokens_duplicados = s.tokens_duplicados
      /\ Silent(r)
      /\ r.queue = IF Len(s.queue) >= QueueMax THEN s.queue ELSE Append(s.queue, item)
  BY <1>4, OnCmdSendActs
<1>7. item \in Item /\ item.no = no
  BY <1>3 DEF Item
<1>8. Becomes(n, r, 0, {}) /\ DOMAIN r = NodeFields
  BY <1>1, <1>5, FieldsOf DEF MachineInv
<1>9. s = node[n]
  BY DEF s
<1> HIDE DEF r, item
<1>10. /\ SameWait(node[n], r) /\ r.out.data = {} /\ r.out.token = {}
       /\ r.has_token = node[n].has_token /\ r.mon_posted = node[n].mon_posted
  BY <1>6, <1>9 DEF SameMonitor, Silent
<1>11. /\ past'.typed = past.typed + 1 /\ past'.delivered = past.delivered
       /\ budget'.texts = budget.texts
  BY <1>2, <1>3 DEF RingInv, Past_ok
<1>12. r.queue = node[n].queue \/ r.queue = Append(node[n].queue, item)
  BY <1>6, <1>9
<1>13. DataInv' /\ QueuesInv' /\ DeliveredInv'
  BY <1>2, <1>3, <1>7, <1>8, <1>10, <1>11, <1>12, TypeFlow
<1>14. AtMostOneToken' /\ PostedInv' /\ Holder' = Holder
  BY <1>8, <1>10, TokenStays
<1>15. Waiting' = IF Len(Waiting[n]) < QueueMax
                    THEN [Waiting EXCEPT ![n] = Append(@, past.typed + 1)]
                    ELSE Waiting
  <2>1. Len(Waiting[n]) = Len(node[n].queue)
    BY <1>8, WaitingAfter
  <2>2. Len(node[n].queue) \in Nat /\ QueueMax \in Nat
    BY <1>4, <1>9, LenProperties, QueueMaxAssumption DEF InRing
  <2>3. CASE Len(node[n].queue) >= QueueMax
    <3>1. r.queue = node[n].queue
      BY <1>6, <1>9, <2>3
    <3>2. Waiting' = Waiting
      BY <1>8, <3>1, WaitingAfter
    <3>3. QED
      BY <2>1, <2>2, <2>3, <3>2
  <2>4. CASE ~(Len(node[n].queue) >= QueueMax)
    <3>1. r.queue = Append(node[n].queue, item)
      BY <1>6, <1>9, <2>4
    <3>2. Waiting' = [Waiting EXCEPT ![n] = Append(@, item.no)]
      BY <1>7, <1>8, <3>1, WaitingAfter
    <3>3. QED
      BY <1>3, <1>7, <2>1, <2>2, <2>4, <3>2
  <2>5. QED
    BY <2>3, <2>4
<1>16. [Service!Next]_(Service!vars)
  BY <1>11, <1>14, <1>15, ServiceTypes
<1>17. QED
  BY <1>13, <1>14, <1>16 DEF PatientStep, PatientInv

\* A fault leaves the texts alone.
LEMMA FaultKeepsTexts ==
  ASSUME RingInv, NEW kind, Fault(kind)
  PROVE  budget'.texts = budget.texts
BY DEF RingInv, Budget_ok, Fault

\* _on_cmd_remove_token: the token is taken away, or its removal promised.
LEMMA CmdRemoveTokenServes ==
  ASSUME RingInv, RingInv', PatientInv, NEW n \in Machines, CmdRemoveToken(n)
  PROVE  PatientStep
<1> DEFINE s == node[n]
           r == OnCmdRemoveToken(s)
           K == past.taken + IF s.has_token /\ ~s.waiting THEN 1 ELSE 0
<1>1. /\ Fault("remove") /\ Becomes(n, r, 0, {})
      /\ past' = [past EXCEPT !.taken = K]
  BY DEF CmdRemoveToken
<1>2. InRing(s) /\ MachineInv(s)
  BY NodeFacts DEF RingInv
<1>3. MachineInv(r)
  BY <1>2, OnCmdRemoveTokenKeeps DEF Keeps
<1>4. /\ SameMonitor(s, r)
      /\ IF s.has_token /\ ~s.waiting
         THEN /\ r.apelido = s.apelido /\ r.members = s.members
              /\ r.waiting = s.waiting /\ r.has_token = FALSE
              /\ r.queue = s.queue /\ r.tokens_duplicados = s.tokens_duplicados
              /\ Silent(r)
         ELSE Idles(s, r)
  BY <1>2, OnCmdRemoveTokenActs
<1>5. r \in NodeStates /\ DOMAIN r = NodeFields
  BY <1>3, FieldsOf DEF MachineInv
<1> HIDE DEF K
<1>6. past'.typed = past.typed /\ past'.delivered = past.delivered /\ budget'.texts = budget.texts
  BY <1>1, FaultKeepsTexts DEF RingInv, Past_ok
<1>7. s = node[n] /\ 0 <= token[n]
  BY DEF RingInv, Network_ok
<1> HIDE DEF s, r
<1>8. r.mon_posted = node[n].mon_posted
  BY <1>4, <1>7 DEF SameMonitor
<1>9. CASE s.has_token /\ ~s.waiting
  <2>1. /\ r.out.token = {} /\ r.out.data = {} /\ ~r.has_token /\ r.queue = node[n].queue
        /\ node[n].has_token /\ ~node[n].waiting
    BY <1>4, <1>7, <1>9 DEF Silent
  <2>2. AtMostOneToken' /\ PostedInv' /\ Holder = n /\ Holder \in Machines /\ Holder' = 0
    BY <1>1, <1>5, <1>7, <1>8, <2>1, TokenAfter
  <2>3. data \subseteq {}
    BY <2>1, RingIsFree
  <2>4. DataInv' /\ QueuesInv' /\ DeliveredInv'
    <3> DEFINE k == 0
    <3>1. k \in {0, 1} /\ Behind(r.queue, node[n].queue, k)
      BY <1>2, <1>7, <2>1, BehindFacts DEF InRing
    <3> HIDE DEF k
    <3>2. QED
      BY <1>1, <1>5, <1>6, <2>1, <2>3, <3>1, EndFlow
  <2>5. Waiting' = Waiting
    BY <1>1, <1>5, <2>1, WaitingAfter
  <2>6. QED
    BY <1>6, <2>2, <2>4, <2>5, ServiceLoses DEF PatientStep, PatientInv
<1>10. CASE ~(s.has_token /\ ~s.waiting)
  BY <1>1, <1>4, <1>5, <1>6, <1>7, <1>8, <1>10, IdleServes
<1>11. QED
  BY <1>9, <1>10

\* The network loses a token or DATA.
LEMMA LossServes ==
  ASSUME RingInv, RingInv', PatientInv, LoseData \/ \E n \in Machines : LoseToken(n)
  PROVE  PatientStep
<1>1. CASE LoseData
  <2>1. /\ Fault("lose") /\ node' = node /\ token' = token /\ past' = past
        /\ data' \subseteq data
    BY <1>1 DEF LoseData
  <2>2. DataInv' /\ QueuesInv' /\ DeliveredInv' /\ Waiting' = Waiting
    BY <2>1, FaultKeepsTexts, LossFlow
  <2>3. Tokens' = Tokens
    BY <2>1 DEF Tokens
  <2>4. Holder' = Holder
    BY <2>1, <2>3 DEF Holder
  <2>5. AtMostOneToken' /\ PostedInv'
    BY <2>1, <2>3 DEF PatientInv, AtMostOneToken, PostedInv
  <2>6. QED
    BY <2>1, <2>2, <2>4, <2>5, ServiceStutters DEF PatientStep, PatientInv
<1>2. ASSUME NEW n \in Machines, LoseToken(n)
      PROVE  PatientStep
  <2>1. /\ Fault("lose") /\ token[n] > 0 /\ node' = node /\ data' = data
        /\ past'.typed = past.typed /\ past'.delivered = past.delivered
    BY <1>2 DEF LoseToken, RingInv, Past_ok
  <2>2. DataInv' /\ QueuesInv' /\ DeliveredInv' /\ Waiting' = Waiting
    BY <2>1, FaultKeepsTexts, LossFlow
  <2>3. Tokens = 1 /\ Holder = n
    BY <2>1, HolderNow DEF PatientInv, AtMostOneToken
  <2>4. Tokens' = 0
    BY <1>2, <2>3, LoseTokenStep
  <2>5. Holder' = 0
    BY <2>4 DEF Holder
  <2>6. AtMostOneToken' /\ PostedInv'
    BY <2>1, <2>3, <2>4 DEF PatientInv, AtMostOneToken, PostedInv
  <2>7. [Service!Next]_(Service!vars)
    BY <2>1, <2>2, <2>3, <2>5, ServiceLoses
  <2>8. QED
    BY <2>2, <2>6, <2>7 DEF PatientStep, PatientInv
<1>3. QED
  BY <1>1, <1>2

\* Nobody adds tokens or DATA.
LEMMA NothingAdded ==
  ASSUME PatientRing, RingInv, NEW kind \in {"add", "duplicate"}
  PROVE  ~Fault(kind)
BY DEF PatientRing, RingInv, Budget_ok, Fault

\* Every step of a patient ring keeps the invariant, and is a step of the service.
LEMMA PatientStepAlways ==
  ASSUME PatientRing, RingInv, PatientInv, [Next]_vars
  PROVE  PatientStep
<1>1. RingInv'
  BY RingInvStep
<1>2. ASSUME NEW n \in Machines, System(n)
      PROVE  PatientStep
  <2>1. CASE RxData(n)
    <3>1. PICK d \in data : d.to = n /\ Reads(n, d.frame, {d}) /\ budget' = budget
      BY <2>1 DEF RxData
    <3>2. QED
      BY <1>1, <3>1, RxDataServes
  <2>2. CASE RxToken(n) \/ TimerForwardToken(n) \/ TimerDataReturnTimeout(n)
    BY <1>1, <2>2, RxTokenServes, TimerForwardTokenServes, TimerDataReturnTimeoutServes
  <2>3. CASE MonitorThread(n) \/ MonTokenTimeout(n)
    BY <1>1, <2>3, MonitorThreadServes, MonTokenTimeoutServes
  <2>4. QED
    BY <1>2, <2>1, <2>2, <2>3 DEF System
<1>3. ASSUME NEW n \in Machines, Users(n)
      PROVE  PatientStep
  <2>1. ~CmdAddToken(n)
    BY NothingAdded DEF CmdAddToken
  <2>2. QED
    BY <1>1, <1>3, <2>1, CmdSendServes, CmdRemoveTokenServes DEF Users
<1>4. ASSUME NEW n \in Machines, Network(n)
      PROVE  PatientStep
  <2>1. ~DuplicateToken(n) /\ ~DuplicateData(n)
    BY NothingAdded DEF DuplicateToken, DuplicateData
  <2>2. QED
    BY <1>1, <1>4, <2>1, LossServes DEF Network
<1>5. CASE LoseData
  BY <1>1, <1>5, LossServes
<1>6. CASE UNCHANGED vars
  <2>1. node' = node /\ token' = token /\ data' = data /\ past' = past /\ budget' = budget
    BY <1>6 DEF vars
  <2>2. DataInv' /\ QueuesInv' /\ DeliveredInv' /\ Waiting' = Waiting
    BY <2>1, LossFlow
  <2>3. Tokens' = Tokens
    BY <2>1 DEF Tokens
  <2>4. Holder' = Holder
    BY <2>1, <2>3 DEF Holder
  <2>5. AtMostOneToken' /\ PostedInv'
    BY <2>1, <2>3 DEF PatientInv, AtMostOneToken, PostedInv
  <2>6. QED
    BY <2>1, <2>2, <2>4, <2>5, ServiceStutters DEF PatientStep, PatientInv
<1>7. QED
  BY <1>2, <1>3, <1>4, <1>5, <1>6 DEF Next

\* The initial states of a ring keep the invariant, and are those of the service.
LEMMA InitPatientInv ==
  ASSUME Init
  PROVE  PatientInv /\ Service!Init
<1>1. /\ RingInv /\ Tokens = 1
      /\ \A n \in Machines :
              /\ node[n].has_token = FALSE /\ node[n].waiting = FALSE /\ node[n].queue = <<>>
              /\ node[n].tokens_duplicados = 0 /\ node[n].mon_posted = FALSE
      /\ token = [n \in Machines |-> IF n = Successor(Machines, Controller) THEN 1 ELSE 0]
  BY InitFacts, InitRingInv
<1>2. data = {} /\ past.typed = 0 /\ past.delivered = [k \in Numbers |-> 0]
  BY DEF Init
<1>3. AtMostOneToken /\ PostedInv /\ DataInv
  BY <1>1, <1>2 DEF AtMostOneToken, PostedInv, DataInv
<1>4. QueuesInv
  <2>1. 0 <= Len(budget.texts)
    BY <1>1 DEF RingInv, Budget_ok
  <2>2. QED
    BY <1>1, <1>2, <2>1 DEF QueuesInv
<1>5. DeliveredInv
  BY <1>1, <1>2 DEF DeliveredInv
<1>6. Holder = Successor(Machines, Controller)
  <2> DEFINE a == Successor(Machines, Controller)
  <2>1. a \in Machines
    BY ControllerIsMachine, MachinesAreNaturals, SuccessorIsMember
  <2>2. token[a] > 0
    BY <1>1, <2>1
  <2> HIDE DEF a
  <2>3. Holder = a
    BY <1>1, <2>1, <2>2, HolderNow
  <2>4. QED
    BY <2>3 DEF a
<1>7. Waiting = [m \in Machines |-> <<>>]
  <2>1. \A m \in Machines : Nos(node[m].queue) = <<>>
    BY <1>1 DEF Nos
  <2>2. Waiting = [m \in Machines |-> Nos(node[m].queue)]
    BY DEF Waiting, Nos
  <2>3. QED
    BY <2>1, <2>2
<1>8. Service!Init
  <2>1. Holder = Service!Successor(Machines, Service!ControllerApelido(Machines))
    BY <1>6, SameSuccessor DEF Service!Next_of
  <2>2. QED
    BY <1>2, <1>7, <2>1 DEF Service!Init
<1>9. QED
  BY <1>3, <1>4, <1>5, <1>8 DEF PatientInv

-----------------------------------------------------------------------------
\* Theorems

\* In a patient ring the controller takes the token for lost only when it is,
\* the only DATA is the one its origin waits for, and a message is delivered
\* at most once.
THEOREM PatientInvariant ==
  ASSUME PatientRing
  PROVE  Spec => []PatientInv
<1>1. Init => PatientInv
  BY InitPatientInv
<1>2. RingInv /\ PatientInv /\ [Next]_vars => PatientInv'
  BY PatientStepAlways DEF PatientStep
<1>3. QED
  BY <1>1, <1>2, RingInvariant, PTL DEF Spec

\* There is one token at most, held or in flight: the controller regenerates
\* (_on_mon_token_timeout) only a token that is gone.
THEOREM OneTokenAtMost ==
  ASSUME PatientRing
  PROVE  Spec => []AtMostOneToken
<1>1. PatientInv => AtMostOneToken
  BY DEF PatientInv
<1>2. QED
  BY <1>1, PatientInvariant, PTL

\* DATA of two machines is never on the ring (_send_data_packet).
THEOREM AccessIsExclusive ==
  ASSUME PatientRing
  PROVE  Spec => []MediumExclusive
<1>1. PatientInv => MediumExclusive
  BY DEF PatientInv, DataInv, MediumExclusive
<1>2. QED
  BY <1>1, PatientInvariant, PTL

\* A message arrives intact at most once: the only retransmission
\* (_on_rx_data, NAK) is of a message that did not.
THEOREM DeliveredOnce ==
  ASSUME PatientRing
  PROVE  Spec => []AtMostOnceDelivery
<1>1. PatientInv => AtMostOnceDelivery
  BY DEF PatientInv, DeliveredInv, AtMostOnceDelivery
<1>2. QED
  BY <1>1, PatientInvariant, PTL

\* Messages keep their numbers and their texts, though two may have the same
\* text: a round is over before another one begins, so that what ends it is
\* its own DATA (_on_rx_data).
THEOREM PatientMessages ==
  ASSUME PatientRing
  PROVE  Spec => []MessagesInv
<1>1. Init => MessagesInv
  BY InitMessages
<1>2. PatientInv => RoundsOwnData
  BY DEF PatientInv, DataInv, RoundsOwnData
<1>3. RingInv /\ PatientInv /\ MessagesInv /\ [Next]_vars => MessagesInv'
  BY <1>2, MessagesInvStep
<1>4. QED
  BY <1>1, <1>3, RingInvariant, PatientInvariant, PTL DEF Spec

\* A message concluded with ACK has arrived intact at its destination, though
\* two messages may have the same text (_on_rx_data).
THEOREM PatientAcksAreTrue ==
  ASSUME PatientRing
  PROVE  Spec => []AckMeansDelivered
<1>1. MessagesInv => AckMeansDelivered
  BY DEF MessagesInv, AckMeansDelivered
<1>2. QED
  BY <1>1, PatientMessages, PTL

\* No message is concluded by the DATA of another one, though two may have the
\* same text: with timeouts that are long enough no return is late.
THEOREM PatientNothingMixedUp ==
  ASSUME PatientRing
  PROVE  Spec => []NoMixUp
<1>1. MessagesInv => NoMixUp
  BY DEF MessagesInv, NoMixUp
<1>2. QED
  BY <1>1, PatientMessages, PTL

\* The initial states of a patient ring are those of the service, and every
\* step is a step of the service or changes nothing of what it speaks of.
THEOREM StepsOfTheService ==
  ASSUME PatientRing
  PROVE  Spec => Service!Init /\ [][Service!Next]_(Service!vars)
<1>1. Init => Service!Init
  BY InitPatientInv
<1>2. RingInv /\ PatientInv /\ [Next]_vars => [Service!Next]_(Service!vars)
  BY PatientStepAlways DEF PatientStep
<1>3. QED
  BY <1>1, <1>2, RingInvariant, PatientInvariant, PTL DEF Spec
=============================================================================
