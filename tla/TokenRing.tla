----------------------------- MODULE TokenRing -----------------------------
(***************************************************************************)
(* A ring of machines that all run this program, from the moment at which  *)
(* they know each other and the controller has just generated the first    *)
(* token.  Machines interact only by UDP datagrams, which the network may  *)
(* lose, duplicate and reorder.  While everybody is up, DISCOVER and HELLO *)
(* only refresh what everybody knows, so presence is left to the modules   *)
(* about membership.                                                       *)
(*                                                                         *)
(* There is no clock.  With Patient the configured durations fit the ring: *)
(* a timeout expires only when what it waits for cannot come any more, and *)
(* a lone token never comes back within min_token_interval.  Without       *)
(* Patient, timeouts and comparisons of instants go either way.            *)
(***************************************************************************)
EXTENDS NodeHandlers

CONSTANTS
  Machines,   \* the machines of the ring; the other nicknames are nobody's
  Patient,    \* whether the configured durations fit the ring
  Scenarios   \* bound: what users and the network do, one per behaviour

ASSUME MachinesAssumption ==
  Machines \subseteq Apelido \ {0} /\ Cardinality(Machines) > 1
ASSUME PatientAssumption == Patient \in BOOLEAN
\* The bound leaves room for the first token, which is of epoch 1.
ASSUME FirstEpochAssumption == MaxEpoch > 0
\* The texts of the messages users send, in order, and the destinations they
\* choose from; the kinds of faults, which the network or users commit, and
\* how many of them in all.
ASSUME ScenariosAssumption ==
  Scenarios \subseteq [texts : Seq(Text), destinos : SUBSET Destino,
                      faults : SUBSET {"lose", "duplicate", "add", "remove"}, left : Nat]

VARIABLES
  node,    \* the state of every machine
  token,   \* tokens in flight, by the machine they are sent to
  data,    \* DATA in flight
  budget,  \* the scenario, with the number of faults left
  past     \* history: what the properties need to know of the past

vars == <<node, token, data, budget, past>>

Numbers == UNION {DOMAIN s.texts : s \in Scenarios}  \* of messages
Controller == ControllerApelido(Machines)

-----------------------------------------------------------------------------
\* The ring, formed

\* A machine that knows the whole ring and has evaluated the first token.
Joined(n) == [RecomputeRole([StartedNode(n) EXCEPT !.members = Machines])
                EXCEPT !.eval_armed = FALSE, !.out = NoOut]

First(n) == IF n = Controller THEN OnEvalFirstToken(Joined(n)) ELSE Joined(n)

Init ==
  /\ node = [n \in Machines |-> [First(n) EXCEPT !.out = NoOut]]
  /\ token = [n \in Machines |-> IF n \in First(Controller).out.token THEN 1 ELSE 0]
  /\ data = {}
  /\ budget \in Scenarios
  /\ past = [typed |-> 0,                            \* messages typed
             added |-> 1,                            \* tokens put on the ring ...
             taken |-> 0,                            \* ... and taken off it, except by the detectors
             delivered |-> [k \in Numbers |-> 0],    \* intact arrivals at the destination
             acked |-> {}]                           \* <<message concluded, message returned>>

-----------------------------------------------------------------------------
\* What is on the ring

\* What the machines have of something, in all.
Total(f) == FoldSet(LAMBDA n, sum : f[n] + sum, 0, Machines)

Tokens == Total([n \in Machines |-> token[n] + IF node[n].has_token THEN 1 ELSE 0])

\* DATA of machine n that is still going round
Circulating(n) == {d \in data : d.frame.origem = n}

-----------------------------------------------------------------------------
\* Machine n becomes s, having consumed `eaten' tokens and the DATA in `read';
\* what it sent is on its way.
Becomes(n, s, eaten, read) ==
  /\ s.epoch <= MaxEpoch
  /\ node' = [node EXCEPT ![n] = [s EXCEPT !.out = NoOut]]
  /\ token' = [m \in Machines |-> token[m] - (IF m = n THEN eaten ELSE 0)
                                           + (IF m \in s.out.token THEN 1 ELSE 0)]
  /\ data' = (data \ read) \cup s.out.data

\* One more fault of this kind.
Fault(kind) ==
  /\ kind \in budget.faults
  /\ budget.left > 0
  /\ budget' = [budget EXCEPT !.left = @ - 1]

\* A pending removal takes the token of machine n at the end of its round.
Taken(n, ends) == IF ends /\ node[n].remove_token_pending THEN 1 ELSE 0

RxToken(n) ==
  \E soon, hit \in BOOLEAN :
    /\ token[n] > 0
    /\ Patient /\ soon => Tokens > 1
    /\ Becomes(n, OnRxToken(node[n], soon, hit), 1, {})
    /\ past' = [past EXCEPT !.taken = @ + Taken(n, TRUE)]
    /\ UNCHANGED budget

Reads(n, f, read) ==
  LET arrives == f.destino = n /\ f.origem # n /\ CrcMatches(f.message, f.crc)
      ends == f.origem = n /\ EndsRound(node[n], f)
      acks == ends /\ f.destino # BROADCAST /\ f.controle = CTRL_ACK
  IN /\ Becomes(n, OnRxData(node[n], f), 0, read)
     /\ past' = [past EXCEPT
          !.delivered = IF arrives THEN [past.delivered EXCEPT ![f.no] = @ + 1] ELSE @,
          !.acked = IF acks THEN @ \cup {<<Head(node[n].queue).no, f.no>>} ELSE @,
          !.taken = @ + Taken(n, ends)]

RxData(n) ==
  \E d \in data :
    /\ d.to = n
    /\ Reads(n, d.frame, {d})
    /\ UNCHANGED budget

TimerForwardToken(n) ==
  \E ep \in 0 .. MaxEpoch, hit \in BOOLEAN :
    /\ node[n].forward_timers[ep] > 0
    /\ Becomes(n, OnTimerForwardToken(node[n], ep, hit), 0, {})
    /\ UNCHANGED <<budget, past>>

TimerDataReturnTimeout(n) ==
  \E attempt \in node[n].return_timers :
    LET ends == attempt = node[n].active_data_attempt /\ node[n].waiting
    IN /\ Patient /\ ends => Circulating(n) = {}
       /\ Becomes(n, OnTimerDataReturnTimeout(node[n], attempt), 0, {})
       /\ past' = [past EXCEPT !.taken = @ + Taken(n, ends)]
       /\ UNCHANGED budget

MonitorThread(n) ==
  /\ MonitorMayFire(node[n])
  /\ ~node[n].mon_posted
  /\ Patient => Tokens = 0 /\ data = {}
  /\ Becomes(n, MonitorFires(node[n]), 0, {})
  /\ UNCHANGED <<budget, past>>

MonTokenTimeout(n) ==
  /\ node[n].mon_posted
  /\ Becomes(n, OnMonTokenTimeout(node[n]), 0, {})
  /\ past' = [past EXCEPT !.added =
                @ + OnMonTokenTimeout(node[n]).tokens_perdidos - node[n].tokens_perdidos]
  /\ UNCHANGED budget

-----------------------------------------------------------------------------
\* Users

CmdSend(n) ==
  /\ past.typed < Len(budget.texts)
  /\ LET no == past.typed + 1
     IN \E destino \in budget.destinos :
          Becomes(n, OnCmdSend(node[n], destino, budget.texts[no], no), 0, {})
  /\ past' = [past EXCEPT !.typed = @ + 1]
  /\ UNCHANGED budget

CmdAddToken(n) ==
  /\ Fault("add")
  /\ Becomes(n, OnCmdAddToken(node[n]), 0, {})
  /\ past' = [past EXCEPT !.added = @ + 1]

CmdRemoveToken(n) ==
  /\ Fault("remove")
  /\ Becomes(n, OnCmdRemoveToken(node[n]), 0, {})
  /\ past' = [past EXCEPT !.taken =
                @ + IF node[n].has_token /\ ~node[n].waiting THEN 1 ELSE 0]

-----------------------------------------------------------------------------
\* The network

LoseToken(n) ==
  /\ Fault("lose") /\ token[n] > 0
  /\ token' = [token EXCEPT ![n] = @ - 1]
  /\ past' = [past EXCEPT !.taken = @ + 1]
  /\ UNCHANGED <<node, data>>

LoseData ==
  /\ Fault("lose")
  /\ \E d \in data : data' = data \ {d}
  /\ UNCHANGED <<node, token, past>>

DuplicateToken(n) ==
  /\ Fault("duplicate") /\ token[n] > 0
  /\ token' = [token EXCEPT ![n] = @ + 1]
  /\ past' = [past EXCEPT !.added = @ + 1]
  /\ UNCHANGED <<node, data>>

\* A duplicated DATA is read once and stays on its way.
DuplicateData(n) ==
  /\ Fault("duplicate")
  /\ \E d \in data : d.to = n /\ Reads(n, d.frame, {})

-----------------------------------------------------------------------------
System(n) ==
  \/ RxToken(n) \/ RxData(n)
  \/ TimerForwardToken(n) \/ TimerDataReturnTimeout(n)
  \/ MonitorThread(n) \/ MonTokenTimeout(n)
Users(n) == CmdSend(n) \/ CmdAddToken(n) \/ CmdRemoveToken(n)
Network(n) == LoseToken(n) \/ DuplicateToken(n) \/ DuplicateData(n)

Next == LoseData \/ \E n \in Machines : System(n) \/ Users(n) \/ Network(n)

Spec == Init /\ [][Next]_vars

\* While a machine has an event to handle or a timer to expire, some machine
\* handles one (the engine loop, the receiver, threading.Timer and the loop
\* of the monitor); users and the network need do nothing.
Fairness == WF_vars(\E n \in Machines : System(n))

FairSpec == Spec /\ Fairness

-----------------------------------------------------------------------------
\* Properties of every ring

TypeOK ==
  /\ node \in [Machines -> NodeStates]
  /\ token \in [Machines -> Nat]
  /\ data \subseteq [to : Machines, frame : Frame]

Duplicados == Total([n \in Machines |-> node[n].tokens_duplicados])

\* Tokens are conserved: only the first generation, a regeneration, a user
\* and the network add tokens, and only removals, losses and the detectors of
\* duplicates take them away.  No handler loses or doubles one in passing.
TokenLedger == Tokens = past.added - past.taken - Duplicados

\* While everybody is up, no machine takes another one for absent, whatever
\* the network does to datagrams (_on_rx_data, "maquinainexistente").
RingIntact == \A n \in Machines : node[n].members = Machines

\* "mensagem entregue com sucesso (ACK)" is true: a message concluded with
\* ACK arrived intact at its destination.
AckMeansDelivered == \A c \in past.acked : past.delivered[c[1]] > 0

\* The round of a message is never ended by the DATA of another one ("para
\* nao concluir a mensagem errada").
NoMixUp == \A c \in past.acked : c[1] = c[2]

-----------------------------------------------------------------------------
\* Properties of rings whose durations fit, while nobody adds tokens

\* There is at most one token, held or in flight: the controller regenerates
\* only a token that is gone.
AtMostOneToken == Tokens <= 1

\* Access to the ring is exclusive: DATA of two machines is never on it.
MediumExclusive == \A d, e \in data : d.frame.origem = e.frame.origem

\* A message arrives intact at most once, retransmissions included.
AtMostOnceDelivery == \A k \in Numbers : past.delivered[k] <= 1

\* Every message is concluded in the end: users type finitely many, and the
\* queues are all empty again and again.
MessagesConclude == []<>(\A n \in Machines : node[n].queue = <<>>)

-----------------------------------------------------------------------------
\* While there is at most one token, the ring implements RingService.

Holder == IF Tokens = 0 THEN 0
          ELSE CHOOSE n \in Machines : node[n].has_token \/ token[n] > 0
Waiting == [n \in Machines |-> [i \in DOMAIN node[n].queue |-> node[n].queue[i].no]]

Service == INSTANCE RingService WITH
  holder <- Holder, waiting <- Waiting, typed <- past.typed, Nowhere <- 0

ImplementsService == Service!Spec
=============================================================================
