--------------------------- MODULE OpenNodeProofs ---------------------------
(***************************************************************************)
(* The invariants of OpenNode hold for every set of nicknames, every set of *)
(* texts, every size of the queue and every bound of the model.            *)
(*                                                                         *)
(* The inductive invariant is the invariant of a machine, and that the history *)
(* counts what the machine did; NodeHandlersProofs shows that each handler *)
(* keeps it.                                                               *)
(***************************************************************************)
EXTENDS OpenNode, NodeHandlersProofs

-----------------------------------------------------------------------------
\* The inductive invariant

IInv ==
  /\ MachineInv(node)
  /\ node.epoch <= MaxEpoch
  /\ tries = TriesOf(node)

-----------------------------------------------------------------------------
\* The specification

\* A machine that has just started satisfies the invariant.
LEMMA InitIInv == Init => IInv
<1> SUFFICES ASSUME Init PROVE IInv
  OBVIOUS
<1>1. PICK me \in Me : node = [StartedNode(me) EXCEPT !.out = NoOut]
  BY DEF Init
<1> DEFINE s == StartedNode(me)
<1>2. /\ MachineInv(s) /\ s.epoch = 0
      /\ s.has_token = FALSE /\ s.waiting = FALSE /\ s.queue = <<>>
  BY MeAssumption, StartedFacts
<1> HIDE DEF s
<1>3. NoOut \in Out
  BY DEF NoOut, Out
<1>4. Quiet(s, node)
  BY <1>1, <1>2, <1>3, OutQuiet DEF MachineInv, s
<1>5. MachineInv(node) /\ node.epoch = 0 /\ TriesOf(node) = 0
  BY <1>2, <1>4, QuietInv DEF Quiet, SameToken, SameRound, TriesOf
<1>6. QED
  BY <1>5, MaxEpochAssumption DEF Init, IInv

\* A handler that keeps the invariant is a step that does.
LEMMA BecomeInv ==
  ASSUME IInv, NEW r, Keeps(node, r), Become(r)
  PROVE  IInv'
<1>1. MachineInv(r) /\ Counts(node, r)
  BY DEF Keeps
<1>2. node' = [r EXCEPT !.out = NoOut]
  BY DEF Become
<1>3. NoOut \in Out
  BY DEF NoOut, Out
<1>4. Quiet(r, node')
  BY <1>1, <1>2, <1>3, OutQuiet DEF MachineInv
<1>5. MachineInv(node')
  BY <1>1, <1>4, QuietInv
<1>6. TriesOf(node') = TriesOf(r)
  BY <1>4 DEF TriesOf, Quiet, SameRound
<1>7. tries' = TriesOf(r)
  BY <1>1 DEF Become, Counts, IInv
<1>8. node'.epoch <= MaxEpoch
  BY <1>4 DEF Become, Bounded, Quiet, SameToken
<1>9. QED
  BY <1>5, <1>6, <1>7, <1>8 DEF IInv, TriesOf, MachineInv, RoleInv, QueueInv, RoundInv, TokenInv,
     Alone

\* Any DATA of the environment is a DATA a handler can be given.
LEMMA ArrivingAreFrames == Arriving \subseteq Frame
BY DEF Arriving, Frame

\* Every step of the machine keeps the invariant.
LEMMA NextIInv == IInv /\ [Next]_vars => IInv'
<1> SUFFICES ASSUME IInv, [Next]_vars PROVE IInv'
  OBVIOUS
<1>1. CASE UNCHANGED vars
  BY <1>1 DEF vars, IInv
<1>2. CASE Next
  <2>1. MachineInv(node) /\ node.epoch <= MaxEpoch
    BY DEF IInv
  <2>2. CASE RxDiscover
    <3>1. PICK ap \in Others, hit \in BOOLEAN : Become(OnRxDiscover(node, ap, hit))
      BY <2>2 DEF RxDiscover
    <3>2. QED
      BY <2>1, <3>1, OnRxDiscoverKeeps, BecomeInv DEF Others
  <2>3. CASE RxHello
    <3>1. PICK ap \in Others, hit \in BOOLEAN : Become(OnRxHello(node, ap, hit))
      BY <2>3 DEF RxHello
    <3>2. QED
      BY <2>1, <3>1, UpdateMemberKeeps, BecomeInv DEF Others, OnRxHello
  <2>4. CASE RxToken
    <3>1. PICK soon \in BOOLEAN, hit \in BOOLEAN : Become(OnRxToken(node, soon, hit))
      BY <2>4 DEF RxToken
    <3>2. QED
      BY <2>1, <3>1, OnRxTokenKeeps, BecomeInv
  <2>5. CASE RxData
    <3>1. PICK f \in Arriving : Become(OnRxData(node, f))
      BY <2>5 DEF RxData
    <3>2. QED
      BY <2>1, <3>1, ArrivingAreFrames, OnRxDataKeeps, BecomeInv
  <2>6. CASE TimerForwardToken
    <3>1. PICK ep \in 0 .. MaxEpoch, hit \in BOOLEAN :
            node.forward_timers[ep] > 0 /\ Become(OnTimerForwardToken(node, ep, hit))
      BY <2>6 DEF TimerForwardToken
    <3>2. QED
      BY <2>1, <3>1, OnTimerForwardTokenKeeps, BecomeInv
  <2>7. CASE TimerDataReturnTimeout
    <3>1. PICK attempt \in node.return_timers :
            Become(OnTimerDataReturnTimeout(node, attempt))
      BY <2>7 DEF TimerDataReturnTimeout
    <3>2. attempt \in Nat
      BY <2>1 DEF MachineInv, NodeStates
    <3>3. QED
      BY <2>1, <3>1, <3>2, OnTimerDataReturnTimeoutKeeps, BecomeInv
  <2>8. CASE MonitorThread
    BY <2>1, <2>8, MonitorFiresKeeps, BecomeInv DEF MonitorThread
  <2>9. CASE MonTokenTimeout
    BY <2>1, <2>9, OnMonTokenTimeoutKeeps, BecomeInv DEF MonTokenTimeout
  <2>10. CASE EvalTimer
    BY <2>1, <2>10, EvalTimerFiresKeeps, BecomeInv DEF EvalTimer
  <2>11. CASE EvalFirstToken
    BY <2>1, <2>11, OnEvalFirstTokenKeeps, BecomeInv DEF EvalFirstToken
  <2>12. CASE DiscoveryTick
    <3>1. PICK recent \in BOOLEAN, expired \in SUBSET Others :
            Become(OnDiscoveryTick(node, recent, expired))
      BY <2>12 DEF DiscoveryTick
    <3>2. QED
      BY <2>1, <3>1, OnDiscoveryTickKeeps, BecomeInv
  <2>13. CASE CmdSend
    <3>1. PICK destino \in Destino, text \in Text : Become(OnCmdSend(node, destino, text, 0))
      BY <2>13 DEF CmdSend
    <3>2. QED
      BY <2>1, <3>1, OnCmdSendKeeps, BecomeInv
  <2>14. CASE CmdAddToken
    BY <2>1, <2>14, OnCmdAddTokenKeeps, BecomeInv DEF CmdAddToken
  <2>15. CASE CmdRemoveToken
    BY <2>1, <2>15, OnCmdRemoveTokenKeeps, BecomeInv DEF CmdRemoveToken
  <2>16. QED
    BY <1>2, <2>2, <2>3, <2>4, <2>5, <2>6, <2>7, <2>8, <2>9, <2>10, <2>11, <2>12,
       <2>13, <2>14, <2>15 DEF Next
<1>3. QED
  BY <1>1, <1>2

\* The inductive invariant holds of every behaviour.
THEOREM Invariance == Spec => []IInv
BY InitIInv, NextIInv, PTL DEF Spec

-----------------------------------------------------------------------------
\* What follows from the invariant

\* The head of a queue has been transmitted twice at most.
LEMMA TriesBound ==
  ASSUME NEW s \in NodeStates
  PROVE  TriesOf(s) \in 0 .. 2
BY DEF TriesOf

\* Every part of a machine keeps its type, whatever arrives.
THEOREM TypeCorrect == Spec => []TypeOK
<1>1. IInv => TypeOK
  BY TriesBound DEF IInv, MachineInv, TypeOK
<1>2. QED
  BY <1>1, Invariance, PTL

\* A machine whose DATA is out holds the token.
THEOREM TransmitsWithToken == Spec => []WaitingHoldsToken
<1>1. IInv => WaitingHoldsToken
  BY DEF IInv, MachineInv, RoundInv, WaitingHoldsToken
<1>2. QED
  BY <1>1, Invariance, PTL

\* The DATA that is out is the message a return or a timeout will remove.
THEOREM ConcludesTheHead == Spec => []ActiveIsHead
<1>1. IInv => ActiveIsHead
  BY DEF IInv, MachineInv, RoundInv, ActiveIsHead
<1>2. QED
  BY <1>1, Invariance, PTL

\* A machine that holds the token has an event pending that releases it.
THEOREM TokenIsReleased == Spec => []TokenNotStuck
<1>1. IInv => TokenNotStuck
  BY DEF IInv, MachineInv, RoundInv, TokenInv, TokenNotStuck
<1>2. QED
  BY <1>1, Invariance, PTL

\* A removal the user asked for takes the next token, or the one in use.
THEOREM RemovalIsKept == Spec => []RemovalKept
<1>1. IInv => RemovalKept
  BY DEF IInv, MachineInv, TokenInv, RemovalKept
<1>2. QED
  BY <1>1, Invariance, PTL

\* The monitor is paused exactly while the token is here, and enabled only
\* on a controller that knows of a token.
THEOREM MonitorIsInStep == Spec => []MonitorInStep
<1>1. IInv => MonitorInStep
  BY DEF IInv, MachineInv, RoleInv, TokenInv, MonitorInStep
<1>2. QED
  BY <1>1, Invariance, PTL

\* A message is transmitted at most twice, and correctly the second time.
THEOREM RetransmitsOnce == Spec => []RetransmitOnce
<1>1. IInv => RetransmitOnce
  <2> SUFFICES ASSUME IInv PROVE RetransmitOnce
    OBVIOUS
  <2>1. tries \in 0 .. 2
    BY TriesBound DEF IInv, MachineInv
  <2>2. QED
    BY <2>1 DEF IInv, MachineInv, RoundInv, RetransmitOnce
<1>2. QED
  BY <1>1, Invariance, PTL
=============================================================================
