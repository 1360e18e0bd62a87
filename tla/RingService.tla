---------------------------- MODULE RingService ----------------------------
(***************************************************************************)
(* What a formed ring promises its users, without datagrams, timers or     *)
(* retransmissions: one token goes round in the order of the ring, may get *)
(* lost and is made anew by the controller; a message leaves the queue of  *)
(* its machine only while that machine has the token, in the order of      *)
(* typing, and at most one message leaves per visit of the token.          *)
(***************************************************************************)
EXTENDS Sequences, Topology

CONSTANTS
  Machines, \* the machines of the ring
  QueueMax, \* messages a queue holds
  Nowhere   \* where the token is when it is lost

VARIABLES
  holder,   \* the machine the token is at, or on its way to
  waiting,  \* the messages waiting at every machine, by number
  typed     \* messages typed so far

vars == <<holder, waiting, typed>>

Init ==
  /\ holder = Successor(Machines, ControllerApelido(Machines))
  /\ waiting = [m \in Machines |-> <<>>]
  /\ typed = 0

\* A user types a message; a full queue refuses it.
Type(m) ==
  /\ typed' = typed + 1
  /\ waiting' = IF Len(waiting[m]) < QueueMax
                  THEN [waiting EXCEPT ![m] = Append(@, typed + 1)]
                  ELSE waiting
  /\ UNCHANGED holder

Next_of(m) == Successor(Machines, m)

Pass ==
  /\ holder \in Machines
  /\ holder' = Next_of(holder)
  /\ UNCHANGED <<waiting, typed>>

\* The first message of the holder is concluded; the token goes on, or is
\* removed if somebody asked for it.
Conclude ==
  /\ holder \in Machines
  /\ waiting[holder] # <<>>
  /\ waiting' = [waiting EXCEPT ![holder] = Tail(@)]
  /\ holder' \in {Next_of(holder), Nowhere}
  /\ UNCHANGED typed

Lose ==
  /\ holder \in Machines
  /\ holder' = Nowhere
  /\ UNCHANGED <<waiting, typed>>

Regenerate ==
  /\ holder = Nowhere
  /\ holder' = Next_of(ControllerApelido(Machines))
  /\ UNCHANGED <<waiting, typed>>

Next == Pass \/ Conclude \/ Lose \/ Regenerate \/ \E m \in Machines : Type(m)

\* The token does not stay with a machine, nor lost.
Spec == Init /\ [][Next]_vars /\ WF_vars(Pass \/ Conclude) /\ WF_vars(Regenerate)
=============================================================================
