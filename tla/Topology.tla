------------------------------ MODULE Topology ------------------------------
(***************************************************************************)
(* The class Ring of ring/network/discovery.py: the set of members a       *)
(* machine knows, the successor of a member and the controller.            *)
(*                                                                         *)
(* A member is a nickname (apelido).  The code only ever compares          *)
(* nicknames by their alphabetical order, so a nickname is a natural       *)
(* number and the order of the ring is <.  The address (ip, port) kept     *)
(* beside a nickname is left out: a datagram addressed to a member reaches *)
(* the machine of that nickname or nobody.                                 *)
(***************************************************************************)
EXTENDS Integers, FiniteSets, FiniteSetsExt

\* The members after `me' in alphabetical order.
After(members, me) == {m \in members : me < m}

\* Mutant: the smallest other member, whatever the order.
SuccessorUnordered(members, me) ==
  IF members = {me} THEN me ELSE Min(members \ {me})

\* Ring.successor: the next member in the order, the first one after the
\* last.  A machine is a member of its own ring from start() on.
Successor(members, me) ==
  IF After(members, me) # {} THEN Min(After(members, me)) ELSE Min(members)

\* Ring.controller_apelido and Ring.is_controller: the smallest nickname.
ControllerApelido(members) == Min(members)
IsController(members, me) == ControllerApelido(members) = me

\* Node._is_alone: the successor of this machine is itself.
IsAlone(members, me) == Successor(members, me) = me

\* The answer of Ring.update, the address comparison left out.
IsNew(members, ap) == ap \notin members
=============================================================================
