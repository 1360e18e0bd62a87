----------------------------- MODULE RingTable -----------------------------
(***************************************************************************)
(* The table of members one machine keeps (class Ring of                   *)
(* ring/network/discovery.py) as members come and go, with the successor   *)
(* and the controller computed as the code does, by sorting the table.     *)
(* The other modules use the closed forms of Topology.                     *)
(***************************************************************************)
EXTENDS Sequences, Topology

CONSTANTS
  Apelido,  \* nicknames
  Me        \* the machine that keeps the table

ASSUME RingTableAssumption == Apelido \subseteq Nat /\ IsFiniteSet(Apelido) /\ Me \in Apelido

VARIABLE members

\* Ring.order: the i-th entry of the sorted table has i - 1 entries before it.
Order == [i \in 1 .. Cardinality(members) |->
            CHOOSE ap \in members : Cardinality({m \in members : m < ap}) = i - 1]

\* Mutant: the last member does not wrap to the first one.
CodedSuccessorNoWrap(ap) ==
  LET i == CHOOSE i \in DOMAIN Order : Order[i] = ap
  IN Order[IF i = Len(Order) THEN i ELSE i + 1]

\* Ring.successor, the entry after the first one with this nickname, and
\* Ring.controller_apelido, as they are coded.
CodedSuccessor(ap) ==
  LET i == CHOOSE i \in DOMAIN Order : Order[i] = ap
  IN Order[(i % Len(Order)) + 1]
CodedController == Order[1]

\* Node.start enters the machine itself.
Init == members = {Me}

\* Ring.update
UpdateEntry(ap) == members' = members \cup {ap}

\* Ring.remove, which Node._remove_member never calls for the machine itself.
RemoveEntry(ap) == ap # Me /\ members' = members \ {ap}

Next == \E ap \in Apelido : UpdateEntry(ap) \/ RemoveEntry(ap)

Spec == Init /\ [][Next]_members

-----------------------------------------------------------------------------
\* The closed forms of Topology are what the code computes.
ClosedFormsAgree ==
  /\ \A ap \in members : Successor(members, ap) = CodedSuccessor(ap)
  /\ ControllerApelido(members) = CodedController

\* The successors of a table form one cycle through all its members: what is
\* passed from successor to successor visits everybody before it comes back.
OneCycle ==
  \A ap \in members :
    LET after[k \in 0 .. Cardinality(members)] ==
          IF k = 0 THEN ap ELSE CodedSuccessor(after[k - 1])
    IN /\ {after[k] : k \in 1 .. Cardinality(members)} = members
       /\ after[Cardinality(members)] = ap

\* When a member comes or goes, at most one of the others gets another
\* successor: a change of membership redirects one machine, not the ring.
OneRedirected ==
  [][Cardinality({ap \in members \cap members' :
                    Successor(members, ap) # Successor(members', ap)}) <= 1]_members
=============================================================================
