----------------------------- MODULE MCTokenRing -----------------------------
(***************************************************************************)
(* TokenRing on small instances: machines 1, 2 and 3, and nickname 4 that  *)
(* nobody has.                                                             *)
(***************************************************************************)
EXTENDS TokenRing
CONSTANTS t1, t2

Scenario(texts, destinos, faults, left) ==
  [texts |-> texts, destinos |-> destinos, faults |-> faults, left |-> left]

\* Two messages and a loss; or one message and a removal of the token.
MCPatient == {Scenario(<<t1, t2>>, {3, 4}, {"lose"}, 1),
              Scenario(<<t1>>, {3}, {"remove"}, 1)}

\* Two messages; or one message, to a machine, to nobody or to everybody, and
\* any fault; or one message and two faults of the network.
MCUdp == {Scenario(<<t1, t2>>, {3}, {}, 0),
          Scenario(<<t1>>, {3, 4, BROADCAST}, {"lose", "duplicate", "add", "remove"}, 1),
          Scenario(<<t1>>, {3}, {"lose", "duplicate"}, 2)}

\* The same text twice.
MCSameText == {Scenario(<<t1, t1>>, {3}, {}, 0)}
=============================================================================
