---------------------------- MODULE MCTimedRing ----------------------------
(***************************************************************************)
(* TimedRing with the durations of class Node: discovery_window 6 s,       *)
(* presence_interval 2 s, member_timeout 6 s, data_quiet_period 0.75 s.    *)
(***************************************************************************)
EXTENDS TimedRing
CONSTANT t1
MCText == {t1}

Quiet(boot) ==
  [boot |-> boot, starts |-> 0, leaves |-> 0, sends |-> 0, injects |-> 0, joins |-> 0,
   misses |-> 0]

\* Two machines join one that has just started; the smallest one joins two
\* others, and one of them leaves; one of three leaves and comes back, or
\* leaves and another one misses a round of presence; one of two leaves the
\* other one alone, and comes back.
MCChurn ==
  {[Quiet({3}) EXCEPT !.starts = 2],
   [Quiet({2, 3}) EXCEPT !.starts = 1, !.leaves = 1],
   [Quiet({1, 2, 3}) EXCEPT !.starts = 1, !.leaves = 1],
   [Quiet({1, 2, 3}) EXCEPT !.leaves = 1, !.misses = 1],
   [Quiet({1, 2}) EXCEPT !.starts = 1, !.leaves = 1]}

\* Of a message, an added token and a departure, any two at once; or a token
\* is added while presence is asked for.
MCTraffic ==
  {[Quiet({1, 2, 3}) EXCEPT !.leaves = 1, !.sends = 1],
   [Quiet({1, 2, 3}) EXCEPT !.leaves = 1, !.injects = 1],
   [Quiet({2, 3}) EXCEPT !.sends = 1, !.injects = 1],
   [Quiet({1, 2, 3}) EXCEPT !.injects = 1, !.joins = 1]}

\* One of three machines leaves.
MCLeave == {[Quiet({1, 2, 3}) EXCEPT !.leaves = 1]}

\* Three machines start, and nothing else happens.
MCStarts == {[Quiet({}) EXCEPT !.starts = 3]}
=============================================================================
