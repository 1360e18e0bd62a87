------------------------------ MODULE MCNames ------------------------------
(***************************************************************************)
(* Names, with a few spellings of nicknames, good and bad; or the table of *)
(* one machine changes member by member, with the files of one launch.     *)
(***************************************************************************)
EXTENDS Names, RingTable

\* "l" is a letter outside ASCII whose upper case is in ASCII (the dotless i),
\* "E" one whose upper case is not.
MCSymbols ==
  {"a", "A", "b", "B", "l", "E", "ip", "2", "3", "0", "101", "inf", P_DISCOVER, P_HELLO,
   SEP, NUL, BLANK, HASH}
MCUpper ==
  [s \in MCSymbols |-> CASE s = "a" -> "A" [] s = "b" -> "B" [] s = "l" -> "B" [] OTHER -> s]
MCAscii == MCSymbols \ {"l", "E"}
MCNumber ==
  [s \in {"2", "3", "0", "101", "inf"} |->
     CASE s = "2" -> 2 [] s = "3" -> 3 [] s = "0" -> 0 [] s = "101" -> 101 [] s = "inf" -> 1000000]
MCInfinite == {1000000}

Nicknames ==
  {<<"a">>, <<"B">>, <<BLANK, "b">>, <<"l">>, <<"E">>, <<"A", BLANK, "b">>, <<"a", SEP>>, <<BLANK>>}
Good == << <<"2">>, <<"0">>, <<"2", BLANK>>, <<"0">> >>
Tails == {Good, << <<BLANK>> >> \o Good, << <<"0">>, <<"0">>, <<"2">>, <<"0">> >>,
          << <<"2">>, <<"101">>, <<"2">>, <<"0">> >>, << <<"2">>, <<"0">>, <<"inf">>, <<"0">> >>}
MCConfigFiles ==
  {<<nick>> \o Good : nick \in Nicknames} \cup {<< <<"a">> >> \o tail : tail \in Tails}

MCPeerLines ==
  {<<nick, BLANK, "ip", BLANK, port>> : nick \in {"a", "A", "B", "l"}, port \in {"2", "3"}}
    \cup {<<nick, BLANK, "ip", BLANK, "2">> : nick \in {"E", SEP}}
    \cup {<<"B", BLANK, "ip", BLANK, "0">>}
    \cup {<<BLANK>>, <<BLANK, HASH, "a">>, <<"a", BLANK, "b", BLANK, "ip", BLANK, "2">>}

-----------------------------------------------------------------------------
\* The table of members changes in one launch only: it does not depend on it.
OneLaunch == << << <<"a">> >> \o Good, << <<"B">> >> \o Good >>

MCInit == LaunchInit /\ Init

Membership ==
  /\ configs = OneLaunch /\ peersFile = None
  /\ Next
  /\ UNCHANGED <<configs, peersFile>>

MCNext == (AddPeer /\ UNCHANGED members) \/ Membership
MCSpec == MCInit /\ [][MCNext]_<<configs, peersFile, members>>
=============================================================================
