------------------------------- MODULE Names -------------------------------
(***************************************************************************)
(* What machines make of nicknames.  Two machines are launched, each with  *)
(* a configuration file of its own, and in local mode with one peers file, *)
(* which is written line by line.                                          *)
(***************************************************************************)
EXTENDS Configuration

CONSTANTS
  ConfigFiles,  \* the configuration files
  PeerLines,    \* the lines of peers files
  Addresses,    \* the addresses machines announce
  MaxPeers      \* bound: lines of the peers file

ASSUME NamesFiles == \A f \in ConfigFiles : f \in Seq(Seq(Symbols))
ASSUME NamesPresence ==
  /\ {P_DISCOVER, P_HELLO} \subseteq Symbols \ {SEP}
  /\ Addresses \subseteq Symbols \ {SEP, NUL}

VARIABLES
  configs,  \* the configuration files of the two machines
  peersFile \* the peers file of both, None in lan mode

LaunchInit ==
  /\ configs \in ConfigFiles \X ConfigFiles
  /\ peersFile \in {None, <<>>}

AddPeer ==
  /\ peersFile # None
  /\ Len(peersFile) < MaxPeers
  /\ \E line \in PeerLines : peersFile' = Append(peersFile, line)
  /\ UNCHANGED configs

LaunchSpec == LaunchInit /\ [][AddPeer]_<<configs, peersFile>>

Machine(i) == Launch(configs[i], peersFile)

-----------------------------------------------------------------------------
\* Supressao de eco proprio: however its nickname is spelled in the files, a
\* machine that was launched knows its own DISCOVER when it comes back
\* (_from_lines, parse, on_datagram).
OwnEchoIgnored ==
  \A i \in 1 .. 2 :
    LET m == Machine(i)
    IN m # None =>
         \A ip \in Addresses : Hears(m, BuildPresence(P_DISCOVER, m.apelido, <<ip>>)) = None

\* Two launched machines of different nicknames hear each other, by the
\* nickname the other one calls itself, at the address the other one is at:
\* its announced address and the port of the ring, or in local mode the line
\* of the peers file (_addr_for, _parse_peers).
PeersHeard ==
  LET m == Machine(1)
      other == Machine(2)
      places(ip) ==
        IF peersFile = None THEN {<< <<ip>>, 6000 >>}
        ELSE {PeerPlace(line) : line \in {l \in Range(peersFile) :
                                            Counts(l) /\ PeerName(l) = other.apelido}}
  IN m # None /\ other # None /\ m.apelido # other.apelido =>
       \A ip \in Addresses : \E place \in places(ip) :
         Hears(m, BuildPresence(P_HELLO, other.apelido, <<ip>>))
           = [apelido |-> other.apelido, addr |-> place]
=============================================================================
