--------------------------- MODULE Configuration ---------------------------
(***************************************************************************)
(* ring/config.py and main.py: the two files a machine is launched with,   *)
(* and what it then makes of the presence of others (Node._addr_for,       *)
(* Node.on_datagram).                                                      *)
(*                                                                         *)
(* A file is a sequence of lines, a line a sequence of symbols as in       *)
(* Packets.  The text of a number or of an address is one symbol.          *)
(***************************************************************************)
EXTENDS Packets, Integers, TLC

CONSTANTS
  BLANK, HASH,  \* the blank, and the sign that begins a comment
  Ascii,        \* the symbols that are ASCII
  Number,       \* what float() and int() make of the symbols they accept
  Infinite,     \* the numbers that are not finite
  None          \* the file is refused

ASSUME ConfigSymbols ==
  /\ {BLANK, HASH, SEP} \subseteq Ascii
  /\ Ascii \cup DOMAIN Number \subseteq Symbols
  /\ Number \in [DOMAIN Number -> Int] /\ Infinite \subseteq Int

-----------------------------------------------------------------------------
\* Lines

\* line.strip()
Strip(line) ==
  LET ink == {i \in DOMAIN line : line[i] # BLANK}
  IN IF ink = {} THEN <<>> ELSE SubSeq(line, Min(ink), Max(ink))

\* line.split()
Words(line) ==
  LET ink == {i \in DOMAIN line : line[i] # BLANK}
      first == SetToSortSeq({i \in ink : i - 1 \notin ink}, <)
      last == SetToSortSeq({i \in ink : i + 1 \notin ink}, <)
  IN [k \in DOMAIN first |-> SubSeq(line, first[k], last[k])]

\* Mutant: the nickname is kept as it is spelled in the file.
NicknameAsTyped(word) ==
  IF word # <<>> /\ SEP \notin Range(word) /\ Range(word) \subseteq Ascii THEN word ELSE None

\* The nickname a word stands for, tested in its upper case.
Nickname(word) ==
  LET apelido == Normalised(word)
  IN IF apelido # <<>> /\ SEP \notin Range(apelido) /\ Range(apelido) \subseteq Ascii
     THEN apelido ELSE None

IsNumber(word) == Len(word) = 1 /\ Head(word) \in DOMAIN Number
Value(word) == Number[Head(word)]

-----------------------------------------------------------------------------
\* Files

Useful(lines) == {i \in DOMAIN lines : Strip(lines[i]) # <<>>}
UsefulLine(lines, k) ==
  Strip(lines[CHOOSE i \in Useful(lines) : Cardinality({j \in Useful(lines) : j < i}) = k - 1])

\* _from_lines: the first five lines that are not blank
FromLines(lines) ==
  LET number(k) == Value(UsefulLine(lines, k))
      apelido == Nickname(UsefulLine(lines, 1))
  IN IF /\ Cardinality(Useful(lines)) >= 5
        /\ apelido # None
        /\ \A k \in 2 .. 5 : IsNumber(UsefulLine(lines, k)) /\ number(k) \notin Infinite
        /\ number(2) > 0
        /\ number(3) \in 0 .. 100
        /\ number(4) > 0
        /\ number(5) >= 0
     THEN [apelido |-> apelido, token_time |-> number(2), error_prob |-> number(3),
           token_timeout |-> number(4), min_token_interval |-> number(5)]
     ELSE None

\* A line of the peers file that is neither blank nor a comment, and one that
\* is well formed: nickname, ip, port.
Counts(line) == Words(line) # <<>> /\ Head(Head(Words(line))) # HASH
IsPeer(line) ==
  LET words == Words(line)
  IN /\ Len(words) = 3
     /\ Nickname(words[1]) # None
     /\ IsNumber(words[3]) /\ Value(words[3]) \in 1 .. 65535

PeerName(line) == Nickname(Words(line)[1])
PeerPlace(line) == <<Words(line)[2], Value(Words(line)[3])>>

\* _parse_peers: one bad line, or a nickname twice, and the file is refused.
ParsePeers(lines) ==
  LET entries == {i \in DOMAIN lines : Counts(lines[i])}
  IN IF /\ \A i \in entries : IsPeer(lines[i])
        /\ \A i, j \in entries : PeerName(lines[i]) = PeerName(lines[j]) => i = j
     THEN [apelido \in {PeerName(lines[i]) : i \in entries} |->
             PeerPlace(lines[CHOOSE i \in entries : PeerName(lines[i]) = apelido])]
     ELSE None

\* main: `peersFile' is None in lan mode.  In local mode a machine must be
\* in its own peers file.
Launch(configFile, peersFile) ==
  LET cfg == FromLines(configFile)
      peers == IF peersFile = None THEN <<>> ELSE ParsePeers(peersFile)
  IN IF \/ cfg = None
        \/ peers = None
        \/ peersFile # None /\ cfg.apelido \notin DOMAIN peers
     THEN None
     ELSE [apelido |-> cfg.apelido, mode |-> IF peersFile = None THEN "lan" ELSE "local",
           peers |-> peers]

-----------------------------------------------------------------------------
\* Presence, at a machine m that was launched

\* Mutant: the address in the datagram is believed in both modes.
AddrForAnnounced(m, apelido, ip) == <<ip, 6000>>

\* _addr_for, of a member that can be located at all
Located(m, apelido) == m.mode = "lan" \/ apelido \in DOMAIN m.peers
AddrFor(m, apelido, ip) == IF m.mode = "lan" THEN <<ip, 6000>> ELSE m.peers[apelido]

\* on_datagram: who announced itself, and where it is; None if it is m
\* itself, or nowhere.
Hears(m, datagram) ==
  LET p == Parse(datagram)
  IN IF /\ p.type \in {"DISCOVER", "HELLO"}
        /\ p.apelido # m.apelido
        /\ Located(m, p.apelido)
     THEN [apelido |-> p.apelido, addr |-> AddrFor(m, p.apelido, p.ip)]
     ELSE None
=============================================================================
