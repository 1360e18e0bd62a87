------------------------------ MODULE Packets ------------------------------
(***************************************************************************)
(* ring/protocol/packets.py: how a datagram is built, split and read.      *)
(*                                                                         *)
(* A datagram is a sequence of symbols.  The separator and the NUL byte    *)
(* are symbols, because the code looks for them; any other field or byte   *)
(* is one symbol, because the code never looks into it.  Decoding replaces *)
(* nothing here, as all symbols are ASCII, and strip() finds no blanks.    *)
(***************************************************************************)
EXTENDS Naturals, FiniteSets, Sequences, SequencesExt

CONSTANTS
  SEP,      \* _SEP
  NUL,      \* the byte a C++ sender appends
  Symbols,  \* the symbols datagrams are made of
  Upper     \* str.upper() on symbols: the spelling machines compare

P_DISCOVER == "10"
P_HELLO == "20"
P_TOKEN == "1000"
P_DATA == "2000"

CTRL_NONE == "maquinainexistente"
CTRL_ACK == "ACK"
CTRL_NAK == "NAK"

ASSUME PacketSymbols == SEP # NUL /\ {SEP, NUL} \subseteq Symbols
ASSUME PacketUpper ==
  Upper \in [Symbols -> Symbols] /\ \A s \in Symbols : Upper[Upper[s]] = Upper[s]

Normalised(field) == [i \in DOMAIN field |-> Upper[field[i]]]

-----------------------------------------------------------------------------
\* bytes.split and bytes.join with the separator

SepAt(d) == {i \in DOMAIN d : d[i] = SEP}
Cut(d, k) == CHOOSE i \in SepAt(d) : Cardinality({j \in SepAt(d) : j <= i}) = k

\* d.split(SEP, max): at most max divisions, from the left.
Split(d, max) ==
  LET n == IF Cardinality(SepAt(d)) < max THEN Cardinality(SepAt(d)) ELSE max
      cuts == [k \in 0 .. n + 1 |-> IF k = 0 THEN 0 ELSE IF k = n + 1 THEN Len(d) + 1 ELSE Cut(d, k)]
  IN [k \in 1 .. n + 1 |-> SubSeq(d, cuts[k - 1] + 1, cuts[k] - 1)]

Join(parts) ==
  LET upTo[k \in DOMAIN parts] ==
        IF k = 1 THEN parts[1] ELSE upTo[k - 1] \o <<SEP>> \o parts[k]
  IN upTo[Len(parts)]

-----------------------------------------------------------------------------
\* Building

BuildPresence(prefix, apelido, ip) == Join(<< <<prefix>>, apelido, ip >>)
BuildToken == <<P_TOKEN>>
BuildData(origem, destino, controle, crc, message) ==
  Join(<< <<P_DATA>>, origem, destino, controle, crc, message >>)

\* Mutant: the datagram is divided at every separator, and six parts kept.
SetControleCuts(raw, controle) ==
  LET parts == Split(raw, Len(raw))
  IN IF Len(parts) < 6 THEN raw
     ELSE Join([[k \in 1 .. 6 |-> parts[k]] EXCEPT ![4] = <<controle>>])

\* set_controle, on a whole datagram
SetControle(raw, controle) ==
  LET parts == Split(raw, 5)
  IN IF Len(parts) < 6 THEN raw ELSE Join([parts EXCEPT ![4] = <<controle>>])

-----------------------------------------------------------------------------
\* Reading

\* One NUL at the end is dropped: a C++ sender adds it.
WithoutNul(d) == IF d # <<>> /\ Last(d) = NUL THEN Front(d) ELSE d

Unknown(raw) == [type |-> "UNKNOWN", raw |-> raw]

ParsePresence(raw) ==
  LET parts == Split(raw, 2)
  IN IF Len(parts) < 3 THEN Unknown(raw)
     ELSE [type |-> IF parts[1] = <<P_DISCOVER>> THEN "DISCOVER" ELSE "HELLO",
           apelido |-> Normalised(parts[2]), ip |-> parts[3], raw |-> raw]

\* Mutant: a message ends at its first separator.
ParseDataCuts(raw) ==
  LET parts == Split(raw, Len(raw))
  IN IF Len(parts) < 6 THEN Unknown(raw)
     ELSE [type |-> "DATA",
           origem |-> Normalised(parts[2]), destino |-> Normalised(parts[3]),
           controle |-> parts[4], crc |-> parts[5], message |-> parts[6],
           raw |-> raw]

ParseData(raw) ==
  LET parts == Split(raw, 5)
  IN IF Len(parts) < 6 THEN Unknown(raw)
     ELSE [type |-> "DATA",
           origem |-> Normalised(parts[2]), destino |-> Normalised(parts[3]),
           controle |-> parts[4], crc |-> parts[5], message |-> parts[6],
           raw |-> raw]

\* parse
Parse(d) ==
  LET raw == WithoutNul(d)
      prefix == Split(raw, 1)[1]
  IN CASE raw = BuildToken -> [type |-> "TOKEN", raw |-> raw]
       [] SepAt(raw) # {} /\ prefix \in {<<P_DISCOVER>>, <<P_HELLO>>} -> ParsePresence(raw)
       [] SepAt(raw) # {} /\ prefix = <<P_DATA>> -> ParseData(raw)
       [] OTHER -> Unknown(raw)

=============================================================================
