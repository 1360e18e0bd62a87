-------------------------------- MODULE Wire --------------------------------
(***************************************************************************)
(* One message, from the queue of its origin round the ring and back, as   *)
(* the bytes of datagrams: fault injection, the parser at every machine,   *)
(* the answer of the destination and what the origin makes of it.          *)
(*                                                                         *)
(* Machine 0 is the origin and machines 1 .. Hops follow it in the ring.   *)
(* Some of them run programs of other groups, which append a NUL to what   *)
(* they send.  The return timeout expires when the DATA is not on the ring *)
(* any more.                                                               *)
(***************************************************************************)
EXTENDS Packets

CONSTANTS
  Hops,       \* how many other machines the ring has
  Nick,       \* the nickname of every machine, as Upper spells it
  Foreign,    \* the machines that append a NUL
  Spellings,  \* spellings of destinations users type, upper() brings to one
  Texts,      \* the messages users type
  Flips,      \* the symbols a byte of the message may be flipped into
  None,       \* no value
  MaxLoss     \* bound: datagrams that are lost

BROADCAST == "BROADCAST"

ASSUME WirePlaces == Hops \in Nat \ {0} /\ Nick \in [0 .. Hops -> Symbols] /\ Foreign \subseteq 1 .. Hops
ASSUME WireNicknames == \A i \in 0 .. Hops : Upper[Nick[i]] = Nick[i] /\ Nick[i] # SEP
ASSUME WireDestinations == Spellings \subseteq Symbols /\ \A s \in Spellings : Upper[s] # SEP
ASSUME WireTexts == \A t \in Texts : t \in Seq(Symbols) /\ t # <<>> /\ Last(t) # NUL
ASSUME WireFlips == Flips \subseteq Symbols
ASSUME WireLoss == MaxLoss \in Nat

VARIABLES
  destino,   \* the destination of the message, normalised
  text,      \* the message the user typed
  head,      \* its item in the queue: the flags, and whether it is there still
  sent,      \* active_data_fingerprint while waiting for the return, or None
  wire,      \* the datagram in flight, or None
  at,        \* the machine it is sent to
  answer,    \* what the destination made of this transmission
  shown,     \* the message the destination showed its user
  outcome,   \* how the last round ended
  last,      \* the message as last transmitted (for the properties)
  lost       \* how many datagrams were lost

vars == <<destino, text, head, sent, wire, at, answer, shown, outcome, last, lost>>

-----------------------------------------------------------------------------
\* The CRC of a message stands for the message: CRC-32 tells a message from
\* itself with one byte changed; a collision with the message cut short is
\* left out.
CrcField(message) == [crc |-> message]

\* What datagrams are made of: the separator is none of the other fields, and
\* None no datagram.
Controls == {CTRL_NONE, CTRL_ACK, CTRL_NAK}
Alphabet == Symbols \cup {P_DATA} \cup Controls \cup [crc : Seq(Symbols)]
ASSUME WireFields == SEP \notin {P_DATA} \cup Controls /\ SEP \notin [crc : Seq(Symbols)]
ASSUME WireNone ==
  /\ None \notin Controls
  /\ None \notin Seq(Alphabet)
  /\ None \notin [destino : Seq(Alphabet), crc : Seq(Alphabet), message : Seq(Alphabet)]

\* Mutant: any CRC will do.
CrcMatchesAny(message, crc) == TRUE

\* crc_mod.matches
CrcMatches(message, crc) == crc = <<CrcField(message)>>

\* maybe_corrupt: the possible results.
MaybeCorrupt(message, skip) ==
  IF skip THEN {message}
  ELSE {message} \cup {[message EXCEPT ![i] = b] : i \in DOMAIN message, b \in Flips}

\* The machine after i, as a place in the round.
After(i) == IF i = Hops THEN 0 ELSE i + 1

\* Transport.send_addr of machine i, to its successor.
Sends(i, d) ==
  /\ wire' = IF i \in Foreign THEN Append(d, NUL) ELSE d
  /\ at' = After(i)

-----------------------------------------------------------------------------
\* A user types the message; CMD_SEND normalises the destination.
Init ==
  /\ \E typed \in Spellings : destino = Upper[typed]
  /\ text \in Texts
  /\ head = [queued |-> TRUE, skip_fault_injection |-> FALSE, retransmit_used |-> FALSE]
  /\ sent = None
  /\ wire = None
  /\ at = 0
  /\ answer = None
  /\ shown = None
  /\ outcome = None
  /\ last = None
  /\ lost = 0

\* _send_data_packet, when the token comes
SendDataPacket ==
  /\ head.queued
  /\ sent = None
  /\ \E msg_out \in MaybeCorrupt(text, head.skip_fault_injection \/ destino = BROADCAST) :
       /\ Sends(0, BuildData(<<Nick[0]>>, <<destino>>, <<CTRL_NONE>>, <<CrcField(text)>>, msg_out))
       /\ sent' = [destino |-> <<destino>>, crc |-> <<CrcField(text)>>, message |-> msg_out]
       /\ last' = msg_out
  /\ answer' = None
  /\ shown' = None
  /\ UNCHANGED <<destino, text, head, outcome, lost>>

\* on_datagram and _on_rx_data at a machine that neither sent the DATA nor
\* is its destination: what it forwards is the datagram it read.
Forward ==
  /\ wire # None /\ at # 0
  /\ LET p == Parse(wire)
     IN /\ p.type = "DATA"
        /\ p.destino # <<Nick[at]>> /\ p.origem # <<Nick[at]>>
        /\ Sends(at, p.raw)
        /\ shown' = IF p.destino = <<BROADCAST>> THEN p.message ELSE shown
  /\ UNCHANGED <<destino, text, head, sent, answer, outcome, last, lost>>

\* The same at the destination: the CRC decides, and the answer travels on.
Answer ==
  /\ wire # None /\ at # 0
  /\ LET p == Parse(wire)
         controle == IF CrcMatches(p.message, p.crc) THEN CTRL_ACK ELSE CTRL_NAK
     IN /\ p.type = "DATA"
        /\ p.destino = <<Nick[at]>> /\ p.origem # <<Nick[at]>>
        /\ Sends(at, SetControle(p.raw, controle))
        /\ answer' = controle
        /\ shown' = p.message
  /\ UNCHANGED <<destino, text, head, sent, outcome, last, lost>>

\* _drop_head
Drops == head' = [head EXCEPT !.queued = FALSE]

\* The NAK branch of _on_rx_data
NakReturn ==
  IF head.retransmit_used THEN Drops
  ELSE head' = [head EXCEPT !.retransmit_used = TRUE, !.skip_fault_injection = TRUE]

\* Mutant: the message of a return is compared with what the user typed.
EndsRoundTyped(p) ==
  /\ sent # None
  /\ [destino |-> p.destino, crc |-> p.crc, message |-> p.message] = [sent EXCEPT !.message = text]

\* Whether a return is the one the origin waits for.
EndsRound(p) ==
  /\ sent # None
  /\ [destino |-> p.destino, crc |-> p.crc, message |-> p.message] = sent

\* _on_rx_data at the origin
Return ==
  /\ wire # None /\ at = 0
  /\ wire' = None
  /\ LET p == Parse(wire)
     IN /\ p.type = "DATA" /\ p.origem = <<Nick[0]>>
        /\ IF EndsRound(p)
           THEN /\ sent' = None
                /\ outcome' = IF p.destino = <<BROADCAST>> THEN "broadcast" ELSE p.controle[1]
                /\ IF p.destino # <<BROADCAST>> /\ p.controle = <<CTRL_NAK>>
                   THEN NakReturn ELSE Drops
           ELSE UNCHANGED <<sent, outcome, head>>
  /\ UNCHANGED <<destino, text, at, answer, shown, last, lost>>

\* _on_timer_data_return_timeout
DataReturnTimeout ==
  /\ sent # None
  /\ wire = None
  /\ sent' = None
  /\ outcome' = "timeout"
  /\ Drops
  /\ UNCHANGED <<destino, text, wire, at, answer, shown, last, lost>>

\* UDP loses the datagram.
Lose ==
  /\ wire # None
  /\ lost < MaxLoss
  /\ lost' = lost + 1
  /\ wire' = None
  /\ UNCHANGED <<destino, text, head, sent, at, answer, shown, outcome, last>>

Next == SendDataPacket \/ Forward \/ Answer \/ Return \/ DataReturnTimeout \/ Lose

Spec == Init /\ [][Next]_vars

-----------------------------------------------------------------------------
\* Properties

\* What the destination acknowledged and showed its user is what the user of
\* the origin typed, separators and all; a broadcast is shown unharmed.
AckMeansIntact ==
  /\ answer = CTRL_ACK => shown = text
  /\ answer = CTRL_NAK => shown # text
  /\ destino = BROADCAST => shown \in {None, text}

\* "O receptor detecta a divergencia via CRC e responde com NAK, exercitando
\* o mecanismo de retransmissao do anel": when the origin is done with its
\* message and nothing was lost, it was delivered, or its destination is not
\* there.
Delivered ==
  ~head.queued /\ sent = None /\ lost = 0 =>
    outcome = CASE destino = BROADCAST -> "broadcast"
                [] destino # BROADCAST /\ \E i \in 1 .. Hops : Nick[i] = destino -> CTRL_ACK
                [] OTHER -> CTRL_NONE

\* The same, but for a message whose last byte was flipped into NUL: the
\* parser of the next machine drops it.
DeliveredUnlessCut == last # None => Last(last) = NUL \/ Delivered

\* "Troca SOMENTE o campo de controle": every machine that reads the answered
\* datagram reads the same origin, destination, CRC and message, whatever
\* separators the message contains (set_controle, parse).
OnlyControleChanges ==
  wire # None =>
    LET p == Parse(wire)
        q == Parse(SetControle(p.raw, CTRL_ACK))
    IN p.message = <<>> \/ Last(p.message) # NUL =>
         q = [p EXCEPT !.controle = <<CTRL_ACK>>, !.raw = q.raw]

\* The datagram of a machine is the one build_data makes of what it reads as;
\* a machine forwards what it got but for the one NUL of another program, and
\* the next machine reads it as this one did, unless it ends in NUL once more
\* (parse).
ForwardedAsRead ==
  wire # None =>
    LET p == Parse(wire)
        parts == Split(p.raw, 5)
    IN /\ p.raw = BuildData(parts[2], parts[3], p.controle, parts[5], p.message)
       /\ p.raw = wire \/ p.raw \o <<NUL>> = wire
       /\ Last(p.raw) # NUL => Parse(p.raw) = p
=============================================================================
