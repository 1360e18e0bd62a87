------------------------------- MODULE MCWire -------------------------------
(***************************************************************************)
(* A machine "A", "B" and "C" after it, B of another group; messages to    *)
(* either, to nobody ("X") and to everybody, of up to three symbols.       *)
(***************************************************************************)
EXTENDS Wire

CONSTANT MaxText  \* bound: symbols of a message

MCSymbols == {"A", "B", "b", "C", "X", BROADCAST, "x", "y", SEP, NUL}
MCUpper == [s \in MCSymbols |-> IF s = "b" THEN "B" ELSE s]
MCNick == [i \in 0 .. Hops |-> CASE i = 0 -> "A" [] i = 1 -> "B" [] i = 2 -> "C"]
MCSpellings == {"b", "C", "X", BROADCAST}
MCTexts == UNION {[1 .. n -> {"x", "y", SEP}] : n \in 1 .. MaxText}
MCFlips == {"x", "y", SEP, NUL}
=============================================================================
