----------------------------- MODULE Heartbeat -----------------------------
(***************************************************************************)
(* Class PacketHandler: a heartbeat as the text that goes over UDP,        *)
(*   sh|t<time>|v<volume>|m<mute>|s<state>|b<base>                         *)
(* A text is the two letters it begins with and the commands between its   *)
(* bars, a command an attribute and its value, Malformed if the value      *)
(* cannot be read as a number.  Times and volumes are printed with six     *)
(* digits: to a multiple of Grain.                                         *)
(***************************************************************************)
EXTENDS Integers, Sequences, FiniteSets, FiniteSetsExt

CONSTANT Grain

ASSUME GrainAssumption == Grain \in Nat \ {0}

Attributes == {"t", "v", "m", "s", "b"}
PACKET_ATT_COUNT == 5
Malformed == -1

Packet(time, volume, mute, state, base) ==
  [t |-> time, v |-> volume, m |-> mute, s |-> state, b |-> base]

\* struct Packet: what a packet holds before it is parsed into.
NewPacket == Packet(0, 0, 0, 0, Malformed)

\* operator<< of a double: to the nearest multiple, but never to 0.
Printed(x) ==
  IF x \in 1 .. Grain THEN Grain
                      ELSE ((x + Grain \div 2) \div Grain) * Grain

Command(att, value) == [att |-> att, value |-> value]

\* Mutant: the mute goes under the letter of the volume.
SerializeOneLetter(p) ==
  [kind |-> "sh",
   commands |-> <<Command("t", Printed(p.t)), Command("v", Printed(p.v)),
                  Command("v", p.m), Command("s", p.s), Command("b", p.b)>>]

Serialize(p) ==
  [kind |-> "sh",
   commands |-> <<Command("t", Printed(p.t)), Command("v", Printed(p.v)),
                  Command("m", p.m), Command("s", p.s), Command("b", p.b)>>]

\* The commands that are read: those of a known attribute, up to the first
\* whose value throws.
ReadBy(commands) ==
  {i \in DOMAIN commands :
    /\ commands[i].att \in Attributes
    /\ \A j \in 1 .. i :
         commands[j].att \in Attributes => commands[j].value # Malformed}

\* Five commands make a heartbeat, also when one attribute came twice and
\* another not at all.
Accepted(text) ==
  /\ text.kind = "sh"
  /\ Cardinality(ReadBy(text.commands)) = PACKET_ATT_COUNT

\* The last command of an attribute counts.
Parse(text) ==
  [a \in Attributes |->
    LET those == {i \in ReadBy(text.commands) : text.commands[i].att = a}
    IN  IF those = {} THEN NewPacket[a] ELSE text.commands[Max(those)].value]

=============================================================================
