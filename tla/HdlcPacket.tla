----------------------------- MODULE HdlcPacket -----------------------------
(***************************************************************************)
(* The framing of the modem's download protocol                            *)
(* (apps/modem_control/packet.c): translate_packet delimits a packet by    *)
(* 0x7E and escapes 0x7E and 0x7D in it, untranslate_packet undoes it.     *)
(* Both run byte by byte over one packet; what is received may begin with  *)
(* noise and with idle flags.                                              *)
(***************************************************************************)
EXTENDS Integers, Sequences

CONSTANTS Bytes,      \* the bytes of packets and of noise
          MaxLen,     \* bound on the length of a packet
          MaxNoise    \* bound on the bytes received before it

Flag == 126           \* 0x7E
Esc == 125            \* 0x7D
FlagCode == 94        \* 0x5E
EscCode == 93         \* 0x5D

VARIABLES src,        \* the packet
          i,          \* the next byte of src, then of wire
          wire,       \* the translated packet
          dest, status, pc
vars == <<src, i, wire, dest, status, pc>>

Packets == UNION {[1..n -> Bytes] : n \in 1..MaxLen}
Noise == UNION {[1..n -> Bytes \ {Flag}] : n \in 0..MaxNoise}
Received == {n \o f : n \in Noise, f \in {<<>>, <<Flag>>}}

Init ==
    /\ src \in Packets /\ wire = <<Flag>>
    /\ i = 1 /\ dest = <<>> /\ status = 0 /\ pc = "translate"

-----------------------------------------------------------------------------
(* translate_packet *)

Escaped(b) ==
    CASE b = Flag -> <<Esc, FlagCode>>
      [] b = Esc -> <<Esc, EscCode>>
      [] OTHER -> <<b>>

Translate ==
    /\ pc = "translate" /\ i <= Len(src)
    /\ wire' = wire \o Escaped(src[i]) /\ i' = i + 1
    /\ UNCHANGED <<src, dest, status, pc>>

\* The line may have delivered other bytes before the frame.
Translated ==
    /\ pc = "translate" /\ i > Len(src)
    /\ \E n \in Received : wire' = n \o Append(wire, Flag)
    /\ i' = 1 /\ pc' = "untranslate"
    /\ UNCHANGED <<src, dest, status>>

-----------------------------------------------------------------------------
(* untranslate_packet *)

Last == dest[Len(dest)]
ReplaceLast(b) == [dest EXCEPT ![Len(dest)] = b]

DecodedPlain(b) == Append(dest, b)

\* The byte before decides whether this one ends an escape sequence.
Decoded(b) ==
    CASE Last = Esc /\ b = FlagCode -> ReplaceLast(Flag)
      [] Last = Esc /\ b = EscCode -> ReplaceLast(Esc)
      [] Last = Esc -> dest
      [] OTHER -> Append(dest, b)

Untranslate ==
    /\ pc = "untranslate" /\ i <= Len(wire) /\ i' = i + 1
    /\ CASE status = 0 ->
              /\ status' = IF wire[i] = Flag THEN 1 ELSE 0
              /\ UNCHANGED <<dest, pc>>
         [] status = 1 ->
              /\ status' = IF wire[i] # Flag THEN 2 ELSE 1
              /\ dest' = IF wire[i] # Flag THEN <<wire[i]>> ELSE dest
              /\ UNCHANGED pc
         [] OTHER ->
              /\ pc' = IF wire[i] = Flag THEN "done" ELSE pc
              /\ dest' = IF wire[i] = Flag THEN dest ELSE Decoded(wire[i])
              /\ UNCHANGED status
    /\ UNCHANGED <<src, wire>>

Next == Translate \/ Translated \/ Untranslate
Spec == Init /\ [][Next]_vars

-----------------------------------------------------------------------------
(* Properties *)

\* The flag delimits a frame: no other flag is within it, whatever the packet.
Delimited ==
    pc = "translate" => \A j, k \in DOMAIN wire : wire[j] = Flag /\ wire[k] = Flag => j = k

\* A packet without a 0x7D before its last byte is got back, after noise and
\* idle flags, whatever flags and codes of escape sequences it holds.
RoundTripPlain == pc = "done" /\ (\A j \in 1..(Len(src) - 1) : src[j] # Esc) => dest = src
=============================================================================
