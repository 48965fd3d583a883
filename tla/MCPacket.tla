------------------------------- MODULE MCPacket -------------------------------
(***************************************************************************)
(* A packet and what is done to its payload when it is sent.               *)
(***************************************************************************)
EXTENDS Packet, PacketCodec

\* Which payloads survive the way to the receiver, by their length.
Survives == [n \in 0 .. MaxLen |-> Arrives(n)]

\* Every Net packet that is sent can be decoded by its receivers: Encode went over it
\* once, and a payload of its length arrives as it was written.
WireExact ==
    phase = "sending" /\ type = "Net" =>
      /\ encodings = 1
      /\ payloadLen <= MaxLen => Survives[payloadLen]

===============================================================================
