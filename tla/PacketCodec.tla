------------------------------ MODULE PacketCodec ------------------------------
(***************************************************************************)
(* The checksum and the two chained XOR passes of a Net packet, between    *)
(* SetHeader in the sender and ValidateReceived in the receiver.  A byte   *)
(* is the set of its bits that are 1, so that ^ is the symmetric           *)
(* difference; sums are made of the numbers and keep the low Width bits.   *)
(* The code works on the payload in place, with checkSum_ in front of it:  *)
(* index 0 here.                                                           *)
(***************************************************************************)
EXTENDS Naturals, Sequences, FiniteSetsExt

CONSTANTS
  Width,    \* bits of a byte
  MaxLen    \* bound: the longest payload that is checked

ASSUME CodecAssumption == Width \in Nat \ {0} /\ MaxLen \in Nat

Byte == SUBSET (0 .. Width - 1)
Zero == {}

Number(byte) == MapThenSumSet(LAMBDA k : 2^k, byte)
Wrap(n) == {k \in 0 .. Width - 1 : (n \div 2^k) % 2 = 1}

Xor(a, b) == SymDiff(a, b)

GetCheckSum(payload) == Wrap(MapThenSumSet(LAMBDA i : Number(payload[i]), DOMAIN payload))

\* What byte i is combined with, in the sender and in the receiver.
Mask(before, key, i) == Wrap(Number(before) + Number(key) + i + 1)

\* One turn of Encode on byte d; the locals p and e carry over to the next.
EncodeByte(d, prev, i, randomKey, fixedKey) ==
    LET p == Xor(d, Mask(prev.p, randomKey, i))
    IN  [p |-> p, e |-> Xor(p, Mask(prev.e, fixedKey, i))]

\* The checksum and the payload as they go over the wire.
Encode(payload, randomKey, fixedKey) ==
    LET turn[i \in 0 .. Len(payload)] ==
          IF i = 0 THEN EncodeByte(GetCheckSum(payload), [p |-> Zero, e |-> Zero], 0, randomKey, fixedKey)
                   ELSE EncodeByte(payload[i], turn[i - 1], i, randomKey, fixedKey)
    IN  [i \in 0 .. Len(payload) |-> turn[i].e]

\* Mutation: the pass begins with the first byte.
UnchainForwards(bytes, key) ==
    LET done[i \in DOMAIN bytes] ==
          Xor(bytes[i], Mask(IF i = 0 THEN Zero ELSE done[i - 1], key, i))
    IN  [i \in DOMAIN bytes |-> done[i]]

\* One pass of Decode, last byte first: each byte still finds its predecessor as it
\* was received.
Unchain(bytes, key) ==
    [i \in DOMAIN bytes |-> Xor(bytes[i], Mask(IF i = 0 THEN Zero ELSE bytes[i - 1], key, i))]

Decode(bytes, randomKey, fixedKey) == Unchain(Unchain(bytes, fixedKey), randomKey)

\* What ValidateReceived leaves in the buffer, when code_ is the receiver's own, and
\* whether it returns true.
ValidateReceived(sameCode, bytes, randomKey, fixedKey) ==
    LET b == IF sameCode THEN Decode(bytes, randomKey, fixedKey) ELSE bytes
        payload == [i \in DOMAIN b \ {0} |-> b[i]]
    IN  [payload |-> payload, accepted |-> sameCode /\ b[0] = GetCheckSum(payload)]

\* A payload of n bytes arrives as it was written, whatever it is and whatever the
\* keys, at every peer with the same PACKET_CODE and at no other.
Arrives(n) ==
    \A payload \in [1 .. n -> Byte], randomKey, fixedKey \in Byte, sameCode \in BOOLEAN :
      LET r == ValidateReceived(sameCode, Encode(payload, randomKey, fixedKey), randomKey, fixedKey)
      IN  /\ r.accepted <=> sameCode
          /\ r.accepted => r.payload = payload

===============================================================================
