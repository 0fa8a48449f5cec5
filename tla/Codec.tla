-------------------------------- MODULE Codec --------------------------------
(***************************************************************************)
(* The conversions of jwt/utils.py: numbers to bytes and back, bytes to     *)
(* base64url text and back, ECDSA signatures between DER and raw.           *)
(*                                                                         *)
(* Bytes are sequences over 0..255.  Text is a sequence of characters: the  *)
(* 64 of the alphabet by their value, Pad ("="), and Junk for any other.    *)
(* DER stands for the pair of numbers in it.                                *)
(***************************************************************************)
EXTENDS Integers, Sequences, FiniteSets, SequencesExt

Pad == 64
Junk == 65

-----------------------------------------------------------------------------
(* Numbers.                                                                 *)

BitLength[n \in Nat] == IF n = 0 THEN 0 ELSE 1 + BitLength[n \div 2]

WidthOf(bits) == (bits + 7) \div 8

\* n without its last bytes
Shifted(n, bytes) ==
    LET rest[i \in Nat] == IF i = 0 THEN n ELSE rest[i - 1] \div 256
    IN  rest[bytes]

\* int.to_bytes
BigEndian(n, width) == [i \in 1..width |-> Shifted(n, width - i) % 256]

\* int.from_bytes
Value(bytes) ==
    LET value[i \in 0..Len(bytes)] ==
            IF i = 0 THEN 0 ELSE 256 * value[i - 1] + bytes[i]
    IN  value[Len(bytes)]

\* Mutant: no more digits than the number has.
NumberToItsBytes(n, width) == BigEndian(n, WidthOf(BitLength[n]))

\* "%0*x" pads with zeros; the numbers of a signature fit.
NumberToBytes(n, width) == BigEndian(n, width)

\* bytes_from_int, given the bit length or the number's own
BytesFromInt(n, bits) == BigEndian(n, WidthOf(bits))

-----------------------------------------------------------------------------
(* base64url.                                                               *)

(* Three bytes are four letters.  The last letter is filled up with zeros;  *)
(* there are no pads.                                                       *)
Base64urlEncode(bytes) ==
    LET Byte(i) == IF i \in DOMAIN bytes THEN bytes[i] ELSE 0
        Letter(hi, lo, place) == CASE place = 0 -> lo \div 4
                                   [] place = 1 -> (hi % 4) * 16 + lo \div 16
                                   [] place = 2 -> (hi % 16) * 4 + lo \div 64
                                   [] place = 3 -> hi % 64
    IN  [j \in 1..((4 * Len(bytes) + 2) \div 3) |->
            LET next == j - (j - 1) \div 4
            IN  Letter(Byte(next - 1), Byte(next), (j - 1) % 4)]

\* base64url_decode adds the pads the length asks for, junk counted.
Padded(text) == text \o [i \in 1..((0 - Len(text)) % 4) |-> Pad]

(* urlsafe_b64decode, character by character.  Junk is passed over, and so  *)
(* is a pad but in a group of at least two letters; the pad that completes  *)
(* the group ends it all.                                                   *)
Ended(state) == (Len(state.letters) % 4) + state.pads >= 4

Read(state, char) ==
    IF Ended(state) THEN state
    ELSE IF char < Pad
      THEN [letters |-> Append(state.letters, char), pads |-> 0]
    ELSE IF char = Pad /\ Len(state.letters) % 4 >= 2
      THEN [state EXCEPT !.pads = @ + 1]
    ELSE state

Scanned(text) ==
    LET scan[i \in 0..Len(text)] ==
            IF i = 0 THEN [letters |-> <<>>, pads |-> 0]
            ELSE Read(scan[i - 1], text[i])
    IN  scan[Len(text)]

Decoded(text) == Scanned(Padded(text)).letters

\* binascii.Error, a ValueError, otherwise
Decodable(text) ==
    LET end == Scanned(Padded(text))
    IN  Ended(end) \/ Len(end.letters) % 4 = 0

\* Four letters are three bytes; what is left of the last letter is dropped.
BytesOf(letters) ==
    LET Byte(hi, lo, place) == CASE place = 0 -> hi * 4 + lo \div 16
                                 [] place = 1 -> (hi % 16) * 16 + lo \div 4
                                 [] place = 2 -> (hi % 4) * 64 + lo
    IN  [i \in 1..((3 * Len(letters)) \div 4) |->
            LET first == i + (i - 1) \div 3
            IN  Byte(letters[first], letters[first + 1], (i - 1) % 3)]

Base64urlDecode(text) == BytesOf(Decoded(text))

\* The zero has one byte, though its bit length is none.
ToBase64urlUint(n, bits) ==
    Base64urlEncode(IF WidthOf(bits) = 0 THEN <<0>> ELSE BytesFromInt(n, bits))

FromBase64urlUint(text) == Value(Base64urlDecode(text))

-----------------------------------------------------------------------------
(* Signatures.                                                              *)

DerToRaw(pair, bits) ==
    NumberToBytes(pair[1], WidthOf(bits)) \o NumberToBytes(pair[2], WidthOf(bits))

\* Mutant: any raw signature that has two halves.
AnyTwoHalves(raw, bits) == Len(raw) % 2 = 0

\* raw_to_der_signature raises a ValueError otherwise.
RawFits(raw, bits) == Len(raw) = 2 * WidthOf(bits)

RawToDer(raw, bits) ==
    LET half == Len(raw) \div 2
    IN  <<Value(SubSeq(raw, 1, half)), Value(SubSeq(raw, half + 1, Len(raw)))>>
=============================================================================
