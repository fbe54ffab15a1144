---------------------------- MODULE RemainingLength ----------------------------
(****************************************************************************)
(* The length in the header of an MQTT packet (RemainingLength.cpp): digits *)
(* to the base Radix, the lowest first, each in a byte to which Radix is    *)
(* added when another one follows.  There are four at most.                 *)
(****************************************************************************)
EXTENDS Integers, Sequences

CONSTANT Radix     \* 128 in the code

ASSUME RadixAssumption == Radix \in Nat /\ Radix > 2

Continues(byte) == byte >= Radix

encodeRemainingLength[n \in Nat] ==
  IF n < Radix THEN <<n>>
  ELSE <<Radix + (n % Radix)>> \o encodeRemainingLength[n \div Radix]

\* 128 * 128 and so on
Radix2 == Radix * Radix
Radix3 == Radix * Radix2
Radix4 == Radix * Radix3

\* Mutant: the lengths at the ends of the ranges belong to the range before.
LengthOffByOne(n) ==
  CASE n <= Radix   -> 1
    [] n > Radix /\ n <= Radix2 -> 2
    [] n > Radix2 /\ n <= Radix3 -> 3
    [] OTHER -> IF n > Radix4 - 1 THEN 0 ELSE 4

\* 0 for what cannot be encoded
remainingLengthLength(n) ==
  CASE n < Radix -> 1
    [] n >= Radix /\ n < Radix2 -> 2
    [] n >= Radix2 /\ n < Radix3 -> 3
    [] n >= Radix3 -> IF n > Radix4 - 1 THEN 0 ELSE 4

\* -1 when the fourth byte announces a fifth
decodeRemainingLength(stream) ==
  LET Digits(k, higher) ==
        (stream[k] % Radix) + (IF Continues(stream[k]) THEN Radix * higher ELSE 0)
  IN  IF \A k \in 1 .. 4 : Continues(stream[k]) THEN -1
      ELSE Digits(1, Digits(2, Digits(3, stream[4] % Radix)))
-----------------------------------------------------------------------------
\* What is encoded decodes to the same length, whatever the bytes behind it, and
\* takes the bytes that Packet::_allocate has reserved for it
\* (RemainingLength.cpp:13-56, Packet.cpp:311-334).
DecodesWhatIsEncoded ==
  \A n \in 0 .. Radix4 - 1, behind \in {0, Radix} :
    LET bytes == encodeRemainingLength[n]
    IN  /\ decodeRemainingLength(bytes \o <<behind, behind, behind>>) = n
        /\ Len(bytes) = remainingLengthLength(n)
=============================================================================
