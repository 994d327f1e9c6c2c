---------------------------- MODULE DcodeChunks ----------------------------
(***************************************************************************)
(* The arithmetic of dcode.Encode (dcode/dcode.go): how many names a       *)
(* document of a given size needs under a domain of a given length.        *)
(***************************************************************************)
EXTENDS Integers

\* base32 without padding: five bits to a character.
EncodedLen(bytes) == (8 * bytes + 4) \div 5

\* maxLength: the characters of a name beside the index and ".domain".
MaxLength(domainLen) == 63 - (1 + domainLen) - 2

\* The number of names the chunking loop produces, for a positive maxLength.
Chunks(bytes, domainLen) ==
  (EncodedLen(bytes) + MaxLength(domainLen) - 1) \div MaxLength(domainLen)

=============================================================================
