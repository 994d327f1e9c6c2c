------------------------------- MODULE Dcode -------------------------------
(***************************************************************************)
(* Documents published as DNS names of a certificate: the chunking loop of *)
(* dcode.Encode, the choice of names by clientutil and dcode.Decode.       *)
(*                                                                         *)
(* A document is a sequence of distinct base32 characters, named by their  *)
(* position.  A name is a first label and the zone it lies in: below       *)
(* "att." or "hpke." for the encoded ones, the base domain, its wildcard.  *)
(***************************************************************************)
EXTENDS Sequences, FiniteSets, DcodeChunks

CONSTANTS
  Certs,       \* the certificates to consider
  MaxNames     \* bound: iterations of a chunking loop that does not end

\* A certificate is described by the documents it publishes, each with its
\* size and the length of its domain; by the plain names it has beside them;
\* and by whether the encoded names lie below the base domain.
ASSUME CertsAssumption ==
  \A c \in Certs :
    /\ c.docs \in Seq([zone : {"att", "hpke"}, bytes : Nat, domainLen : Nat])
    /\ c.plain \subseteq {"base", "wildcard"}
    /\ c.ownDomain \in BOOLEAN

\* Index below writes up to three digits.
ASSUME MaxNamesAssumption == MaxNames \in 0..1000

VARIABLES
  cert,        \* the certificate being made
  coding,      \* "encode", "decode", "done" or "panic"
  doc,         \* which of its documents is being encoded
  i,           \* the loop variable of Encode
  domains,     \* the loop's result so far: labels
  sans,        \* the certificate's names
  rest,        \* names Decode has not joined yet
  decoded      \* what it has joined

dcodeVars == <<cert, coding, doc, i, domains, sans, rest, decoded>>

Char(z, k) == [of |-> z, at |-> k]
Name(z, l) == [zone |-> z, label |-> l]
Contents(d) == [k \in 1..EncodedLen(d.bytes) |-> Char(d.zone, k)]

\* "%02d": two digits at least, and three from 100 on.
Index(n) ==
  LET digit(d) == Char("digit", d) IN
    IF n < 100 THEN <<digit(n \div 10), digit(n % 10)>>
    ELSE <<digit(n \div 100), digit((n \div 10) % 10), digit(n % 10)>>

\* The plain names' first labels: some letters, and "*".
PlainName(z) ==
  Name(z, IF z = "wildcard" THEN <<Char("star", 1)>>
          ELSE [k \in 1..3 |-> Char("letter", k)])

DcodeInit ==
  /\ cert \in Certs
  /\ coding = "encode"
  /\ doc = 1 /\ i = 0
  /\ domains = <<>>
  /\ sans = {PlainName(z) : z \in cert.plain}
  /\ rest = {}
  /\ decoded = <<>>

-----------------------------------------------------------------------------
\* A faulty variant: chunks as long as a label may be.
Step_IgnoresPrefix(d) == 63 - (1 + d.domainLen)
Step(d) == MaxLength(d.domainLen)

\* A faulty variant: the loop advances by one too few.
Chunk_Overlaps(d) ==
  /\ i < EncodedLen(d.bytes) /\ Len(domains) < MaxNames
  /\ LET end == IF i + Step(d) < EncodedLen(d.bytes)
                  THEN i + Step(d) ELSE EncodedLen(d.bytes)
     IN domains' = Append(domains, Index(Len(domains)) \o SubSeq(Contents(d), i + 1, end))
  /\ i' = i + Step(d) - 1

\* One iteration of the chunking loop.  It does not advance when maxLength is
\* zero.
Chunk(d) ==
  /\ i < EncodedLen(d.bytes) /\ Len(domains) < MaxNames
  /\ LET end == IF i + Step(d) < EncodedLen(d.bytes)
                  THEN i + Step(d) ELSE EncodedLen(d.bytes)
     IN domains' = Append(domains, Index(Len(domains)) \o SubSeq(Contents(d), i + 1, end))
  /\ i' = i + Step(d)

\* Encode(content, domain).  A negative maxLength makes the slice expression
\* panic.
Encode ==
  /\ coding = "encode" /\ doc <= Len(cert.docs)
  /\ LET d == cert.docs[doc] IN
       \/ /\ Step(d) < 0 /\ i < EncodedLen(d.bytes)
          /\ coding' = "panic"
          /\ UNCHANGED <<doc, i, domains, sans>>
       \/ /\ Step(d) >= 0 /\ Chunk(d)
          /\ UNCHANGED <<coding, doc, sans>>
       \/ /\ i >= EncodedLen(d.bytes)
          /\ sans' = sans \cup {Name(d.zone, domains[k]) : k \in 1..Len(domains)}
          /\ doc' = doc + 1 /\ i' = 0 /\ domains' = <<>>
          /\ UNCHANGED coding
  /\ UNCHANGED <<cert, rest, decoded>>

\* strings.HasSuffix(other, "." + name)
Below(other, name) ==
  name.zone = "base" /\ (other.zone = "wildcard" \/ (cert.ownDomain /\ other.zone # "base"))

\* clientutil: every name of the certificate below which there is no other.
Extract ==
  /\ coding = "encode" /\ doc > Len(cert.docs)
  /\ rest' = {n \in sans : ~\E other \in sans : Below(other, n)}
  /\ coding' = "decode"
  /\ UNCHANGED <<cert, doc, i, domains, sans, decoded>>

\* The order of the first two characters: "*" before digits before letters.
Rank(ch) == CASE ch.of = "star" -> -1 [] ch.of = "digit" -> ch.at [] OTHER -> 10

\* "*." is shorter than any label, hence its second character a ".", below "0".
Prefix(l) == 100 * Rank(l[1]) + (IF Len(l) > 1 THEN Rank(l[2]) ELSE -1)

\* A faulty variant: the names are joined in the order the certificate has them.
First_AnyOrder(n) == TRUE

\* n is next in an order by prefix; names with the same prefix come in any order.
First(n) == \A other \in rest : Prefix(n.label) <= Prefix(other.label)

\* Decode: join what follows the first two characters of each first label.
Decode ==
  /\ coding = "decode"
  /\ \/ \E n \in rest :
          /\ First(n)
          /\ IF Len(n.label) < 2
               THEN coding' = "panic" /\ UNCHANGED <<rest, decoded>>
               ELSE /\ decoded' = decoded \o SubSeq(n.label, 3, Len(n.label))
                    /\ rest' = rest \ {n}
                    /\ UNCHANGED coding
     \/ rest = {} /\ coding' = "done" /\ UNCHANGED <<rest, decoded>>
  /\ UNCHANGED <<cert, doc, i, domains, sans>>

DcodeNext == Encode \/ Extract \/ Decode

DcodeSpec == DcodeInit /\ [][DcodeNext]_dcodeVars

-----------------------------------------------------------------------------
Attestation == CHOOSE d \in {cert.docs[k] : k \in 1..Len(cert.docs)} : d.zone = "att"

\* A certificate that publishes an attestation and nothing else, as TestDcode
\* encodes and decodes it, below a domain that leaves room: without any, no
\* document but the empty one is ever encoded.
AttestationOnly ==
  /\ cert.plain = {} /\ Len(cert.docs) = 1 /\ cert.docs[1].zone = "att"
  /\ MaxLength(cert.docs[1].domainLen) >= 1

\* Whatever order the names come in, decoding gives back what was encoded if,
\* and only if, no index needs a third digit: up to 100 names the prefixes are
\* distinct and sorting by them restores the order of the chunks.
RoundTrip ==
  (coding = "done" /\ AttestationOnly) =>
    ((decoded = Contents(Attestation))
       <=> (Chunks(Attestation.bytes, Attestation.domainLen) <= 100))

\* The loop produces as many names as the arithmetic of DcodeChunks says, and
\* up to 100 of them none is longer than 63 characters.
NamesFit ==
  (coding = "decode" /\ AttestationOnly) =>
    LET d == Attestation IN
      /\ Cardinality(sans) = Chunks(d.bytes, d.domainLen)
      /\ (Cardinality(sans) <= 100) =>
           \A n \in sans : Len(n.label) + 1 + d.domainLen <= 63

\* Encode panics, or makes more names than the arithmetic of DcodeChunks says
\* (for ever, in the code), for no other reason than a domain that leaves no
\* room beside it, whichever documents a certificate publishes.
EncodeEndsGivenRoom ==
  (doc <= Len(cert.docs)) =>
    LET d == cert.docs[doc] IN
      \/ MaxLength(d.domainLen) < 1
      \/ coding # "panic" /\ Len(domains) <= Chunks(d.bytes, d.domainLen)

\* What the comment of Decode says, "decodes a string of domains into an
\* attestation document", of the names clientutil takes from a certificate
\* that publishes the full attestation.
ClientRecoversAttestation ==
  /\ coding # "panic"
  /\ (coding = "done") => (decoded = Contents(Attestation))

=============================================================================
