---------------------------- MODULE Names_proofs ----------------------------
(***************************************************************************)
(* Proofs about the names of a certificate: Startup, which assembles the   *)
(* list, and Dcode, which cuts documents into names and joins them again,  *)
(* for every configuration, machine and certificate.                       *)
(***************************************************************************)
EXTENDS Startup, Dcode, FiniteSetTheorems, TLAPS

-----------------------------------------------------------------------------
(* Arithmetic of the chunking loop.                                        *)

\* Chunks rounds the quotient of a document's length by maxLength up.
LEMMA CeilingBounds ==
  ASSUME NEW e \in Nat, NEW m \in Nat \ {0}
  PROVE  /\ (e + m - 1) \div m \in Nat
         /\ e <= m * ((e + m - 1) \div m)
         /\ m * ((e + m - 1) \div m) < e + m
<1> DEFINE x == e + m - 1
           q == x \div m
<1>1. x \in Nat
  OBVIOUS
<1>2. q \in Nat /\ x = m * q + (x % m) /\ x % m \in 0..m - 1
  BY <1>1
<1>3. m * q \in Nat
  BY <1>2
<1> QED BY <1>2, <1>3

\* Only an empty document encodes to nothing.
LEMMA EncodedLenType ==
  ASSUME NEW bytes \in Nat
  PROVE  EncodedLen(bytes) \in Nat /\ (bytes # 0 => EncodedLen(bytes) # 0)
  BY DEF EncodedLen

\* The chunks hold the document, and all but the last are full.
LEMMA ChunksBounds ==
  ASSUME NEW bytes \in Nat, NEW len \in Nat, MaxLength(len) >= 1
  PROVE  /\ Chunks(bytes, len) \in Nat
         /\ EncodedLen(bytes) <= MaxLength(len) * Chunks(bytes, len)
         /\ MaxLength(len) * Chunks(bytes, len) < EncodedLen(bytes) + MaxLength(len)
<1>1. EncodedLen(bytes) \in Nat /\ MaxLength(len) \in Nat \ {0}
  BY EncodedLenType DEF MaxLength
<1> QED BY <1>1, CeilingBounds DEF Chunks

\* A document needs a name if it is not empty, and no more than it has
\* characters.
LEMMA ChunksRange ==
  ASSUME NEW bytes \in Nat, NEW len \in Nat, MaxLength(len) >= 1
  PROVE  /\ Chunks(bytes, len) \in 0..EncodedLen(bytes)
         /\ bytes # 0 => Chunks(bytes, len) >= 1
<1> DEFINE e == EncodedLen(bytes)
           m == MaxLength(len)
           q == Chunks(bytes, len)
<1>1. e \in Nat /\ m \in Nat \ {0} /\ q \in Nat /\ (bytes # 0 => e # 0)
  BY EncodedLenType, ChunksBounds DEF MaxLength
<1>2. e <= m * q /\ m * q < e + m
  BY ChunksBounds
<1> HIDE DEF e, m, q
<1>3. q # 0 \/ e = 0
  BY <1>1, <1>2
<1>4. q <= e
  <2>1. SUFFICES ASSUME q > e PROVE FALSE
    BY <1>1
  <2>2. m * q >= m * (e + 1)
    BY <1>1, <2>1
  <2>3. m * (e + 1) = m * e + m /\ m * e >= e
    BY <1>1
  <2> QED BY <1>1, <1>2, <2>2, <2>3
<1> QED BY <1>1, <1>3, <1>4 DEF e, q

-----------------------------------------------------------------------------
(* Startup.                                                                *)

\* The names of the HPKE key alone.
KeyOnly == [NoNames EXCEPT !["hpke"] = Chunks(32, 5 + SANDomainLen)]

\* What Publish adds to them: nothing, the document or its hash.
WithDocument ==
  IF ~Has("publish") THEN KeyOnly
  ELSE IF ~Has("full") THEN [KeyOnly EXCEPT !["hatt"] = HashNames]
  ELSE [KeyOnly EXCEPT !["att"] = FullNames]

TooLarge == Has("publish") /\ Has("full") /\ ~Fits(FullNames)

\* What each phase of main() knows of the encoded names.
EncodedInv ==
  /\ phase \in {"load", "keys", "attest", "encode"} => encoded = NoNames
  /\ phase \in {"publish", "assemble", "ready"} => HpkeRoom >= 1
  /\ phase = "publish" => encoded = KeyOnly
  /\ phase \in {"assemble", "ready"} =>
       \/ encoded = WithDocument /\ (Has("publish") => Total(encoded) + reservedSANs <= SanLimit)
       \/ encoded = KeyOnly /\ TooLarge

\* What Assemble made of them.
ListInv ==
  phase = "ready" =>
    names = IF BaseOnly THEN [NoNames EXCEPT !["base"] = 1]
            ELSE [encoded EXCEPT !["base"] = 1,
                                 !["wildcard"] = IF ~Relay /\ Has("wildcard") THEN 1 ELSE 0]

\* What Load has checked.
LoadedInv == phase \notin {"load", "fatal"} => Valid

StartupInv == StartupTypeOK /\ LoadedInv /\ EncodedInv /\ ListInv

\* The HPKE key takes a name at least and 52 at most, however long the domain is.
LEMMA KeyNames ==
  ASSUME machine \in Machines, HpkeRoom >= 1
  PROVE  Chunks(32, 5 + SANDomainLen) \in 1..52
<1>1. 5 + SANDomainLen \in Nat
  BY StartupAssumption DEF SANDomainLen
<1>2. EncodedLen(32) = 52
  BY DEF EncodedLen
<1>3. MaxLength(5 + SANDomainLen) >= 1
  BY DEF HpkeRoom
<1>4. ASSUME NEW len \in Nat, MaxLength(len) >= 1 PROVE Chunks(32, len) \in 1..52
  <2>1. Chunks(32, len) \in 0..EncodedLen(32) /\ Chunks(32, len) >= 1
    BY <1>4, ChunksRange
  <2> QED BY <1>2, <2>1
<1> QED BY <1>1, <1>3, <1>4

\* The room for the HPKE key's names is a number, perhaps a negative one.
LEMMA RoomType ==
  ASSUME machine \in Machines PROVE HpkeRoom \in Int
<1>1. SANDomainLen \in Nat
  BY StartupAssumption DEF SANDomainLen
<1> QED BY <1>1 DEF HpkeRoom, MaxLength

\* The document and its hash take at least one.
LEMMA DocumentNames ==
  ASSUME machine \in Machines, HpkeRoom >= 1
  PROVE  FullNames \in Nat \ {0} /\ HashNames \in Nat \ {0}
<1>1. /\ SANDomainLen \in Nat
      /\ machine.attBytes \in Nat \ {0}
  BY StartupAssumption DEF SANDomainLen
<1>2. MaxLength(4 + SANDomainLen) >= 1 /\ MaxLength(5 + SANDomainLen) >= 1
  BY <1>1 DEF HpkeRoom, MaxLength
<1>3. ASSUME NEW bytes \in Nat \ {0}, NEW len \in Nat, MaxLength(len) >= 1
      PROVE  Chunks(bytes, len) \in Nat \ {0}
  BY <1>3, ChunksRange, EncodedLenType
<1> QED BY <1>1, <1>2, <1>3 DEF FullNames, HashNames

\* The invariant holds when main() begins.
LEMMA InitStartupInv == StartupInit => StartupInv
  BY StartupAssumption
  DEF StartupInit, StartupInv, StartupTypeOK, LoadedInv, EncodedInv, ListInv, NoNames, Zones

\* What main() derives from the configuration and the machine is as fixed as they
\* are.
LEMMA SameInputs ==
  ASSUME config' = config, machine' = machine
  PROVE  /\ Valid' <=> Valid
         /\ BaseOnly' <=> BaseOnly
         /\ Relay' <=> Relay
         /\ \A f : Has(f)' <=> Has(f)
         /\ reservedSANs' = reservedSANs
         /\ HpkeRoom' = HpkeRoom
         /\ FullNames' = FullNames
         /\ KeyOnly' = KeyOnly
         /\ WithDocument' = WithDocument
         /\ encoded' = encoded => (TooLarge' <=> TooLarge)
<1>1. \A f : Has(f)' <=> Has(f)
  BY DEF Has
<1>2. SANDomainLen' = SANDomainLen
  BY <1>1 DEF SANDomainLen
<1>3. HpkeRoom' = HpkeRoom /\ FullNames' = FullNames /\ HashNames' = HashNames
  BY <1>2 DEF HpkeRoom, FullNames, HashNames
<1>4. KeyOnly' = KeyOnly
  BY <1>2 DEF KeyOnly
<1>5. WithDocument' = WithDocument
  BY <1>1, <1>3, <1>4 DEF WithDocument
<1>6. reservedSANs' = reservedSANs
  BY <1>1 DEF reservedSANs
<1>7. encoded' = encoded => (TooLarge' <=> TooLarge)
  BY <1>1, <1>3, <1>6 DEF TooLarge, Fits
<1>8. Valid' <=> Valid
  BY <1>1 DEF Valid
<1>9. (BaseOnly' <=> BaseOnly) /\ (Relay' <=> Relay)
  BY DEF BaseOnly, Relay
<1> QED BY <1>1, <1>3, <1>4, <1>5, <1>6, <1>7, <1>8, <1>9

\* Every phase preserves it.
LEMMA NextStartupInv == StartupInv /\ [StartupNext]_startVars => StartupInv'
<1> SUFFICES ASSUME StartupInv, [StartupNext]_startVars PROVE StartupInv'
  OBVIOUS
<1> USE DEF StartupInv
<1>1. ASSUME Fatal PROVE StartupInv'
  BY <1>1 DEF Fatal, StartupTypeOK, LoadedInv, EncodedInv, ListInv
<1>2. CASE Load
  BY <1>1, <1>2 DEF Load, Valid, Has, StartupTypeOK, LoadedInv, EncodedInv, ListInv
<1>3. CASE MakeKeys
  BY <1>1, <1>3 DEF MakeKeys, RawConfig, Valid, Has, StartupTypeOK, LoadedInv, EncodedInv, ListInv
<1>4. CASE Attest
  BY <1>1, <1>4 DEF Attest, attestationReport, Valid, Has, StartupTypeOK, LoadedInv, EncodedInv, ListInv
<1>5. CASE EncodeHpke
  <2>1. config' = config /\ machine' = machine /\ att' = att /\ names' = names
    BY <1>5 DEF EncodeHpke
  <2>2. phase = "encode" /\ machine \in Machines /\ HpkeRoom \in Int
    BY <1>5, RoomType DEF EncodeHpke, StartupTypeOK
  <2>3. CASE HpkeRoom < 1
    <3>1. phase' = "stuck" /\ encoded' = encoded
      BY <1>5, <2>3 DEF EncodeHpke
    <3> QED BY <2>1, <2>2, <3>1, SameInputs
      DEF StartupTypeOK, LoadedInv, EncodedInv, ListInv
  <2>4. CASE HpkeRoom >= 1
    <3>1. phase' = "publish" /\ encoded' = KeyOnly /\ encoded = NoNames
      BY <1>5, <2>2, <2>4 DEF EncodeHpke, EncodedInv, KeyOnly
    <3>2. KeyOnly \in [Zones -> Nat]
      BY <2>2, <2>4, KeyNames DEF KeyOnly, NoNames, Zones
    <3>3. StartupTypeOK'
      BY <2>1, <2>2, <3>1, <3>2 DEF StartupTypeOK
    <3> QED BY <2>1, <2>2, <2>4, <3>1, <3>3, SameInputs DEF LoadedInv, EncodedInv, ListInv
  <2> QED BY <2>2, <2>3, <2>4
<1>6. CASE Publish
  <2> SUFFICES ASSUME ~Fatal PROVE StartupInv'
    BY <1>1
  <2>1. /\ config' = config /\ machine' = machine /\ att' = att /\ names' = names
        /\ phase = "publish" /\ phase' = "assemble"
        /\ Has("publish") /\ ~Has("full") => Fits(HashNames)
    BY <1>6 DEF Publish
  <2>2. /\ encoded = KeyOnly /\ HpkeRoom >= 1 /\ machine \in Machines
        /\ KeyOnly \in [Zones -> Nat]
    BY <2>1 DEF StartupTypeOK, EncodedInv
  <2>3. FullNames \in Nat /\ HashNames \in Nat /\ reservedSANs \in Nat
    BY <2>2, DocumentNames DEF reservedSANs
  <2>4. CASE TooLarge
    <3>1. encoded' = encoded
      BY <1>6, <2>4 DEF Publish, TooLarge
    <3> QED BY <2>1, <2>2, <2>4, <3>1, SameInputs
      DEF StartupTypeOK, LoadedInv, EncodedInv, ListInv
  <2>5. CASE ~TooLarge
    <3>1. encoded' = WithDocument
      BY <1>6, <2>2, <2>5 DEF Publish, TooLarge, WithDocument
    <3>2. WithDocument \in [Zones -> Nat]
      BY <2>2, <2>3 DEF WithDocument, Zones
    <3>3. StartupTypeOK'
      BY <2>1, <2>2, <3>1, <3>2 DEF StartupTypeOK
    <3>4. Has("publish") => Total(WithDocument) + reservedSANs <= SanLimit
      <4> SUFFICES ASSUME Has("publish") PROVE Total(WithDocument) + reservedSANs <= SanLimit
        OBVIOUS
      <4>1. KeyOnly["att"] = 0 /\ KeyOnly["hatt"] = 0
        BY DEF KeyOnly, NoNames, Zones
      <4>2. CASE Has("full")
        <5>1. Fits(FullNames) /\ WithDocument = [KeyOnly EXCEPT !["att"] = FullNames]
          BY <2>5, <4>2 DEF TooLarge, WithDocument
        <5> QED BY <2>2, <2>3, <4>1, <5>1 DEF Fits, Total, Zones
      <4>3. CASE ~Has("full")
        <5>1. Fits(HashNames) /\ WithDocument = [KeyOnly EXCEPT !["hatt"] = HashNames]
          BY <2>1, <4>3 DEF WithDocument
        <5> QED BY <2>2, <2>3, <4>1, <5>1 DEF Fits, Total, Zones
      <4> QED BY <4>2, <4>3
    <3> QED BY <2>1, <2>2, <3>1, <3>3, <3>4, SameInputs DEF LoadedInv, EncodedInv, ListInv
  <2> QED BY <2>4, <2>5
<1>7. CASE Assemble
  <2>1. /\ config' = config /\ machine' = machine /\ att' = att /\ encoded' = encoded
        /\ phase = "assemble" /\ phase' = "ready"
    BY <1>7 DEF Assemble
  <2>2. names' \in [Zones -> Nat]
    BY <1>7 DEF Assemble, StartupTypeOK, NoNames, Zones
  <2>3. StartupTypeOK'
    BY <2>1, <2>2 DEF StartupTypeOK
  <2>4. LoadedInv' /\ EncodedInv'
    BY <2>1, SameInputs DEF LoadedInv, EncodedInv
  <2>5. ListInv'
    BY <1>7, <2>1, SameInputs DEF Assemble, ListInv
  <2> QED BY <2>3, <2>4, <2>5
<1>8. CASE UNCHANGED startVars
  <2>1. /\ config' = config /\ machine' = machine /\ att' = att /\ encoded' = encoded
        /\ phase' = phase /\ names' = names
    BY <1>8 DEF startVars
  <2>2. StartupTypeOK' /\ LoadedInv' /\ EncodedInv'
    BY <2>1, SameInputs DEF StartupTypeOK, LoadedInv, EncodedInv
  <2>3. ListInv'
    BY <2>1, SameInputs DEF ListInv
  <2> QED BY <2>2, <2>3
<1> QED BY <1>2, <1>3, <1>4, <1>5, <1>6, <1>7, <1>8 DEF StartupNext

\* The invariant holds in every phase.
THEOREM StartupInductive == StartupSpec => []StartupInv
  BY InitStartupInv, NextStartupInv, PTL DEF StartupSpec

\* The types, and that what Load lets through is a configuration main() knows.
THEOREM StartupTypeCorrect == StartupSpec => []StartupTypeOK
<1>1. StartupInv => StartupTypeOK
  BY DEF StartupInv
<1> QED BY StartupInductive, <1>1, PTL

\* The list never exceeds the CA's limit, however long the domain, however large
\* the attestation: either it was counted against the limit with the plain names'
\* slots, or it holds the HPKE key's names alone, of which there are 52 at most.
THEOREM SanLimitKept == StartupSpec => []WithinSanLimit
<1>1. StartupInv => WithinSanLimit
  <2> SUFFICES ASSUME StartupInv, phase = "ready" PROVE Total(names) <= SanLimit
    BY DEF WithinSanLimit
  <2>1. /\ machine \in Machines /\ HpkeRoom >= 1 /\ encoded \in [Zones -> Nat]
        /\ reservedSANs \in {1, 2} /\ (Has("wildcard") => reservedSANs = 2)
    BY DEF StartupInv, StartupTypeOK, EncodedInv, reservedSANs
  <2>2. encoded["base"] = 0 /\ encoded["wildcard"] = 0
    BY DEF StartupInv, EncodedInv, WithDocument, KeyOnly, NoNames, Zones
  <2>3. Total(encoded) + reservedSANs <= SanLimit
    <3>1. CASE encoded = KeyOnly
      <4>1. KeyOnly["hpke"] \in 1..52 /\ KeyOnly["att"] = 0 /\ KeyOnly["hatt"] = 0
        BY <2>1, KeyNames DEF KeyOnly, NoNames, Zones
      <4> QED BY <2>1, <2>2, <3>1, <4>1 DEF Total, SanLimit
    <3>2. CASE encoded # KeyOnly
      BY <3>2 DEF StartupInv, EncodedInv, WithDocument
    <3> QED BY <3>1, <3>2
  <2>4. CASE BaseOnly
    <3>1. names = [NoNames EXCEPT !["base"] = 1]
      BY <2>4 DEF StartupInv, ListInv
    <3> QED BY <3>1 DEF Total, NoNames, Zones, SanLimit
  <2>5. CASE ~BaseOnly
    <3>1. PICK w \in {0, 1} :
            /\ names = [encoded EXCEPT !["base"] = 1, !["wildcard"] = w]
            /\ 1 + w <= reservedSANs
      <4>1. CASE ~Relay /\ Has("wildcard")
        BY <2>1, <2>5, <4>1 DEF StartupInv, ListInv
      <4>2. CASE ~(~Relay /\ Has("wildcard"))
        BY <2>1, <2>5, <4>2 DEF StartupInv, ListInv
      <4> QED BY <4>1, <4>2
    <3>2. Total(names) = Total(encoded) + 1 + w
      BY <2>1, <2>2, <3>1 DEF Total, Zones
    <3>3. Total(encoded) \in Nat
      BY <2>1 DEF Total, Zones
    <3> QED BY <2>1, <2>3, <3>1, <3>2, <3>3 DEF SanLimit
  <2> QED BY <2>4, <2>5
<1> QED BY StartupInductive, <1>1, PTL

\* A wildcard is asked for only where DNS validates every name.
THEOREM WildcardsByDns == StartupSpec => []WildcardByDns
<1>1. StartupInv => WildcardByDns
  <2> SUFFICES ASSUME StartupInv, phase = "ready", names["wildcard"] # 0
               PROVE config.challenge = "dns"
    BY DEF WildcardByDns
  <2>1. Valid
    BY DEF StartupInv, LoadedInv
  <2>2. Has("wildcard")
    <3>1. SUFFICES ASSUME ~Has("wildcard") PROVE FALSE
      OBVIOUS
    <3>2. CASE BaseOnly
      BY <3>2 DEF StartupInv, ListInv, NoNames, Zones
    <3>3. CASE ~BaseOnly
      BY <3>1, <3>3 DEF StartupInv, StartupTypeOK, ListInv, Zones
    <3> QED BY <3>2, <3>3
  <2> QED BY <2>1, <2>2 DEF Valid
<1> QED BY StartupInductive, <1>1, PTL

\* A certificate that carries encoded names carries the attestation's when asked to,
\* unless the full document does not fit.
THEOREM Committed == StartupSpec => []AttestationCommitted
<1>1. StartupInv => AttestationCommitted
  <2> SUFFICES ASSUME StartupInv, phase = "ready", names["hpke"] # 0, Has("publish")
               PROVE \/ names["hatt"] # 0
                     \/ Has("full") /\ (names["att"] # 0 \/ ~Fits(FullNames))
    BY DEF AttestationCommitted
  <2>1. machine \in Machines /\ HpkeRoom >= 1 /\ encoded \in [Zones -> Nat]
    BY DEF StartupInv, StartupTypeOK, EncodedInv
  <2>2. ~BaseOnly
    BY DEF StartupInv, ListInv, NoNames, Zones
  <2>3. names["hatt"] = encoded["hatt"] /\ names["att"] = encoded["att"]
    BY <2>1, <2>2 DEF StartupInv, ListInv, Zones
  <2>4. CASE encoded = KeyOnly /\ TooLarge
    BY <2>4 DEF TooLarge
  <2>5. CASE encoded = WithDocument
    <3>1. KeyOnly["att"] = 0 /\ KeyOnly["hatt"] = 0 /\ DOMAIN KeyOnly = Zones
      BY DEF KeyOnly, NoNames, Zones
    <3>2. FullNames # 0 /\ HashNames # 0
      BY <2>1, DocumentNames
    <3> QED BY <2>3, <2>5, <3>1, <3>2 DEF WithDocument, KeyOnly, NoNames, Zones
  <2> QED BY <2>4, <2>5 DEF StartupInv, EncodedInv
<1> QED BY StartupInductive, <1>1, PTL

-----------------------------------------------------------------------------
(* Dcode: what the chunking loop makes.                                    *)

Chars == [of : {"digit", "att", "hpke"}, at : Int]
Docs  == [zone : {"att", "hpke"}, bytes : Nat, domainLen : Nat]

Room(d) == MaxLength(d.domainLen) >= 1

\* Where chunk k of a document begins, in the characters before it, and its name.
Upto(d, k)  == IF k * Step(d) < EncodedLen(d.bytes) THEN k * Step(d) ELSE EncodedLen(d.bytes)
Width(k)    == IF k < 100 THEN 2 ELSE 3
Label(d, k) == Index(k) \o SubSeq(Contents(d), Upto(d, k) + 1, Upto(d, k + 1))

\* Chunk k exists.
Begins(d, k) == k * Step(d) < EncodedLen(d.bytes)

\* What a concatenation holds.
LEMMA Joined ==
  ASSUME NEW S, NEW s \in Seq(S), NEW t \in Seq(S)
  PROVE  /\ s \o t \in Seq(S) /\ Len(s \o t) = Len(s) + Len(t)
         /\ \A q \in 1..Len(s) : (s \o t)[q] = s[q]
         /\ \A q \in 1..Len(t) : (s \o t)[Len(s) + q] = t[q]
  OBVIOUS

\* And what a part of a sequence does.
LEMMA Cut ==
  ASSUME NEW S, NEW s \in Seq(S), NEW a \in Nat, NEW b \in Nat, a <= b, b <= Len(s)
  PROVE  /\ SubSeq(s, a + 1, b) \in Seq(S) /\ Len(SubSeq(s, a + 1, b)) = b - a
         /\ \A q \in 1..(b - a) : SubSeq(s, a + 1, b)[q] = s[a + q]
<1>1. Len(SubSeq(s, a + 1, b)) = b - a
  OBVIOUS
<1>2. SubSeq(s, a + 1, b) \in Seq(S)
  OBVIOUS
<1>3. \A q \in 1..(b - a) : SubSeq(s, a + 1, b)[q] = s[a + q]
  OBVIOUS
<1> QED BY <1>1, <1>2, <1>3

\* A chunk is not empty and at most maxLength long.
LEMMA UptoBounds ==
  ASSUME NEW d \in Docs, Room(d), NEW k \in Nat
  PROVE  /\ Step(d) \in Nat \ {0} /\ k * Step(d) \in Nat /\ EncodedLen(d.bytes) \in Nat
         /\ (k + 1) * Step(d) = k * Step(d) + Step(d)
         /\ Upto(d, k) \in Nat /\ Upto(d, k + 1) \in Nat
         /\ Upto(d, k) <= Upto(d, k + 1) /\ Upto(d, k + 1) <= EncodedLen(d.bytes)
         /\ Begins(d, k) => /\ Upto(d, k) = k * Step(d) /\ Upto(d, k) < Upto(d, k + 1)
                            /\ Upto(d, k + 1) - Upto(d, k) <= Step(d)
                            /\ Upto(d, k + 1) = IF k * Step(d) + Step(d) < EncodedLen(d.bytes)
                                                 THEN k * Step(d) + Step(d)
                                                 ELSE EncodedLen(d.bytes)
<1>1. d.bytes \in Nat /\ d.domainLen \in Nat
  BY DEF Docs
<1> DEFINE m == Step(d)
           e == EncodedLen(d.bytes)
           x == k * m
<1>2. m \in Nat \ {0} /\ e \in Nat
  BY <1>1, EncodedLenType DEF Step, Room, MaxLength
<1>3. x \in Nat /\ (k + 1) * m = x + m
  BY <1>2
<1>4. /\ Upto(d, k) = IF x < e THEN x ELSE e
      /\ Upto(d, k + 1) = IF (k + 1) * m < e THEN (k + 1) * m ELSE e
      /\ Begins(d, k) <=> x < e
  BY DEF Upto, Begins
<1>5. /\ Step(d) = m /\ EncodedLen(d.bytes) = e /\ k * Step(d) = x
      /\ (k + 1) * Step(d) = (k + 1) * m
  OBVIOUS
<1> HIDE DEF m, e, x
<1> QED BY <1>2, <1>3, <1>4, <1>5

\* The index of a chunk takes two characters, and three from 100 on.
LEMMA IndexShape ==
  ASSUME NEW k \in Nat
  PROVE  /\ Index(k) \in Seq(Chars) /\ Len(Index(k)) = Width(k)
         /\ k < 100 => /\ Index(k)[1] = Char("digit", k \div 10)
                       /\ Index(k)[2] = Char("digit", k % 10)
         /\ k >= 100 => Index(k)[3] = Char("digit", k % 10)
<1>1. \A n \in Int : Char("digit", n) \in Chars
  BY DEF Char, Chars
<1>2. /\ k \div 10 \in Int /\ k % 10 \in Int /\ k \div 100 \in Int
      /\ (k \div 10) % 10 \in Int
  OBVIOUS
<1>3. CASE k < 100
  BY <1>1, <1>2, <1>3 DEF Index, Width
<1>4. CASE ~(k < 100)
  BY <1>1, <1>2, <1>4 DEF Index, Width
<1> QED BY <1>3, <1>4

\* A label is the index followed by the characters of its chunk.
LEMMA LabelShape ==
  ASSUME NEW d \in Docs, Room(d), NEW k \in Nat
  PROVE  /\ Label(d, k) \in Seq(Chars)
         /\ Len(Label(d, k)) = Width(k) + (Upto(d, k + 1) - Upto(d, k))
         /\ \A q \in 1..Width(k) : Label(d, k)[q] = Index(k)[q]
         /\ \A q \in 1..(Upto(d, k + 1) - Upto(d, k)) :
              Label(d, k)[Width(k) + q] = Char(d.zone, Upto(d, k) + q)
<1> DEFINE a == Upto(d, k)
           b == Upto(d, k + 1)
           chunk == SubSeq(Contents(d), a + 1, b)
           w == Width(k)
<1>1. a \in Nat /\ b \in Nat /\ a <= b /\ b <= EncodedLen(d.bytes) /\ EncodedLen(d.bytes) \in Nat
  BY UptoBounds
<1>2. Contents(d) \in Seq(Chars) /\ Len(Contents(d)) = EncodedLen(d.bytes)
      /\ \A q \in 1..EncodedLen(d.bytes) : Contents(d)[q] = Char(d.zone, q)
  <2>1. d.zone \in {"att", "hpke"}
    BY DEF Docs
  <2>2. \A q \in 1..EncodedLen(d.bytes) : Char(d.zone, q) \in Chars
    BY <1>1, <2>1 DEF Char, Chars
  <2> QED BY <1>1, <2>2 DEF Contents
<1> HIDE DEF a, b
<1>3. /\ chunk \in Seq(Chars) /\ Len(chunk) = b - a
      /\ \A q \in 1..(b - a) : chunk[q] = Contents(d)[a + q]
  <2>1. PICK s \in Seq(Chars) : s = Contents(d)
    BY <1>2
  <2>2. b <= Len(s)
    BY <1>1, <1>2, <2>1
  <2>3. /\ SubSeq(s, a + 1, b) \in Seq(Chars) /\ Len(SubSeq(s, a + 1, b)) = b - a
        /\ \A q \in 1..(b - a) : SubSeq(s, a + 1, b)[q] = s[a + q]
    BY <1>1, <2>2, Cut
  <2> QED BY <2>1, <2>3
<1>4. \A q \in 1..(b - a) : chunk[q] = Char(d.zone, a + q)
  BY <1>1, <1>2, <1>3
<1>5. Index(k) \in Seq(Chars) /\ Len(Index(k)) = w /\ w \in Nat
  BY IndexShape DEF Width
<1>6. Label(d, k) = Index(k) \o chunk
  BY DEF Label, a, b
<1> HIDE DEF chunk, w
<1>7. /\ Label(d, k) \in Seq(Chars) /\ Len(Label(d, k)) = w + (b - a)
      /\ \A q \in 1..w : Label(d, k)[q] = Index(k)[q]
      /\ \A q \in 1..(b - a) : Label(d, k)[w + q] = chunk[q]
  <2>1. PICK s \in Seq(Chars) : s = Index(k)
    BY <1>5
  <2>2. PICK t \in Seq(Chars) : t = chunk
    BY <1>3
  <2>3. Len(s) = w /\ Len(t) = b - a /\ Label(d, k) = s \o t
    BY <1>3, <1>5, <1>6, <2>1, <2>2
  <2>4. /\ s \o t \in Seq(Chars) /\ Len(s \o t) = Len(s) + Len(t)
        /\ \A q \in 1..Len(s) : (s \o t)[q] = s[q]
        /\ \A q \in 1..Len(t) : (s \o t)[Len(s) + q] = t[q]
    BY Joined
  <2> QED BY <2>1, <2>2, <2>3, <2>4
<1> QED BY <1>4, <1>7 DEF a, b, w

\* The loop ends with chunk number Chunks, counted from 0.
LEMMA ChunksEnd ==
  ASSUME NEW d \in Docs, Room(d), NEW n \in Nat
  PROVE  /\ Chunks(d.bytes, d.domainLen) \in Nat
         /\ Begins(d, n) <=> n < Chunks(d.bytes, d.domainLen)
<1> DEFINE q == Chunks(d.bytes, d.domainLen)
           m == Step(d)
           e == EncodedLen(d.bytes)
<1>1. d.bytes \in Nat /\ d.domainLen \in Nat
  BY DEF Docs
<1>2. q \in Nat /\ e <= m * q /\ m * q < e + m
  BY <1>1, ChunksBounds DEF Room, Step
<1>3. m \in Nat \ {0} /\ e \in Nat
  BY UptoBounds
<1>4. Begins(d, n) <=> n * m < e
  BY DEF Begins
<1> HIDE DEF q, m, e
<1>5. ASSUME n < q PROVE n * m < e
  <2>1. n + 1 <= q
    BY <1>2, <1>5
  <2>2. (n + 1) * m <= m * q
    BY <1>2, <1>3, <2>1
  <2>3. (n + 1) * m = n * m + m
    BY <1>3
  <2> QED BY <1>2, <1>3, <2>2, <2>3
<1>6. ASSUME q <= n PROVE ~(n * m < e)
  <2>1. m * q <= n * m
    BY <1>2, <1>3, <1>6
  <2> QED BY <1>2, <1>3, <2>1
<1> QED BY <1>2, <1>4, <1>5, <1>6 DEF q

\* What the loop has made of the current document.
Chunked(d) ==
  /\ domains \in Seq(Seq(Chars))
  /\ i = Len(domains) * Step(d)
  /\ \A k \in 1..Len(domains) : domains[k] = Label(d, k - 1) /\ Begins(d, k - 1)

LoopInv ==
  /\ cert \in Certs /\ doc \in Nat \ {0}
  /\ coding \in {"decode", "done"} => doc > Len(cert.docs)
  /\ doc <= Len(cert.docs) /\ Room(cert.docs[doc]) =>
       coding = "encode" /\ Chunked(cert.docs[doc])

\* A certificate's documents.
LEMMA CertDocs ==
  ASSUME cert \in Certs
  PROVE  /\ Len(cert.docs) \in Nat
         /\ \A k \in 1..Len(cert.docs) : cert.docs[k] \in Docs
<1>1. PICK s \in Seq(Docs) : s = cert.docs
  BY CertsAssumption, Zenon DEF Docs
<1>2. Len(s) \in Nat /\ \A k \in 1..Len(s) : s[k] \in Docs
  OBVIOUS
<1> QED BY <1>1, <1>2

\* Nothing is encoded yet, of whichever document.
LEMMA NothingChunked ==
  ASSUME NEW d \in Docs, Room(d), domains = <<>>, i = 0 PROVE Chunked(d)
<1>1. Step(d) \in Nat
  BY UptoBounds
<1> QED BY <1>1 DEF Chunked

\* The invariant holds before the first document.
LEMMA InitLoopInv == DcodeInit => LoopInv
<1> SUFFICES ASSUME DcodeInit PROVE LoopInv
  OBVIOUS
<1>1. cert \in Certs /\ doc = 1 /\ coding = "encode" /\ domains = <<>> /\ i = 0
  BY DEF DcodeInit
<1>2. doc <= Len(cert.docs) => cert.docs[doc] \in Docs
  BY <1>1, CertDocs
<1> QED BY <1>1, <1>2, NothingChunked DEF LoopInv

\* An iteration makes the next name.
LEMMA NextChunk ==
  ASSUME NEW d \in Docs, Room(d), Chunked(d), Chunk(d)
  PROVE  Chunked(d)'
<1> DEFINE n == Len(domains)
           m == Step(d)
           e == EncodedLen(d.bytes)
           end == IF i + m < e THEN i + m ELSE e
           new == Index(n) \o SubSeq(Contents(d), i + 1, end)
<1>1. domains \in Seq(Seq(Chars)) /\ n \in Nat /\ i = n * m /\ i < e
  BY DEF Chunked, Chunk
<1>2. domains' = Append(domains, new) /\ i' = i + m
  BY DEF Chunk
<1>3. m \in Nat \ {0} /\ (n + 1) * m = n * m + m /\ Begins(d, n)
  BY <1>1, UptoBounds DEF Begins
<1>4. Upto(d, n) = n * m /\ Upto(d, n + 1) = IF n * m + m < e THEN n * m + m ELSE e
  BY <1>1, <1>3, UptoBounds
<1>5. Upto(d, n) = i /\ Upto(d, n + 1) = end
  BY <1>1, <1>4
<1>6. new = Label(d, n)
  BY <1>5 DEF Label
<1>7. new \in Seq(Chars)
  BY <1>1, <1>6, LabelShape
<1>8. /\ domains' \in Seq(Seq(Chars)) /\ Len(domains') = n + 1
      /\ domains'[n + 1] = new
      /\ \A k \in 1..n : domains'[k] = domains[k]
  <2> HIDE DEF new
  <2> QED BY <1>1, <1>2, <1>7
<1>9. i' = Len(domains') * m
  BY <1>1, <1>2, <1>3, <1>8
<1>10. ASSUME NEW k \in 1..(n + 1) PROVE domains'[k] = Label(d, k - 1) /\ Begins(d, k - 1)
  <2>1. CASE k = n + 1
    <3>1. k - 1 = n
      BY <1>1, <2>1
    <3> HIDE DEF n, new
    <3> QED BY <1>3, <1>6, <1>8, <2>1, <3>1
  <2>2. CASE k \in 1..n
    BY <1>8, <2>2 DEF Chunked
  <2> QED BY <1>1, <2>1, <2>2
<1> HIDE DEF n
<1>11. \A k \in 1..Len(domains') : domains'[k] = Label(d, k - 1) /\ Begins(d, k - 1)
  BY <1>8, <1>10
<1> QED BY <1>8, <1>9, <1>11 DEF Chunked, Label, Begins, Upto

\* Every step preserves the invariant.
LEMMA NextLoopInv == LoopInv /\ [DcodeNext]_dcodeVars => LoopInv'
<1> SUFFICES ASSUME LoopInv, [DcodeNext]_dcodeVars PROVE LoopInv'
  OBVIOUS
<1>0. /\ cert \in Certs /\ doc \in Nat \ {0} /\ Len(cert.docs) \in Nat
      /\ \A k \in 1..Len(cert.docs) : cert.docs[k] \in Docs
  BY CertDocs DEF LoopInv
<1>1. CASE Encode
  <2> DEFINE d == cert.docs[doc]
  <2>1. coding = "encode" /\ doc \in 1..Len(cert.docs) /\ cert' = cert
    BY <1>0, <1>1 DEF Encode
  <2>2. d \in Docs
    BY <1>0, <2>1
  <2>3. CASE Step(d) < 0 /\ coding' = "panic" /\ UNCHANGED <<doc, i, domains>>
    <3>1. ~Room(d)
      BY <2>2, <2>3 DEF Room, Step, Docs, MaxLength
    <3> QED BY <1>0, <2>1, <2>3, <3>1 DEF LoopInv
  <2>4. CASE Chunk(d) /\ UNCHANGED <<coding, doc>>
    <3>1. Room(d) => Chunked(d)
      BY <2>1 DEF LoopInv
    <3>2. PICK c \in Docs : c = d
      BY <2>2
    <3>3. Room(c) => Chunked(c)'
      BY <2>4, <3>1, <3>2, NextChunk
    <3>4. cert'.docs[doc'] = c
      BY <2>1, <2>4, <3>2
    <3> QED BY <1>0, <2>1, <2>4, <3>3, <3>4 DEF LoopInv
  <2>5. CASE doc' = doc + 1 /\ i' = 0 /\ domains' = <<>> /\ coding' = coding
    <3>1. ASSUME doc' <= Len(cert.docs), Room(cert.docs[doc'])
          PROVE  Chunked(cert.docs[doc])'
      <4>1. PICK c \in Docs : c = cert.docs[doc']
        BY <1>0, <2>5, <3>1
      <4>2. Step(c) \in Nat
        BY <3>1, <4>1, UptoBounds
      <4>3. Chunked(c)'
        BY <2>5, <4>2 DEF Chunked
      <4> QED BY <2>1, <4>1, <4>3
    <3> QED BY <1>0, <2>1, <2>5, <3>1 DEF LoopInv
  <2> QED BY <1>1, <2>3, <2>4, <2>5 DEF Encode
<1>2. CASE Extract
  BY <1>0, <1>2 DEF Extract, LoopInv
<1>3. CASE Decode
  <2>1. coding = "decode" /\ UNCHANGED <<cert, doc>>
    BY <1>3 DEF Decode
  <2> QED BY <1>0, <2>1 DEF LoopInv
<1>4. CASE UNCHANGED dcodeVars
  BY <1>4 DEF dcodeVars, LoopInv, Chunked
<1> QED BY <1>1, <1>2, <1>3, <1>4 DEF DcodeNext

\* The loop's invariant holds in every state.
THEOREM LoopInductive == DcodeSpec => []LoopInv
  BY InitLoopInv, NextLoopInv, PTL DEF DcodeSpec

\* Encode neither panics nor makes more names than the arithmetic says, for
\* documents and domains of any length, unless the domain leaves no room.
THEOREM EncodeEnds == DcodeSpec => []EncodeEndsGivenRoom
<1>1. LoopInv => EncodeEndsGivenRoom
  <2> SUFFICES ASSUME LoopInv, doc <= Len(cert.docs), Room(cert.docs[doc])
               PROVE  /\ coding # "panic"
                      /\ Len(domains) <= Chunks(cert.docs[doc].bytes, cert.docs[doc].domainLen)
    <3>1. doc <= Len(cert.docs) /\ LoopInv => MaxLength(cert.docs[doc].domainLen) \in Int
      BY CertDocs DEF LoopInv, MaxLength, Docs
    <3> QED BY <3>1 DEF EncodeEndsGivenRoom, Room
  <2> DEFINE d == cert.docs[doc]
             n == Len(domains)
             q == Chunks(d.bytes, d.domainLen)
  <2>1. d \in Docs /\ Chunked(d) /\ coding = "encode"
    BY CertDocs DEF LoopInv
  <2>2. n \in Nat /\ (n > 0 => Begins(d, n - 1))
    BY <2>1 DEF Chunked
  <2>3. q \in Nat /\ \A j \in Nat : Begins(d, j) => j < q
    BY <2>1, ChunksEnd
  <2> HIDE DEF n, q, d
  <2>4. n <= q
    BY <2>2, <2>3
  <2> QED BY <2>1, <2>4 DEF n, q, d
<1> QED BY LoopInductive, <1>1, PTL

-----------------------------------------------------------------------------
(* Dcode: what an attestation's names are joined to.                       *)

\* The names of distinct chunks are distinct: at the same place they have
\* different characters of the document, or one has a digit.
LEMMA LabelsDiffer ==
  ASSUME NEW d \in Docs, Room(d), NEW j \in Nat, NEW k \in Nat,
         Begins(d, j), Begins(d, k), Label(d, j) = Label(d, k)
  PROVE  j = k
<1> DEFINE m == Step(d)
<1>1. /\ m \in Nat \ {0} /\ j * m \in Nat /\ k * m \in Nat
      /\ Upto(d, j) = j * m /\ Upto(d, k) = k * m
      /\ 1 \in 1..(Upto(d, j + 1) - Upto(d, j)) /\ 1 \in 1..(Upto(d, k + 1) - Upto(d, k))
  <2>1. ASSUME NEW n \in Nat, Begins(d, n)
        PROVE  /\ m \in Nat \ {0} /\ n * m \in Nat /\ Upto(d, n) = n * m
               /\ 1 \in 1..(Upto(d, n + 1) - Upto(d, n))
    <3>1. /\ Upto(d, n) \in Nat /\ Upto(d, n + 1) \in Nat /\ Upto(d, n) < Upto(d, n + 1)
          /\ m \in Nat \ {0} /\ n * m \in Nat /\ Upto(d, n) = n * m
      BY <2>1, UptoBounds
    <3> HIDE DEF m
    <3> QED BY <3>1
  <2> HIDE DEF m
  <2> QED BY <2>1
<1>2. /\ Label(d, j)[Width(j) + 1] = Char(d.zone, j * m + 1)
      /\ Label(d, k)[Width(k) + 1] = Char(d.zone, k * m + 1)
  <2>1. \A n \in Nat : 1 \in 1..(Upto(d, n + 1) - Upto(d, n)) =>
          Label(d, n)[Width(n) + 1] = Char(d.zone, Upto(d, n) + 1)
    BY LabelShape
  <2> QED BY <1>1, <2>1
<1>3. \A n \in Nat : n >= 100 => Label(d, n)[3] = Char("digit", n % 10)
  <2> SUFFICES ASSUME NEW n \in Nat, n >= 100 PROVE Label(d, n)[3] = Char("digit", n % 10)
    OBVIOUS
  <2>1. 3 \in 1..Width(n)
    BY DEF Width
  <2> QED BY <2>1, LabelShape, IndexShape
<1>4. d.zone # "digit"
  BY DEF Docs
<1>5. CASE Width(j) = Width(k)
  <2>1. j * m = k * m
    BY <1>1, <1>2, <1>5 DEF Char
  <2> HIDE DEF m
  <2> QED BY <1>1, <2>1
<1>6. CASE j < 100 /\ k >= 100
  <2>1. Label(d, j)[3] = Char(d.zone, j * m + 1) /\ Label(d, k)[3] = Char("digit", k % 10)
    BY <1>2, <1>3, <1>6 DEF Width
  <2> QED BY <1>4, <2>1 DEF Char
<1>7. CASE k < 100 /\ j >= 100
  <2>1. Label(d, k)[3] = Char(d.zone, k * m + 1) /\ Label(d, j)[3] = Char("digit", j % 10)
    BY <1>2, <1>3, <1>7 DEF Width
  <2> QED BY <1>4, <2>1 DEF Char
<1> QED BY <1>5, <1>6, <1>7 DEF Width

\* Up to 100 names the prefixes are in the order of the chunks.
LEMMA PrefixOrder ==
  ASSUME NEW d \in Docs, Room(d), NEW j \in 0..99, NEW k \in 0..99,
         Begins(d, j), Begins(d, k), Prefix(Label(d, k)) <= Prefix(Label(d, j))
  PROVE  k <= j
<1>0. ASSUME NEW n \in 0..99
      PROVE  /\ n \div 10 \in Int /\ n % 10 \in 0..9
             /\ n = 10 * (n \div 10) + (n % 10)
  OBVIOUS
<1>1. ASSUME NEW n \in 0..99, Begins(d, n)
      PROVE  Prefix(Label(d, n)) = 100 * (n \div 10) + (n % 10)
  <2>1. Width(n) = 2 /\ n \in Nat /\ n < 100
    BY DEF Width
  <2>2. Len(Label(d, n)) \in Nat /\ Len(Label(d, n)) > 1
    <3>1. Len(Label(d, n)) = 2 + (Upto(d, n + 1) - Upto(d, n))
      BY <2>1, LabelShape
    <3>2. Upto(d, n) \in Nat /\ Upto(d, n + 1) \in Nat /\ Upto(d, n) <= Upto(d, n + 1)
      BY <2>1, UptoBounds
    <3> QED BY <3>1, <3>2
  <2>3. 1 \in 1..Width(n) /\ 2 \in 1..Width(n)
    BY <2>1
  <2>4. /\ Label(d, n)[1] = Char("digit", n \div 10)
        /\ Label(d, n)[2] = Char("digit", n % 10)
    BY <2>1, <2>3, LabelShape, IndexShape
  <2>5. \A x \in Int : Rank(Char("digit", x)) = x
    BY DEF Rank, Char
  <2>6. Rank(Label(d, n)[1]) = n \div 10 /\ Rank(Label(d, n)[2]) = n % 10
    BY <2>4, <2>5
  <2> QED BY <1>0, <2>2, <2>6 DEF Prefix
<1>2. 100 * (k \div 10) + (k % 10) <= 100 * (j \div 10) + (j % 10)
  BY <1>1
<1> QED BY <1>0, <1>2

\* The certificate's only document, the number of its names, and the names from
\* chunk j on.
Doc1    == cert.docs[1]
Count1  == Chunks(Doc1.bytes, Doc1.domainLen)
Named(k) == Name("att", Label(Doc1, k))
From(j) == {Named(k) : k \in j..(Count1 - 1)}

\* What the properties call the attestation is that document.
LEMMA OnlyDocument ==
  ASSUME cert \in Certs, AttestationOnly
  PROVE  /\ Doc1 \in Docs /\ Room(Doc1) /\ Doc1.zone = "att"
         /\ Attestation = Doc1 /\ Count1 \in Nat
         /\ \A k \in Nat : Begins(Doc1, k) <=> k < Count1
<1>1. Doc1 \in Docs /\ Room(Doc1) /\ Doc1.zone = "att"
  BY CertDocs DEF AttestationOnly, Doc1, Room
<1>2. {cert.docs[k] : k \in 1..Len(cert.docs)} = {Doc1}
  BY DEF AttestationOnly, Doc1
<1>3. Attestation = Doc1
  BY <1>1, <1>2 DEF Attestation
<1>4. Count1 \in Nat /\ \A k \in Nat : Begins(Doc1, k) <=> k < Count1
  BY <1>1, ChunksEnd DEF Count1
<1> QED BY <1>1, <1>3, <1>4

\* Distinct chunks have distinct names.
LEMMA NamedDiffer ==
  ASSUME cert \in Certs, AttestationOnly,
         NEW j \in 0..(Count1 - 1), NEW k \in 0..(Count1 - 1), Named(j) = Named(k)
  PROVE  j = k
<1>1. /\ Doc1 \in Docs /\ Room(Doc1) /\ j \in Nat /\ k \in Nat
      /\ Begins(Doc1, j) /\ Begins(Doc1, k)
  BY OnlyDocument
<1>2. Label(Doc1, j) = Label(Doc1, k)
  BY DEF Named, Name
<1> QED BY <1>1, <1>2, LabelsDiffer

\* There are as many names as chunks.
LEMMA NamesCounted ==
  ASSUME cert \in Certs, AttestationOnly PROVE Cardinality(From(0)) = Count1
<1> DEFINE f == [k \in 1..Count1 |-> Named(k - 1)]
<1>1. Count1 \in Nat
  BY OnlyDocument
<1>2. \A k \in 1..Count1 : k - 1 \in 0..(Count1 - 1) /\ Named(k - 1) \in From(0)
  BY <1>1 DEF From
<1>3. f \in [1..Count1 -> From(0)]
  BY <1>2
<1>4. \A a, b \in 1..Count1 : f[a] = f[b] => a = b
  <2> SUFFICES ASSUME NEW a \in 1..Count1, NEW b \in 1..Count1, Named(a - 1) = Named(b - 1)
               PROVE  a = b
    OBVIOUS
  <2>1. a - 1 = b - 1
    BY <1>2, NamedDiffer
  <2> QED BY <1>1, <2>1
<1>5. \A x \in From(0) : \E k \in 1..Count1 : f[k] = x
  <2> SUFFICES ASSUME NEW x \in From(0) PROVE \E k \in 1..Count1 : f[k] = x
    OBVIOUS
  <2>1. PICK j \in 0..(Count1 - 1) : x = Named(j)
    BY DEF From
  <2>2. j + 1 \in 1..Count1 /\ (j + 1) - 1 = j
    BY <1>1
  <2>3. f[j + 1] = x
    BY <2>1, <2>2
  <2> QED BY <2>2, <2>3
<1>6. f \in Bijection(1..Count1, From(0))
  BY <1>3, <1>4, <1>5 DEF Bijection, Injection, Surjection, IsInjective
<1>7. ExistsBijection(1..Count1, From(0))
  BY <1>6 DEF ExistsBijection
<1>8. IsFiniteSet(1..Count1) /\ Cardinality(1..Count1) = Count1
  BY <1>1, FS_Interval
<1> QED BY <1>7, <1>8, FS_Bijection

\* The certificate gets all names at once, when the loop has ended.
SansInv ==
  AttestationOnly => /\ doc = 1 => sans = {}
                     /\ doc # 1 => sans = From(0)

\* The characters up to chunk j are joined, and the names from chunk j on are left.
JoinedUpto(j) ==
  /\ rest = From(j)
  /\ decoded \in Seq(Chars) /\ Len(decoded) = Upto(Doc1, j)
  /\ \A q \in 1..Len(decoded) : decoded[q] = Char("att", q)

\* A digit of an index is among what is joined.
Spoilt ==
  /\ decoded \in Seq(Chars) /\ rest \subseteq From(0)
  /\ Named(100) \in rest \/ \E q \in 1..Len(decoded) : decoded[q].of = "digit"

JoinInv ==
  AttestationOnly =>
    /\ coding = "encode" => decoded = <<>>
    /\ coding = "done" => rest = {}
    /\ coding \in {"decode", "done"} =>
         /\ Count1 <= 100 => \E j \in 0..Count1 : JoinedUpto(j)
         /\ Count1 > 100 => Spoilt

DcodeInv == LoopInv /\ SansInv /\ JoinInv

\* The invariant holds before the first document.
LEMMA InitDcodeInv == DcodeInit => DcodeInv
<1> SUFFICES ASSUME DcodeInit PROVE DcodeInv
  OBVIOUS
<1>1. SansInv
  BY DEF DcodeInit, SansInv, AttestationOnly
<1>2. JoinInv
  BY DEF DcodeInit, JoinInv
<1> QED BY <1>1, <1>2, InitLoopInv DEF DcodeInv

\* When the loop has ended it has made the names of all chunks.
LEMMA LoopMakesAll ==
  ASSUME cert \in Certs, AttestationOnly, Chunked(Doc1), i >= EncodedLen(Doc1.bytes)
  PROVE  {Name(Doc1.zone, domains[k]) : k \in 1..Len(domains)} = From(0)
<1> DEFINE n == Len(domains)
<1>1. /\ Doc1 \in Docs /\ Room(Doc1) /\ Doc1.zone = "att" /\ Count1 \in Nat
      /\ \A k \in Nat : Begins(Doc1, k) <=> k < Count1
  BY OnlyDocument
<1>2. /\ n \in Nat /\ i = n * Step(Doc1)
      /\ \A k \in 1..n : domains[k] = Label(Doc1, k - 1) /\ Begins(Doc1, k - 1)
  BY DEF Chunked
<1>3. ~Begins(Doc1, n)
  BY <1>1, <1>2, UptoBounds DEF Begins
<1> HIDE DEF n
<1>4. n = Count1
  <2>1. ~(n < Count1)
    BY <1>1, <1>2, <1>3
  <2>2. n > 0 => n - 1 < Count1
    BY <1>1, <1>2
  <2> QED BY <1>1, <1>2, <2>1, <2>2
<1>5. \A k \in 1..n : Name(Doc1.zone, domains[k]) = Named(k - 1) /\ k - 1 \in 0..(Count1 - 1)
  BY <1>1, <1>2, <1>4 DEF Named
<1>6. \A k \in 0..(Count1 - 1) : k + 1 \in 1..n /\ Named(k) = Name(Doc1.zone, domains[k + 1])
  <2> SUFFICES ASSUME NEW k \in 0..(Count1 - 1)
               PROVE  k + 1 \in 1..n /\ Named(k) = Name(Doc1.zone, domains[k + 1])
    OBVIOUS
  <2>1. k + 1 \in 1..n /\ (k + 1) - 1 = k
    BY <1>1, <1>4
  <2>2. Name(Doc1.zone, domains[k + 1]) = Named((k + 1) - 1)
    BY <1>5, <2>1
  <2> QED BY <2>1, <2>2
<1>7. {Name(Doc1.zone, domains[k]) : k \in 1..n} = {Named(k) : k \in 0..(Count1 - 1)}
  BY <1>5, <1>6
<1> QED BY <1>7 DEF From, n

\* Sorting by prefix takes the next chunk, and its characters are joined in place.
LEMMA JoinsNext ==
  ASSUME cert \in Certs, AttestationOnly, Count1 <= 100,
         NEW j \in 0..Count1, JoinedUpto(j), NEW x \in rest, First(x),
         cert' = cert, rest' = rest \ {x},
         decoded' = decoded \o SubSeq(x.label, 3, Len(x.label))
  PROVE  j + 1 \in 0..Count1 /\ JoinedUpto(j + 1)'
<1>1. /\ Doc1 \in Docs /\ Room(Doc1) /\ Doc1.zone = "att" /\ Count1 \in Nat
      /\ \A k \in Nat : Begins(Doc1, k) <=> k < Count1
  BY OnlyDocument
<1>2. PICK k \in j..(Count1 - 1) : x = Named(k)
  BY DEF JoinedUpto, From
<1>3. j \in 0..(Count1 - 1) /\ k \in 0..(Count1 - 1) /\ Named(j) \in rest
  BY <1>1, <1>2 DEF JoinedUpto, From
<1>4. k = j
  <2>1. Prefix(Label(Doc1, k)) <= Prefix(Label(Doc1, j))
    BY <1>2, <1>3 DEF First, Named, Name
  <2>2. j \in 0..99 /\ k \in 0..99 /\ Begins(Doc1, j) /\ Begins(Doc1, k)
    BY <1>1, <1>3
  <2>3. k <= j
    BY <1>1, <2>1, <2>2, PrefixOrder
  <2> QED BY <1>1, <1>2, <2>3
<1> DEFINE l == Label(Doc1, j)
           a == Upto(Doc1, j)
           b == Upto(Doc1, j + 1)
           chunk == SubSeq(l, 3, Len(l))
<1>5. a \in Nat /\ b \in Nat /\ a <= b
  BY <1>1, <1>3, UptoBounds
<1>6. /\ l \in Seq(Chars) /\ Len(l) = 2 + (b - a)
      /\ \A q \in 1..(b - a) : l[2 + q] = Char("att", a + q)
  <2>1. Width(j) = 2 /\ j \in Nat
    BY <1>1, <1>3 DEF Width
  <2> QED BY <1>1, <2>1, LabelShape
<1>7. x.label = l
  BY <1>2, <1>4 DEF Named, Name
<1>8. decoded' = decoded \o chunk
  BY <1>7
<1> HIDE DEF l, a, b
<1>9. /\ chunk \in Seq(Chars) /\ Len(chunk) = b - a
      /\ \A q \in 1..(b - a) : chunk[q] = Char("att", a + q)
  <2>1. PICK s \in Seq(Chars) : s = l
    BY <1>6
  <2>2. PICK n \in Nat : n = b - a
    BY <1>5
  <2>3. 2 + n = Len(s) /\ 2 + n \in Nat /\ 2 <= 2 + n /\ (2 + n) - 2 = n /\ 2 + 1 = 3
    BY <1>6, <2>1, <2>2
  <2>4. /\ SubSeq(s, 2 + 1, 2 + n) \in Seq(Chars)
        /\ Len(SubSeq(s, 2 + 1, 2 + n)) = (2 + n) - 2
        /\ \A q \in 1..((2 + n) - 2) : SubSeq(s, 2 + 1, 2 + n)[q] = s[2 + q]
    BY <2>3, Cut
  <2>5. chunk = SubSeq(s, 2 + 1, 2 + n)
    BY <2>1, <2>3
  <2> HIDE DEF chunk
  <2> QED BY <1>6, <2>1, <2>2, <2>3, <2>4, <2>5
<1>10. /\ decoded \in Seq(Chars) /\ Len(decoded) = a
       /\ \A q \in 1..a : decoded[q] = Char("att", q)
  BY DEF JoinedUpto, a
<1> HIDE DEF chunk
<1>11. /\ decoded' \in Seq(Chars) /\ Len(decoded') = b
       /\ \A q \in 1..b : decoded'[q] = Char("att", q)
  <2>1. /\ decoded' \in Seq(Chars) /\ Len(decoded') = Len(decoded) + Len(chunk)
        /\ \A q \in 1..Len(decoded) : decoded'[q] = decoded[q]
        /\ \A q \in 1..Len(chunk) : decoded'[Len(decoded) + q] = chunk[q]
    <3>1. PICK s \in Seq(Chars) : s = decoded
      BY <1>10
    <3>2. PICK t \in Seq(Chars) : t = chunk
      BY <1>9
    <3>3. decoded' = s \o t
      BY <1>8, <3>1, <3>2
    <3>4. /\ s \o t \in Seq(Chars) /\ Len(s \o t) = Len(s) + Len(t)
          /\ \A q \in 1..Len(s) : (s \o t)[q] = s[q]
          /\ \A q \in 1..Len(t) : (s \o t)[Len(s) + q] = t[q]
      BY Joined
    <3> QED BY <3>1, <3>2, <3>3, <3>4
  <2>2. ASSUME NEW q \in 1..b PROVE decoded'[q] = Char("att", q)
    <3>1. CASE q \in 1..a
      BY <1>10, <2>1, <3>1
    <3>2. CASE q > a
      <4>1. q - a \in 1..(b - a) /\ a + (q - a) = q
        BY <1>5, <3>2
      <4>2. decoded'[a + (q - a)] = chunk[q - a] /\ chunk[q - a] = Char("att", a + (q - a))
        BY <1>9, <1>10, <2>1, <4>1
      <4> QED BY <4>1, <4>2
    <3>3. q \in 1..a \/ q > a
      BY <1>5
    <3> QED BY <3>1, <3>2, <3>3
  <2>3. Len(decoded') = b
    BY <1>5, <1>9, <1>10, <2>1
  <2> QED BY <2>1, <2>2, <2>3
<1>12. rest' = From(j + 1)
  <2>1. rest = From(j) /\ x = Named(j)
    BY <1>2, <1>4 DEF JoinedUpto
  <2>2. \A y : y \in From(j) /\ y # Named(j) <=> y \in From(j + 1)
    <3>1. ASSUME NEW y \in From(j), y # Named(j) PROVE y \in From(j + 1)
      <4>1. PICK c \in j..(Count1 - 1) : y = Named(c)
        BY DEF From
      <4>2. c \in (j + 1)..(Count1 - 1)
        BY <1>1, <1>3, <3>1, <4>1
      <4> QED BY <4>1, <4>2 DEF From
    <3>2. ASSUME NEW y \in From(j + 1) PROVE y \in From(j) /\ y # Named(j)
      <4>1. PICK c \in (j + 1)..(Count1 - 1) : y = Named(c)
        BY DEF From
      <4>2. c \in j..(Count1 - 1) /\ c \in 0..(Count1 - 1) /\ c # j
        BY <1>1, <1>3, <4>1
      <4>3. Named(c) # Named(j)
        BY <1>3, <4>2, NamedDiffer
      <4> QED BY <4>1, <4>2, <4>3 DEF From
    <3> QED BY <3>1, <3>2
  <2> QED BY <2>1, <2>2
<1>13. Doc1' = Doc1 /\ From(j + 1)' = From(j + 1) /\ Upto(Doc1, j + 1)' = b
  BY DEF Doc1, From, Count1, Named, Name, Label, Contents, Char, Index, Upto, Step, b
<1> QED BY <1>1, <1>3, <1>11, <1>12, <1>13 DEF JoinedUpto

\* The name of chunk 100 loses two of its three digits, and what is joined keeps
\* the third, wherever it comes in the order.
LEMMA StaysSpoilt ==
  ASSUME cert \in Certs, AttestationOnly, Count1 > 100, Spoilt, NEW x \in rest,
         cert' = cert, rest' = rest \ {x},
         decoded' = decoded \o SubSeq(x.label, 3, Len(x.label))
  PROVE  Spoilt'
<1>1. Doc1 \in Docs /\ Room(Doc1) /\ Count1 \in Nat
  BY OnlyDocument
<1>2. PICK k \in 0..(Count1 - 1) : x = Named(k)
  BY DEF Spoilt, From
<1> DEFINE l == Label(Doc1, k)
           tail == SubSeq(l, 3, Len(l))
<1>3. x.label = l /\ k \in Nat
  BY <1>1, <1>2 DEF Named, Name
<1>4. l \in Seq(Chars)
  BY <1>1, <1>3, LabelShape
<1>5. k = 100 => Len(l) >= 3 /\ l[3].of = "digit"
  <2> SUFFICES ASSUME k = 100 PROVE Len(l) >= 3 /\ l[3].of = "digit"
    OBVIOUS
  <2>1. Width(k) = 3 /\ k >= 100 /\ 3 \in 1..Width(k)
    BY <1>3 DEF Width
  <2>2. Upto(Doc1, k) \in Nat /\ Upto(Doc1, k + 1) \in Nat /\ Upto(Doc1, k) <= Upto(Doc1, k + 1)
    BY <1>1, <1>3, UptoBounds
  <2>3. Len(l) = 3 + (Upto(Doc1, k + 1) - Upto(Doc1, k)) /\ l[3] = Index(k)[3]
    <3>1. Len(l) = Width(k) + (Upto(Doc1, k + 1) - Upto(Doc1, k))
      BY <1>1, <1>3, LabelShape
    <3>2. \A q \in 1..Width(k) : l[q] = Index(k)[q]
      BY <1>1, <1>3, LabelShape
    <3> QED BY <2>1, <3>1, <3>2
  <2>4. l[3] = Char("digit", k % 10)
    BY <1>3, <2>1, <2>3, IndexShape
  <2> QED BY <2>2, <2>3, <2>4 DEF Char
<1> HIDE DEF l
<1>6. tail \in Seq(Chars) /\ (k = 100 => 1 \in 1..Len(tail) /\ tail[1] = l[3])
  BY <1>4, <1>5
<1>7. PICK s \in Seq(Chars) : s = decoded
  BY DEF Spoilt
<1>8. PICK t \in Seq(Chars) : t = tail
  BY <1>6
<1>9. decoded' = s \o t
  BY <1>3, <1>7, <1>8
<1>10. /\ s \o t \in Seq(Chars) /\ Len(s \o t) = Len(s) + Len(t)
       /\ \A q \in 1..Len(s) : (s \o t)[q] = s[q]
       /\ \A q \in 1..Len(t) : (s \o t)[Len(s) + q] = t[q]
  BY Joined
<1>11. Named(100)' = Named(100) /\ From(0)' = From(0)
  BY DEF Doc1, From, Count1, Named, Name, Label, Contents, Char, Index, Upto, Step
<1>12. Named(100) \in rest' \/ \E q \in 1..Len(decoded') : decoded'[q].of = "digit"
  <2>1. CASE k = 100
    <3>1. Len(s) + 1 \in 1..Len(s \o t) /\ (s \o t)[Len(s) + 1] = t[1]
      BY <1>6, <1>8, <1>10, <2>1
    <3>2. t[1].of = "digit"
      BY <1>5, <1>6, <1>8, <2>1
    <3> QED BY <1>9, <3>1, <3>2
  <2>2. CASE \E q \in 1..Len(decoded) : decoded[q].of = "digit"
    <3>1. PICK q \in 1..Len(s) : s[q].of = "digit"
      BY <1>7, <2>2
    <3>2. q \in 1..Len(s \o t) /\ (s \o t)[q] = s[q]
      BY <1>10
    <3> QED BY <1>9, <3>1, <3>2
  <2>3. CASE Named(100) \in rest /\ k # 100
    <3>1. 100 \in 0..(Count1 - 1)
      BY <1>1
    <3>2. x # Named(100)
      BY <1>2, <2>3, <3>1, NamedDiffer
    <3> QED BY <2>3, <3>2
  <2> QED BY <2>1, <2>2, <2>3 DEF Spoilt
<1>13. decoded' \in Seq(Chars) /\ rest' \subseteq From(0)
  BY <1>9, <1>10 DEF Spoilt
<1> QED BY <1>11, <1>12, <1>13 DEF Spoilt

\* Every step preserves the invariant.
LEMMA NextDcodeInv == DcodeInv /\ [DcodeNext]_dcodeVars => DcodeInv'
<1> SUFFICES ASSUME DcodeInv, [DcodeNext]_dcodeVars, AttestationOnly PROVE SansInv' /\ JoinInv'
  <2>1. [DcodeNext]_dcodeVars => cert' = cert
    BY DEF DcodeNext, Encode, Extract, Decode, dcodeVars
  <2>2. cert' = cert => (AttestationOnly' <=> AttestationOnly)
    BY DEF AttestationOnly
  <2> QED BY <2>1, <2>2, NextLoopInv DEF DcodeInv, SansInv, JoinInv
<1>0. /\ cert \in Certs /\ doc \in Nat \ {0} /\ Len(cert.docs) = 1
      /\ Doc1 \in Docs /\ Room(Doc1) /\ Doc1.zone = "att" /\ Count1 \in Nat
      /\ coding \in {"decode", "done"} => doc # 1
  BY OnlyDocument DEF DcodeInv, LoopInv, AttestationOnly
<1>1. cert' = cert
  BY DEF DcodeNext, Encode, Extract, Decode, dcodeVars
<1>2. /\ Doc1' = Doc1 /\ Count1' = Count1 /\ Named(100)' = Named(100)
      /\ \A j : From(j)' = From(j) /\ Upto(Doc1, j)' = Upto(Doc1, j)
  BY <1>1 DEF Doc1, From, Count1, Named, Name, Label, Contents, Char, Index, Upto, Step
<1>3. CASE Encode
  <2>1. coding = "encode" /\ doc = 1 /\ UNCHANGED <<rest, decoded>> /\ coding' \in {"encode", "panic"}
    BY <1>0, <1>3 DEF Encode
  <2>2. JoinInv'
    BY <2>1 DEF DcodeInv, JoinInv
  <2>3. CASE doc' = doc /\ sans' = sans
    BY <2>1, <2>2, <2>3 DEF DcodeInv, SansInv
  <2>4. CASE /\ i >= EncodedLen(Doc1.bytes) /\ doc' = doc + 1
             /\ sans' = sans \cup {Name(Doc1.zone, domains[k]) : k \in 1..Len(domains)}
    <3>1. Chunked(Doc1)
      BY <1>0, <2>1 DEF DcodeInv, LoopInv, Doc1
    <3>2. sans' = sans \cup From(0)
      BY <1>0, <2>4, <3>1, LoopMakesAll
    <3>3. sans = {}
      BY <2>1 DEF DcodeInv, SansInv
    <3> QED BY <1>2, <2>1, <2>2, <2>4, <3>2, <3>3 DEF SansInv
  <2> QED BY <1>3, <2>1, <2>2, <2>3, <2>4 DEF Encode, Doc1
<1>4. CASE Extract
  <2>1. /\ coding = "encode" /\ doc # 1 /\ coding' = "decode"
        /\ rest' = {n \in sans : ~\E other \in sans : Below(other, n)}
        /\ UNCHANGED <<doc, sans, decoded>>
    BY <1>0, <1>4 DEF Extract
  <2>2. sans = From(0) /\ decoded = <<>>
    BY <2>1 DEF DcodeInv, SansInv, JoinInv
  <2>3. \A n \in sans : n.zone = "att"
    BY <2>2 DEF From, Named, Name
  <2>4. rest' = From(0)
    BY <2>1, <2>2, <2>3 DEF Below
  <2>5. SansInv'
    BY <1>2, <2>1, <2>2 DEF SansInv
  <2>6. decoded' \in Seq(Chars) /\ Len(decoded') = 0
    BY <2>1, <2>2
  <2>7. Upto(Doc1, 0) = 0
    <3>1. Step(Doc1) \in Nat \ {0} /\ EncodedLen(Doc1.bytes) \in Nat
      BY <1>0, UptoBounds
    <3> QED BY <3>1 DEF Upto
  <2>8. JoinedUpto(0)'
    BY <1>2, <2>4, <2>6, <2>7 DEF JoinedUpto
  <2>9. Count1 > 100 => Spoilt'
    <3> SUFFICES ASSUME Count1 > 100 PROVE Spoilt'
      OBVIOUS
    <3>1. Named(100) \in From(0)
      BY <1>0 DEF From
    <3> QED BY <1>2, <2>4, <2>6, <3>1 DEF Spoilt
  <2> QED BY <1>0, <1>2, <2>1, <2>5, <2>8, <2>9 DEF JoinInv
<1>5. CASE Decode
  <2>1. coding = "decode" /\ UNCHANGED <<doc, sans>>
    BY <1>5 DEF Decode
  <2>2. SansInv'
    BY <1>2, <2>1 DEF DcodeInv, SansInv
  <2>3. /\ Count1 <= 100 => \E j \in 0..Count1 : JoinedUpto(j)
        /\ Count1 > 100 => Spoilt
    BY <2>1 DEF DcodeInv, JoinInv
  <2>4. CASE coding' = "panic"
    BY <2>2, <2>4 DEF JoinInv
  <2>5. CASE rest = {} /\ coding' = "done" /\ UNCHANGED <<rest, decoded>>
    <3>1. Spoilt => Spoilt'
      BY <1>2, <2>5 DEF Spoilt
    <3>2. \A j : JoinedUpto(j) => JoinedUpto(j)'
      BY <1>2, <2>5 DEF JoinedUpto
    <3> QED BY <1>2, <2>2, <2>3, <2>5, <3>1, <3>2 DEF JoinInv
  <2>6. ASSUME NEW n \in rest, First(n), coding' = coding, rest' = rest \ {n},
               decoded' = decoded \o SubSeq(n.label, 3, Len(n.label))
        PROVE  JoinInv'
    <3>1. Count1 > 100 => Spoilt'
      BY <1>0, <1>1, <2>3, <2>6, StaysSpoilt
    <3>2. Count1 <= 100 => \E j \in 0..Count1 : JoinedUpto(j)'
      <4> SUFFICES ASSUME Count1 <= 100 PROVE \E j \in 0..Count1 : JoinedUpto(j)'
        OBVIOUS
      <4>1. PICK j \in 0..Count1 : JoinedUpto(j)
        BY <2>3
      <4>2. j + 1 \in 0..Count1 /\ JoinedUpto(j + 1)'
        BY <1>0, <1>1, <2>6, <4>1, JoinsNext
      <4> QED BY <4>2
    <3> QED BY <1>2, <2>1, <2>6, <3>1, <3>2 DEF JoinInv
  <2> QED BY <1>5, <2>2, <2>4, <2>5, <2>6 DEF Decode
<1>6. CASE UNCHANGED dcodeVars
  BY <1>2, <1>6 DEF dcodeVars, DcodeInv, SansInv, JoinInv, JoinedUpto, Spoilt
<1> QED BY <1>3, <1>4, <1>5, <1>6 DEF DcodeNext

\* The invariant of encoding and decoding holds in every state.
THEOREM DcodeInductive == DcodeSpec => []DcodeInv
  BY InitDcodeInv, NextDcodeInv, PTL DEF DcodeSpec

\* An attestation of any size is published under as many names as the
\* arithmetic says, and up to 100 of them fit into a DNS label.
THEOREM Fit == DcodeSpec => []NamesFit
<1>1. DcodeInv => NamesFit
  <2> SUFFICES ASSUME DcodeInv, coding = "decode", AttestationOnly
               PROVE  /\ Cardinality(sans) = Count1
                      /\ Cardinality(sans) <= 100 =>
                           \A n \in sans : Len(n.label) + 1 + Doc1.domainLen <= 63
    <3>1. DcodeInv /\ AttestationOnly => Attestation = Doc1
      BY OnlyDocument DEF DcodeInv, LoopInv
    <3> QED BY <3>1 DEF NamesFit, Count1
  <2>1. /\ cert \in Certs /\ doc # 1
        /\ Doc1 \in Docs /\ Room(Doc1) /\ Count1 \in Nat
        /\ \A k \in Nat : Begins(Doc1, k) <=> k < Count1
    BY OnlyDocument DEF DcodeInv, LoopInv, AttestationOnly
  <2>2. sans = From(0) /\ Cardinality(sans) = Count1
    BY <2>1, NamesCounted DEF DcodeInv, SansInv
  <2>3. ASSUME Count1 <= 100, NEW n \in sans PROVE Len(n.label) + 1 + Doc1.domainLen <= 63
    <3>1. PICK k \in 0..(Count1 - 1) : n = Named(k)
      BY <2>2 DEF From
    <3>2. k \in Nat /\ Width(k) = 2 /\ Begins(Doc1, k) /\ n.label = Label(Doc1, k)
      BY <2>1, <2>3, <3>1 DEF Width, Named, Name
    <3>3. Len(Label(Doc1, k)) = 2 + (Upto(Doc1, k + 1) - Upto(Doc1, k))
      BY <2>1, <3>2, LabelShape
    <3>4. /\ Upto(Doc1, k) \in Nat /\ Upto(Doc1, k + 1) \in Nat
          /\ Upto(Doc1, k + 1) - Upto(Doc1, k) <= Step(Doc1)
      BY <2>1, <3>2, UptoBounds
    <3>5. Step(Doc1) = 60 - Doc1.domainLen /\ Doc1.domainLen \in Nat
      BY <2>1 DEF Step, MaxLength, Docs
    <3> QED BY <3>2, <3>3, <3>4, <3>5
  <2> QED BY <2>2, <2>3
<1> QED BY DcodeInductive, <1>1, PTL

\* Decoding an attestation of any size gives it back if, and only if, it takes
\* at most 100 names.
THEOREM RoundTrips == DcodeSpec => []RoundTrip
<1>1. DcodeInv => RoundTrip
  <2> SUFFICES ASSUME DcodeInv, coding = "done", AttestationOnly
               PROVE  decoded = Contents(Doc1) <=> Count1 <= 100
    <3>1. DcodeInv /\ AttestationOnly => Attestation = Doc1
      BY OnlyDocument DEF DcodeInv, LoopInv
    <3> QED BY <3>1 DEF RoundTrip, Count1
  <2>1. /\ Doc1 \in Docs /\ Room(Doc1) /\ Count1 \in Nat /\ Doc1.zone = "att"
        /\ \A k \in Nat : Begins(Doc1, k) <=> k < Count1
    BY OnlyDocument DEF DcodeInv, LoopInv
  <2>2. EncodedLen(Doc1.bytes) \in Nat
    BY <2>1, UptoBounds
  <2>3. rest = {}
    BY DEF DcodeInv, JoinInv
  <2>4. ASSUME Count1 <= 100 PROVE decoded = Contents(Doc1)
    <3>1. PICK j \in 0..Count1 : JoinedUpto(j)
      BY <2>4 DEF DcodeInv, JoinInv
    <3>2. j = Count1
      <4>1. j < Count1 => Named(j) \in From(j)
        BY <2>1 DEF From
      <4> QED BY <2>1, <2>3, <3>1, <4>1 DEF JoinedUpto
    <3>3. Upto(Doc1, j) = EncodedLen(Doc1.bytes)
      BY <2>1, <3>2 DEF Upto, Begins
    <3>4. /\ decoded \in Seq(Chars) /\ Len(decoded) = EncodedLen(Doc1.bytes)
          /\ \A q \in 1..Len(decoded) : decoded[q] = Char("att", q)
      BY <3>1, <3>3 DEF JoinedUpto
    <3>5. decoded = [k \in 1..EncodedLen(Doc1.bytes) |-> Char("att", k)]
      BY <2>2, <3>4
    <3> QED BY <2>1, <3>5 DEF Contents
  <2>5. ASSUME Count1 > 100 PROVE decoded # Contents(Doc1)
    <3>1. PICK q \in 1..Len(decoded) : decoded[q].of = "digit"
      BY <2>3, <2>5 DEF DcodeInv, JoinInv, Spoilt
    <3>2. Contents(Doc1) \in Seq(Chars) /\ Len(Contents(Doc1)) = EncodedLen(Doc1.bytes)
      <4>1. \A k \in 1..EncodedLen(Doc1.bytes) : Char("att", k) \in Chars
        BY DEF Char, Chars
      <4> QED BY <2>1, <2>2, <4>1 DEF Contents
    <3>3. \A k \in 1..EncodedLen(Doc1.bytes) : Contents(Doc1)[k].of = "att"
      BY <2>1 DEF Contents, Char
    <3> QED BY <3>1, <3>2, <3>3
  <2> QED BY <2>1, <2>4, <2>5
<1> QED BY DcodeInductive, <1>1, PTL

-----------------------------------------------------------------------------
(* The start of the shim and the decoding of what it published.            *)

\* The attestation that main() put into the list is the one that is decoded.
SameAttestation ==
  /\ phase = "ready" /\ names["att"] # 0
  /\ AttestationOnly
  /\ Doc1.bytes = machine.attBytes /\ Doc1.domainLen = 4 + SANDomainLen

PublishedDecodes == SameAttestation /\ coding = "done" => decoded = Contents(Doc1)

\* Whatever its size and the domain, an attestation that main() publishes in full
\* is decodable from its own names: the CA's limit on names, which main.go
\* checks, keeps the indices that dcode.go writes to two digits.
THEOREM PublishedIsDecodable == StartupSpec /\ DcodeSpec => []PublishedDecodes
<1>1. StartupInv /\ WithinSanLimit /\ DcodeInv /\ RoundTrip => PublishedDecodes
  <2> SUFFICES ASSUME StartupInv, WithinSanLimit, DcodeInv, RoundTrip, SameAttestation,
                      coding = "done"
               PROVE  decoded = Contents(Doc1)
    BY DEF PublishedDecodes
  <2>1. phase = "ready" /\ names["att"] # 0 /\ names \in [Zones -> Nat] /\ encoded \in [Zones -> Nat]
    BY DEF SameAttestation, StartupInv, StartupTypeOK
  <2>2. names["att"] = encoded["att"]
    BY <2>1 DEF StartupInv, ListInv, NoNames, Zones
  <2>3. names["att"] = FullNames
    <3>1. KeyOnly["att"] = 0 /\ DOMAIN KeyOnly = Zones
      BY DEF KeyOnly, NoNames, Zones
    <3>2. encoded # KeyOnly
      BY <2>1, <2>2, <3>1
    <3>3. encoded = WithDocument
      BY <2>1, <3>2 DEF StartupInv, EncodedInv
    <3> QED BY <2>1, <2>2, <3>1, <3>3 DEF WithDocument, Zones
  <2>4. Total(names) <= 100
    BY <2>1 DEF WithinSanLimit, SanLimit
  <2>5. FullNames <= 100
    BY <2>1, <2>3, <2>4 DEF Total, Zones
  <2>6. AttestationOnly /\ cert \in Certs
    BY DEF SameAttestation, DcodeInv, LoopInv
  <2>7. Attestation = Doc1
    BY <2>6, OnlyDocument
  <2>8. Chunks(Doc1.bytes, Doc1.domainLen) = FullNames
    BY DEF SameAttestation, FullNames
  <2> QED BY <2>5, <2>6, <2>7, <2>8 DEF RoundTrip
<1> QED BY <1>1, StartupInductive, SanLimitKept, DcodeInductive, RoundTrips, PTL

=============================================================================
