------------------------------ MODULE MCDcode ------------------------------
(* Certificates for TLC.  "att.tinfoil.sh" has 14 characters. *)
EXTENDS Dcode

Cert(docs, plain, own) == [docs |-> docs, plain |-> plain, ownDomain |-> own]
Doc(zone, bytes, len) == [zone |-> zone, bytes |-> bytes, domainLen |-> len]

\* Attestations of every size around the edges of a chunk, under a domain that
\* leaves three characters to a name; and of 100 and 101 chunks.
Alone ==
  {Cert(<<Doc("att", bytes, 57)>>, {}, FALSE) : bytes \in 0..6}
    \cup {Cert(<<Doc("att", bytes, 59)>>, {}, FALSE) : bytes \in {61, 62, 63, 64}}

\* What main.go publishes: the HPKE key, the attestation, and the base domain.
Published == {Cert(<<Doc("hpke", 32, 15), Doc("att", 60, 14)>>, {"base"}, FALSE)}

\* The HPKE key below a registrable domain of 56 characters: maxLength is -1.
LongDomain == {Cert(<<Doc("hpke", 32, 61)>>, {"base"}, TRUE)}
\* All of these, a wildcard certificate, encoded names below the base domain,
\* and a maxLength of zero.
Every ==
  Alone \cup Published \cup LongDomain
    \cup {Cert(<<Doc("hpke", 32, 15)>>, {"base", "wildcard"}, FALSE),
          Cert(<<Doc("hpke", 32, 16), Doc("att", 60, 15)>>, {"base"}, TRUE),
          Cert(<<Doc("hpke", 32, 60)>>, {"base"}, TRUE)}
=============================================================================
