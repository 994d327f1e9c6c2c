------------------------------ MODULE Startup ------------------------------
(***************************************************************************)
(* The start of the shim up to its list of certificate names: config.Load  *)
(* (config/config.go), the attestation (attestation.go) and the assembly   *)
(* of the SANs (main.go 39-199).  What happens with the list is the matter *)
(* of CertLifecycle, how the encoded names are cut and read of Dcode.      *)
(*                                                                         *)
(* A name is known by its zone; the list is kept as the number of names in *)
(* each zone.                                                              *)
(***************************************************************************)
EXTENDS DcodeChunks

CONSTANTS
  RawConfigs,     \* what the YAML files may say, defaults filled in
  Machines        \* the environment: [vendor, domainLen, attBytes]

Modes      == {"self-signed", "acme", "cert-proxy"}
Challenges == {"tls", "dns", "http"}
Flags      == {"wildcard", "ownSANDomain", "authenticated", "publish", "full", "dummy", "dev"}

\* Values outside Modes and Challenges are what Load is there to refuse; "bad"
\* is a control plane URL that does not parse.
RawConfig == [ upstreamPort : Nat, TLSMode : Modes \cup {"other"},
               TLSEnv : {"production", "staging", "other"},
               challenge : Challenges \cup {"other"},
               controlPlane : {"", "bad", "url"},
               domain : {"", "localhost", "public"}, flags : SUBSET Flags ]

ASSUME StartupAssumption ==
  /\ RawConfigs \subseteq RawConfig
  /\ Machines \subseteq [vendor : {"amd", "intel", "other"},
                         domainLen : Nat, attBytes : Nat \ {0}]

VARIABLES
  phase,       \* where main() is
  config,      \* config, externalConfig and the command line's flags
  machine,     \* CPU, length of the own SAN domain, size of the report
  att,         \* format of the attestation document
  encoded,     \* encodedDomains
  names        \* domains, the list in main()

startVars == <<phase, config, machine, att, encoded, names>>

Zones  == {"base", "wildcard", "hpke", "att", "hatt"}
NoNames == [z \in Zones |-> 0]
Total(n) ==
  n["base"] + n["wildcard"] + n["hpke"] + n["att"] + n["hatt"]

StartupInit ==
  /\ phase = "load"
  /\ config \in RawConfigs
  /\ machine \in Machines
  /\ att = "none"
  /\ encoded = NoNames
  /\ names = NoNames

Has(f) == f \in config.flags

Fatal == phase' = "fatal" /\ UNCHANGED <<config, machine, att, encoded, names>>

-----------------------------------------------------------------------------
\* A faulty variant: the combination of wildcard and challenge is not checked.
Valid_NoWildcardCheck ==
  /\ config.upstreamPort # 0
  /\ config.TLSMode \in Modes
  /\ config.TLSEnv \in {"production", "staging"}
  /\ config.challenge \in Challenges

\* A faulty variant: the TLS mode is not checked.
Valid_NoModeCheck ==
  /\ config.upstreamPort # 0
  /\ config.TLSEnv \in {"production", "staging"}
  /\ config.challenge \in Challenges
  /\ Has("wildcard") => config.challenge = "dns"

Valid ==
  /\ config.upstreamPort # 0
  /\ config.TLSMode \in Modes
  /\ config.TLSEnv \in {"production", "staging"}
  /\ config.challenge \in Challenges
  /\ Has("wildcard") => config.challenge = "dns"

\* config.Load: files that are missing or do not parse, then the checks.
Load ==
  /\ phase = "load"
  /\ \/ Fatal
     \/ /\ Valid
        /\ phase' = "keys"
        /\ UNCHANGED <<config, machine, att, encoded, names>>

\* The validator, the HPKE identity and the TLS key; an empty domain becomes
\* localhost.
MakeKeys ==
  /\ phase = "keys"
  /\ \/ Fatal
     \/ /\ config.controlPlane # "bad"
        /\ phase' = "attest"
        /\ config' = [config EXCEPT !.domain = IF @ = "" THEN "localhost" ELSE @]
        /\ UNCHANGED <<machine, att, encoded, names>>

\* attestationReport: the quote of the CPU's vendor.
attestationReport ==
  CASE machine.vendor = "amd" -> {"sev", "error"}
    [] machine.vendor = "intel" -> {"tdx", "error"}
    [] OTHER -> {"error"}

Dummy == config.domain = "localhost" \/ Has("dev") \/ Has("dummy")

Attest ==
  /\ phase = "attest"
  /\ \E report \in (IF Dummy THEN {"dummy"} ELSE attestationReport) :
       IF report = "error" THEN Fatal
       ELSE /\ att' = report
            /\ phase' = "encode"
            /\ UNCHANGED <<config, machine, encoded, names>>

\* encodedSANDomain, by its length: "tinfoil.sh" or the own domain, which
\* machine.domainLen gives as EffectiveTLDPlusOne or the base domain itself.
SANDomainLen == IF Has("ownSANDomain") THEN machine.domainLen ELSE 10

\* dcode.Encode panics, or never returns, for a domain that leaves no room.
HpkeRoom == MaxLength(5 + SANDomainLen)

\* The HPKE key of 32 bytes below "hpke.".
EncodeHpke ==
  /\ phase = "encode"
  /\ IF HpkeRoom < 1
       THEN phase' = "stuck" /\ UNCHANGED encoded
       ELSE /\ encoded' = [encoded EXCEPT !["hpke"] = Chunks(32, 5 + SANDomainLen)]
            /\ phase' = "publish"
  /\ UNCHANGED <<config, machine, att, names>>

\* The CA's limit on names.
SanLimit == 100

\* A faulty variant: the slot of the wildcard is not reserved.
reservedSANs_BaseOnly == 1
reservedSANs == IF Has("wildcard") THEN 2 ELSE 1

Fits(n) == n + Total(encoded) + reservedSANs <= SanLimit

\* The full document below "att." if it fits, or else nothing; or the hash, 64
\* hexadecimal digits, below "hatt.", which must fit.
FullNames == Chunks(machine.attBytes, 4 + SANDomainLen)
HashNames == Chunks(64, 5 + SANDomainLen)

\* A faulty variant: the hash is left out, like the document, if too large.
Publish_HashOptional ==
  /\ phase = "publish"
  /\ encoded' =
       CASE Has("publish") /\ Has("full") /\ Fits(FullNames) ->
              [encoded EXCEPT !["att"] = FullNames]
         [] Has("publish") /\ ~Has("full") /\ Fits(HashNames) ->
              [encoded EXCEPT !["hatt"] = HashNames]
         [] OTHER -> encoded
  /\ phase' = "assemble"
  /\ UNCHANGED <<config, machine, att, names>>

Publish ==
  /\ phase = "publish"
  /\ IF Has("publish") /\ ~Has("full") /\ ~Fits(HashNames) THEN Fatal
     ELSE /\ encoded' =
               IF ~Has("publish") THEN encoded
               ELSE IF ~Has("full") THEN [encoded EXCEPT !["hatt"] = HashNames]
               ELSE IF Fits(FullNames) THEN [encoded EXCEPT !["att"] = FullNames]
               ELSE encoded
          /\ phase' = "assemble"
          /\ UNCHANGED <<config, machine, att, names>>

\* The list by provider and challenge type.
BaseOnly == config.TLSMode # "cert-proxy" /\ config.challenge \in {"tls", "http"}
Relay    == config.TLSMode = "cert-proxy" /\ config.challenge = "http"

Assemble ==
  /\ phase = "assemble"
  /\ names' =
       IF BaseOnly THEN [NoNames EXCEPT !["base"] = 1]
       ELSE [encoded EXCEPT !["base"] = 1,
                            !["wildcard"] = IF ~Relay /\ Has("wildcard") THEN 1 ELSE 0]
  /\ phase' = "ready"
  /\ UNCHANGED <<config, machine, att, encoded>>

StartupNext ==
  Load \/ MakeKeys \/ Attest \/ EncodeHpke \/ Publish \/ Assemble

StartupSpec == StartupInit /\ [][StartupNext]_startVars

-----------------------------------------------------------------------------
\* Types; past Load, the configuration is one CertLifecycle allows for.
StartupTypeOK ==
  /\ phase \in {"load", "keys", "attest", "encode", "publish", "assemble", "ready",
             "fatal", "stuck"}
  /\ config \in RawConfig /\ machine \in Machines
  /\ (phase \notin {"load", "fatal"}) =>
       (config.TLSMode \in Modes /\ config.challenge \in Challenges)
  /\ att \in {"none", "dummy", "sev", "tdx"}
  /\ encoded \in [Zones -> Nat] /\ names \in [Zones -> Nat]

\* In every mode, for every size of the attestation and length of the domain,
\* the list has at most SanLimit names: the limit is checked before the mode
\* decides about the plain names, and only where an attestation is added.  So
\* no index of an encoded name needs a third digit (Dcode's RoundTrip).
WithinSanLimit == (phase = "ready") => (Total(names) <= SanLimit)

\* A wildcard is only asked for when every name is validated by DNS: neither
\* TLS-ALPN-01 nor HTTP-01, nor the relay that mixes both, can validate one.
WildcardByDns ==
  (phase = "ready" /\ names["wildcard"] # 0) => (config.challenge = "dns")

\* A certificate with encoded names commits to the attestation when asked to:
\* to the hash without exception, to the full document unless it is too large.
AttestationCommitted ==
  (phase = "ready" /\ names["hpke"] # 0 /\ Has("publish")) =>
    \/ names["hatt"] # 0
    \/ Has("full") /\ (names["att"] # 0 \/ ~Fits(FullNames))

=============================================================================
