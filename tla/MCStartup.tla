----------------------------- MODULE MCStartup -----------------------------
(* Configurations and machines for TLC. *)
EXTENDS Startup

Base == [ upstreamPort |-> 8080, TLSMode |-> "cert-proxy", TLSEnv |-> "production",
          challenge |-> "dns", controlPlane |-> "url", domain |-> "public",
          flags |-> {"publish"} ]

\* Every mode, challenge, domain and set of flags that the list depends on, and
\* one configuration for each other check of Load and main().
MCRawConfigs ==
  {[Base EXCEPT !.TLSMode = m, !.challenge = c, !.domain = d, !.flags = f] :
     m \in Modes \cup {"other"}, c \in Challenges \cup {"other"},
     d \in {"", "localhost", "public"}, f \in SUBSET (Flags \ {"authenticated"})}
  \cup {[Base EXCEPT !.upstreamPort = 0], [Base EXCEPT !.TLSEnv = "other"],
        [Base EXCEPT !.controlPlane = "bad"], [Base EXCEPT !.controlPlane = ""]}

\* Own domains that leave much room, a little, one character, none, and less;
\* documents that take, under "tinfoil.sh", 18 names, and 96, 97 and 98: with
\* the key's two, the last that fits a wildcard certificate, the last that fits
\* another one, and one too many.
MCMachines ==
  {[vendor |-> v, domainLen |-> n, attBytes |-> b] :
     v \in {"amd", "other"},
     n \in {11, 53, 54, 55, 56},
     b \in {500, 2760, 2788, 2812}}
  \cup {[vendor |-> "intel", domainLen |-> 11, attBytes |-> 5000]}
=============================================================================
