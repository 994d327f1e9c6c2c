-------------------------- MODULE MCCertLifecycle --------------------------
(***************************************************************************)
(* Values for the constants of CertLifecycle: one configuration for every  *)
(* path main() can take to a certificate.                                  *)
(***************************************************************************)
EXTENDS CertLifecycle

Mode(local, mode, ch, cp) ==
  [localhost |-> local, TLSMode |-> mode, challenge |-> ch, controlPlane |-> cp]

\* A domain that is localhost wins over any TLS mode.
MCAllConfigs ==
  { Mode(TRUE,  "acme",        "dns",  ""),
    Mode(FALSE, "self-signed", "tls",  ""),
    Mode(FALSE, "acme",        "dns",  ""),
    Mode(FALSE, "cert-proxy",  "dns",  "https"),
    Mode(FALSE, "cert-proxy",  "http", "https"),
    Mode(FALSE, "cert-proxy",  "dns",  "http"),
    Mode(FALSE, "cert-proxy",  "dns",  "") }

\* The three that work at getting a certificate.
MCRemoteConfigs ==
  { Mode(FALSE, "acme",        "dns",  ""),
    Mode(FALSE, "cert-proxy",  "dns",  "https"),
    Mode(FALSE, "cert-proxy",  "http", "https") }

=============================================================================
