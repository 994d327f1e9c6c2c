---------------------------- MODULE CertLifecycle ----------------------------
(***************************************************************************)
(* How the shim gets, caches and serves its TLS certificate: the           *)
(* certificate part of main() (main.go), CertManager (tls/ca.go),          *)
(* CertProxyManager (tls/certproxy.go) and the self-signed path            *)
(* (tls/selfsign.go), over process starts, exits and crashes.              *)
(*                                                                         *)
(* Every start generates a fresh private key and attests it, so a key is   *)
(* named by the number of the start that generated it.  A certificate is   *)
(* named by the key it certifies.  The cache directory outlives the        *)
(* process.                                                                *)
(***************************************************************************)
EXTENDS Integers

CONSTANTS
  Configs,          \* the configurations a start may find in its config file
  OrderIds,         \* names the control plane gives to ACME orders
  NoOrder,          \* no order
  MaxBoots,         \* bound on the number of process starts
  DiskMayFail,      \* any file operation may fail (full ramdisk, I/O error)
  BadCertificates   \* the control plane may send a certificate that does not
                    \* parse or does not match the key

Config == [ localhost    : BOOLEAN,
            TLSMode      : {"self-signed", "acme", "cert-proxy"},
            challenge    : {"tls", "dns", "http"},
            controlPlane : {"", "http", "https"} ]

ASSUME ConfigsAssumption == Configs \subseteq Config
ASSUME OrdersAssumption  == NoOrder \notin OrderIds
ASSUME BootsAssumption   == MaxBoots \in Nat
ASSUME FaultsAssumption  == DiskMayFail \in BOOLEAN /\ BadCertificates \in BOOLEAN

VARIABLES
  pc,            \* where main() is
  boot,          \* starts so far; the current start's key, the attested one
  config,        \* configuration of the current start
  cachedAtBoot,  \* history: cert.pem was there when the current start began
  registered,    \* acmeUser.Registration is set
  blind,         \* history: the looks at cert.pem that failed in this start
  certPEM,       \* certificate received and not yet served
  served,        \* the key pair handed to tls.Config, by its key
  order,         \* order_id the relay is working on
  certFile,      \* cacheDir/cert.pem
  keyFile,       \* cacheDir/key.pem
  port,          \* the listen port, shared by challenge server and HTTPS server
  portOrder,     \* the order whose tokens the challenge server answers
  orders         \* the control plane's orders (external)

start == <<boot, config, cachedAtBoot>>
known == <<registered, blind>>
disk  == <<certFile, keyFile>>
sock  == <<port, portOrder>>
vars  == <<pc, start, known, certPEM, served, order, disk, sock, orders>>

Absent == 0       \* no such file, or no key
Broken == -1      \* bytes that do not parse: a torn write or a bad certificate
Key    == 1..MaxBoots
File   == Key \cup {Absent, Broken}

PCs == {"down", "certificate", "stat", "obtain", "challenge", "ready", "await",
        "writeCert", "writeKey", "parse", "sleep", "listen", "serving"}

\* port: free; listening with the Serve goroutine not yet run; serving the
\* challenges; closed before the goroutine ran; taken by the HTTPS server.
PortState == {"free", "bound", "serving", "closing", "main"}

\* Looks at cert.pem: NewCertManager's, the one of the present attempt, and those
\* of earlier attempts of the same start.
Looks == {"register", "attempt", "before"}

OrderState == [ state : {"none", "open", "ready", "issued", "refused"},
                http  : BOOLEAN,             \* has an HTTP-01 challenge
                key   : Key \cup {Absent} ]  \* key of the CSR
NullOrder  == [state |-> "none", http |-> FALSE, key |-> Absent]

TypeOK ==
  /\ pc \in PCs
  /\ boot \in 0..MaxBoots
  /\ config \in Config
  /\ cachedAtBoot \in BOOLEAN
  /\ registered \in BOOLEAN
  /\ blind \subseteq Looks
  /\ certPEM \in File
  /\ served \in Key \cup {Absent}
  /\ order \in OrderIds \cup {NoOrder}
  /\ certFile \in File
  /\ keyFile \in File
  /\ port \in PortState
  /\ portOrder \in OrderIds \cup {NoOrder}
  /\ orders \in [OrderIds -> OrderState]

Init ==
  /\ pc = "down"
  /\ boot = 0
  /\ config \in Configs
  /\ cachedAtBoot = FALSE
  /\ registered = FALSE
  /\ blind = {}
  /\ certPEM = Absent
  /\ served = Absent
  /\ order = NoOrder
  /\ certFile = Absent
  /\ keyFile = Absent
  /\ port = "free"
  /\ portOrder = NoOrder
  /\ orders = [o \in OrderIds |-> NullOrder]

-----------------------------------------------------------------------------
(* The process: start, exit, crash.                                        *)

\* main() up to the choice of certificate source: load the configuration,
\* generate the TLS key and attest it.
Boot ==
  /\ pc = "down"
  /\ boot < MaxBoots
  /\ pc' = "certificate"
  /\ boot' = boot + 1
  /\ config' \in Configs
  /\ cachedAtBoot' = (certFile # Absent)
  /\ UNCHANGED <<known, certPEM, served, order, disk, sock, orders>>

\* The process is gone, and its memory and sockets with it.
Exit ==
  /\ pc' = "down"
  /\ registered' = FALSE
  /\ blind' = {}
  /\ certPEM' = Absent
  /\ served' = Absent
  /\ order' = NoOrder
  /\ port' = "free"
  /\ portOrder' = NoOrder
  /\ UNCHANGED <<start, orders>>

\* log.Fatal
Fatal == Exit /\ UNCHANGED disk

\* Any other end of the process.  A file being written is left as it was or
\* truncated: os.WriteFile truncates before it writes.
Crash ==
  /\ pc # "down"
  /\ Exit
  /\ certFile' \in IF pc = "writeCert" THEN {certFile, Broken} ELSE {certFile}
  /\ keyFile' \in IF pc = "writeKey" THEN {keyFile, Broken} ELSE {keyFile}

-----------------------------------------------------------------------------
(* Where the certificate comes from.                                       *)

SelfSigned == config.localhost \/ config.TLSMode = "self-signed"
CertProxy  == ~SelfSigned /\ config.TLSMode = "cert-proxy"
Acme       == ~SelfSigned /\ config.TLSMode = "acme"

\* httpChallengeDomains is not empty.
Relay == CertProxy /\ config.challenge = "http"

\* tlsutil.Certificate: never touches the cache.
Certificate ==
  /\ pc = "certificate"
  /\ SelfSigned
  /\ \/ /\ served' = boot
        /\ pc' = "listen"
        /\ UNCHANGED <<start, known, certPEM, order, disk, sock, orders>>
     \/ Fatal

\* Refuses a control plane that is not HTTPS; then creates the cache directory.
NewCertProxyManager ==
  /\ pc = "certificate"
  /\ CertProxy
  /\ \/ /\ config.controlPlane = "https"
        /\ pc' = "stat"
        /\ UNCHANGED <<start, known, certPEM, served, order, disk, sock,
                       orders>>
     \/ (config.controlPlane # "https" \/ DiskMayFail) /\ Fatal

\* Mutant: the account is registered when there is a certificate already.
NewCertManager_RegistersWhenCached ==
  /\ pc = "certificate"
  /\ Acme
  /\ \/ /\ pc' = "stat"
        /\ registered' = (certFile # Absent)
        /\ UNCHANGED <<start, blind, certPEM, served, order, disk, sock, orders>>
     \/ Fatal

\* Registers an account if os.Stat says that there is no cert.pem, and not if it
\* fails in another way.  lego.NewClient and the registration talk to the CA, and
\* any error of theirs is fatal.
NewCertManager ==
  /\ pc = "certificate"
  /\ Acme
  /\ \/ /\ pc' = "stat"
        /\ \/ registered' = (certFile = Absent) /\ UNCHANGED blind
           \/ /\ DiskMayFail
              /\ registered' = FALSE
              /\ blind' = blind \cup {"register"}
        /\ UNCHANGED <<start, certPEM, served, order, disk, sock, orders>>
     \/ Fatal

-----------------------------------------------------------------------------
(* Certificate() of both managers: the cache, then a new certificate.      *)

\* Certificate() returns an error: main() logs it and sleeps.
Fail == pc' = "sleep" /\ certPEM' = Absent /\ UNCHANGED served

\* Mutant: the certificate parses, whatever key lies beside it.
PairLoads_CertificateOnly == certFile \in Key

\* tls.LoadX509KeyPair succeeds: both files parse and belong together.
PairLoads == certFile \in Key /\ keyFile = certFile

\* Mutant: a pair that does not load is replaced by a new certificate.
CheckCache_FallsThrough ==
  /\ pc = "stat"
  /\ \/ /\ ~PairLoads
        /\ pc' = "obtain"
        /\ UNCHANGED served
     \/ /\ PairLoads
        /\ served' = keyFile
        /\ pc' = "listen"
  /\ UNCHANGED <<start, known, certPEM, order, disk, sock, orders>>

\* Mutant: the error of tls.LoadX509KeyPair is dropped.
CheckCache_ErrorIgnored ==
  /\ pc = "stat"
  /\ \/ certFile = Absent /\ pc' = "obtain" /\ UNCHANGED served
     \/ certFile # Absent /\ pc' = "listen" /\ served' = keyFile
  /\ UNCHANGED <<start, known, certPEM, order, disk, sock, orders>>

\* os.Stat(cert.pem), and tls.LoadX509KeyPair when it succeeds.  Any error of
\* os.Stat, not only that there is no such file, means a new certificate.
CheckCache ==
  /\ pc = "stat"
  /\ \/ /\ certFile = Absent
        /\ pc' = "obtain"
        /\ UNCHANGED <<served, certPEM, blind>>
     \/ /\ DiskMayFail
        /\ blind' = blind \cup {"attempt"}
        /\ pc' = "obtain"
        /\ UNCHANGED <<served, certPEM>>
     \/ /\ certFile # Absent
        /\ PairLoads
        /\ served' = keyFile
        /\ pc' = "listen"
        /\ UNCHANGED <<certPEM, blind>>
     \/ /\ certFile # Absent
        /\ ~PairLoads \/ DiskMayFail
        /\ Fail
        /\ UNCHANGED blind
  /\ UNCHANGED <<start, registered, order, disk, sock, orders>>

\* The certificates an answer for key k may hold.
Delivered(k) == {k} \cup IF BadCertificates THEN 1..boot \cup {Broken} ELSE {}

Receive(c) == pc' = "writeCert" /\ certPEM' = c /\ UNCHANGED served

\* client.Certificate.Obtain.  The CA refuses a client without an account; lego
\* checks the chain, so what it returns is for the key.
Obtain ==
  /\ pc = "obtain"
  /\ Acme
  /\ (registered /\ Receive(boot)) \/ Fail
  /\ UNCHANGED <<start, known, order, disk, sock, orders>>

\* createCSR and one POST; the answer is a certificate, an error or a timeout.
RequestCertificate ==
  /\ pc = "obtain"
  /\ CertProxy /\ ~Relay
  /\ (\E c \in Delivered(boot) : Receive(c)) \/ Fail
  /\ UNCHANGED <<start, known, order, disk, sock, orders>>

-----------------------------------------------------------------------------
(* obtainWithHTTPRelay: the two-phase relay.                               *)

\* Phase 1: POST the CSR.  The answer names an order, with or without HTTP-01
\* challenges; or the order is opened and the answer is lost; or it is not.
Phase1 ==
  /\ pc = "obtain"
  /\ Relay
  /\ \/ \E o \in OrderIds, h \in BOOLEAN :
          /\ orders[o].state = "none"
          /\ orders' = [orders EXCEPT ![o] =
                          [state |-> "open", http |-> h, key |-> boot]]
          /\ \/ /\ order' = o
                /\ pc' = "challenge"
                /\ UNCHANGED <<certPEM, served>>
             \/ Fail /\ UNCHANGED order
     \/ Fail /\ UNCHANGED <<order, orders>>
  /\ UNCHANGED <<start, known, disk, sock>>

\* Mutant: a port that cannot be bound does not end the attempt.
ServeChallenges_BindErrorIgnored ==
  /\ pc = "challenge"
  /\ pc' = "ready"
  /\ IF orders[order].http /\ port = "free"
       THEN port' = "bound" /\ portOrder' = order
       ELSE UNCHANGED sock
  /\ UNCHANGED <<start, known, certPEM, served, order, disk, orders>>

\* Bind the listen port and start the goroutine that serves the tokens; skipped
\* when no HTTP-01 challenge came back.
ServeChallenges ==
  /\ pc = "challenge"
  /\ \/ /\ ~orders[order].http
        /\ pc' = "ready"
        /\ UNCHANGED <<certPEM, served, order, sock>>
     \/ /\ orders[order].http /\ port = "free"
        /\ port' = "bound"
        /\ portOrder' = order
        /\ pc' = "ready"
        /\ UNCHANGED <<certPEM, served, order>>
     \/ /\ orders[order].http /\ port # "free"
        /\ Fail
        /\ order' = NoOrder
        /\ UNCHANGED sock
  /\ UNCHANGED <<start, known, disk, orders>>

\* Phase 2: POST /cert/ready, which may never arrive.
SendReady ==
  /\ pc = "ready"
  /\ pc' = "await"
  /\ \/ orders' = [orders EXCEPT ![order].state = "ready"]
     \/ UNCHANGED orders
  /\ UNCHANGED <<start, known, certPEM, served, order, disk, sock>>

\* Mutant: the challenge server is never closed.
CloseServer_Forgotten == UNCHANGED sock

\* defer srv.Close().  A server whose goroutine has not run yet does not know
\* its listener, which stays open until the goroutine runs.
CloseServer ==
  /\ port' = CASE port = "serving" -> "free"
               [] port = "bound"   -> "closing"
               [] OTHER            -> port
  /\ portOrder' = NoOrder

\* Mutant: a client without timeout waits until there is an answer.
AwaitReady_NoTimeout ==
  /\ pc = "await"
  /\ \/ /\ orders[order].state = "issued"
        /\ \E c \in Delivered(orders[order].key) : Receive(c)
     \/ orders[order].state = "refused" /\ Fail
  /\ CloseServer
  /\ order' = NoOrder
  /\ UNCHANGED <<start, known, disk, orders>>

\* The answer to /cert/ready, an error or the client's timeout.
AwaitReady ==
  /\ pc = "await"
  /\ \/ /\ orders[order].state = "issued"
        /\ \E c \in Delivered(orders[order].key) : Receive(c)
     \/ Fail
  /\ CloseServer
  /\ order' = NoOrder
  /\ UNCHANGED <<start, known, disk, orders>>

\* The goroutine: srv.Serve(ln) tracks the listener, or closes it when the
\* server is closed already.
Serve ==
  /\ \/ port = "bound" /\ port' = "serving"
     \/ port = "closing" /\ port' = "free"
  /\ UNCHANGED <<pc, start, known, certPEM, served, order, disk, portOrder,
                 orders>>

\* External: the CA validates a ready order, fetching the token over HTTP when
\* it has an HTTP-01 challenge; it may refuse for reasons of its own.
Validate(o) ==
  /\ orders[o].state = "ready"
  /\ \/ /\ orders[o].http => port = "serving" /\ portOrder = o
        /\ orders' = [orders EXCEPT ![o].state = "issued"]
     \/ orders' = [orders EXCEPT ![o].state = "refused"]
  /\ UNCHANGED <<pc, start, known, certPEM, served, order, disk, sock>>

\* External: the control plane forgets an order nobody works on.  An order it
\* forgets earlier is answered with an error, which AwaitReady allows.
Expire(o) ==
  /\ o # order
  /\ orders[o].state # "none"
  /\ orders' = [orders EXCEPT ![o] = NullOrder]
  /\ UNCHANGED <<pc, start, known, certPEM, served, order, disk, sock>>

-----------------------------------------------------------------------------
(* The end of Certificate(): cache the certificate, cache the key, and only *)
(* then find out whether they go together.                                 *)

\* os.WriteFile(cert.pem)
WriteCert ==
  /\ pc = "writeCert"
  /\ \/ /\ certFile' = certPEM
        /\ pc' = "writeKey"
        /\ UNCHANGED <<certPEM, served>>
     \/ DiskMayFail /\ Fail /\ certFile' \in {certFile, Broken}
  /\ UNCHANGED <<start, known, order, keyFile, sock, orders>>

\* os.WriteFile(key.pem)
WriteKey ==
  /\ pc = "writeKey"
  /\ \/ /\ keyFile' = boot
        /\ pc' = "parse"
        /\ UNCHANGED <<certPEM, served>>
     \/ DiskMayFail /\ Fail /\ keyFile' \in {keyFile, Broken}
  /\ UNCHANGED <<start, known, order, certFile, sock, orders>>

\* Mutant: the certificate is served as it came.
ParsePair_Unchecked ==
  /\ pc = "parse"
  /\ served' = certPEM
  /\ certPEM' = Absent
  /\ pc' = "listen"
  /\ UNCHANGED <<start, known, order, disk, sock, orders>>

\* tls.X509KeyPair on the bytes in memory
ParsePair ==
  /\ pc = "parse"
  /\ \/ /\ certPEM = boot
        /\ served' = boot
        /\ certPEM' = Absent
        /\ pc' = "listen"
     \/ certPEM # boot /\ Fail
  /\ UNCHANGED <<start, known, order, disk, sock, orders>>

\* time.Sleep ends; the loop calls Certificate() again.
Retry ==
  /\ pc = "sleep"
  /\ pc' = "stat"
  /\ blind' = IF "attempt" \in blind THEN (blind \ {"attempt"}) \cup {"before"}
                                     ELSE blind
  /\ UNCHANGED <<start, registered, certPEM, served, order, disk, sock, orders>>

\* ListenAndServeTLS: bind or die.
Listen ==
  /\ pc = "listen"
  /\ \/ /\ port = "free"
        /\ port' = "main"
        /\ pc' = "serving"
        /\ UNCHANGED <<start, known, certPEM, served, order, disk,
                       portOrder, orders>>
     \/ port # "free" /\ Fatal

-----------------------------------------------------------------------------
(* The functions of the source, as the steps they are made of.             *)

obtainWithHTTPRelay == Phase1 \/ ServeChallenges \/ SendReady \/ AwaitReady
StoreAndParse       == WriteCert \/ WriteKey \/ ParsePair

CertManager_Certificate ==
  Acme /\ (CheckCache \/ Obtain \/ StoreAndParse)

CertProxyManager_Certificate ==
  /\ CertProxy
  /\ CheckCache \/ RequestCertificate \/ obtainWithHTTPRelay \/ StoreAndParse

Main ==
  \/ Certificate
  \/ NewCertManager
  \/ NewCertProxyManager
  \/ CertManager_Certificate
  \/ CertProxyManager_Certificate
  \/ Retry
  \/ Listen

ControlPlane == \E o \in OrderIds : Validate(o) \/ Expire(o)

Next == Boot \/ Main \/ Serve \/ ControlPlane \/ Crash

Spec == Init /\ [][Next]_vars

\* The process keeps running; its goroutine does not lose the race with the next
\* POST every time; a remote side that is asked again and again, or a disk that
\* is used again and again, does not fail, or answer too late, for ever.
\* Nothing is assumed about crashes.
Fairness ==
  /\ WF_vars(Main)
  /\ WF_vars(Serve)
  /\ SF_vars(Serve /\ pc = "ready" /\ port' = "serving")
  /\ SF_vars(CheckCache /\ pc' # "sleep" /\ UNCHANGED blind)
  /\ SF_vars(Obtain /\ pc' = "writeCert")
  /\ SF_vars(RequestCertificate /\ pc' = "writeCert")
  /\ SF_vars(Phase1 /\ pc' = "challenge")
  /\ SF_vars(SendReady /\ orders' # orders /\ port # "bound")
  /\ SF_vars(AwaitReady /\ pc' = "writeCert")
  /\ SF_vars(WriteCert /\ pc' = "writeKey")
  /\ \A o \in OrderIds :
       /\ WF_vars(Expire(o))
       /\ SF_vars(Validate(o) /\ o = order /\ orders'[o].state = "issued")

FairSpec == Spec /\ Fairness

-----------------------------------------------------------------------------
(* Properties.                                                             *)

\* Some attempt of this start could not see whether there is a cert.pem.
Overlooked == blind \cap {"attempt", "before"} # {}

\* Which key is served: the attested one when the certificate is self-signed or
\* the cache was empty at the start, and otherwise the cached one, which an
\* earlier start generated, so never the attested one, unless a look at cert.pem
\* failed and the cached certificate was overwritten.
ServedKeyProvenance ==
  pc \in {"listen", "serving"} =>
    /\ SelfSigned \/ ~cachedAtBoot => served = boot
    /\ ~SelfSigned => served = keyFile /\ served = certFile
    /\ ~SelfSigned /\ cachedAtBoot /\ ~Overlooked => served < boot

\* README.md: the attestation report's user data binds the TLS connection to the
\* enclave, so the key of the served certificate is the attested key.
ServedKeyIsAttested == pc = "serving" => served = boot

\* CertManager.Certificate asks the CA for a certificate with the account that
\* NewCertManager registered, although the two look at cert.pem separately and
\* read the outcome of os.Stat differently.  There is no account only after a look
\* that failed: NewCertManager's, or this attempt's at a cert.pem that is there
\* since before the start.
ObtainHasAccount ==
  Acme /\ pc = "obtain" /\ ~registered =>
    "register" \in blind \/ ("attempt" \in blind /\ cachedAtBoot)

\* A step that opens an order or receives a certificate.
Asks ==
  \/ certPEM' \notin {certPEM, Absent}
  \/ \E o \in OrderIds : orders'[o].state = "open" /\ orders[o].state = "none"

\* A certificate is asked for, and received, only while cert.pem does not exist,
\* and did not when the process started, or in an attempt that could not see it: a
\* cached certificate that can be seen costs no order at the CA.
RequestsOnlyWhenUncached ==
  [][Asks => (certFile = Absent /\ ~cachedAtBoot) \/ "attempt" \in blind]_vars

\* When /cert/ready has told the control plane to go ahead with an order that
\* has HTTP-01 challenges, the port is bound and will answer for that order, as
\* long as the shim waits for the answer.
ChallengesUpBeforeReady ==
  pc = "await" /\ orders[order].http =>
    port \in {"bound", "serving"} /\ portOrder = order

\* The challenge server holds the port shared with the HTTPS server only while
\* an attempt is between its two phases, except for a listener whose goroutine
\* has not run yet, and that one answers for no order.
ChallengePortReleased ==
  /\ port \in {"bound", "serving"} => pc \in {"ready", "await"}
  /\ port \notin {"bound", "serving"} => portOrder = NoOrder
  /\ pc = "serving" <=> port = "main"

\* An attempt begins with a cert.pem whose pair does not load.
Wedged == pc = "stat" /\ certFile # Absent /\ ~PairLoads

\* An attempt begins without a certificate and without an account to ask for one:
\* the look that NewCertManager took at cert.pem failed.
Unregistered == pc = "stat" /\ Acme /\ certFile = Absent /\ ~registered

\* The retry loop of main(): an attempt is followed by serving, by the end of
\* the process, by an attempt that finds a cache it cannot load, or by one that
\* finds none and has no account.
SettlesOrWedges ==
  pc = "stat" ~> pc \in {"serving", "down"} \/ Wedged \/ Unregistered

\* tls/certproxy.go: Certificate returns a certificate "either from cache or by
\* requesting from control plane", so that retrying it ends in serving unless
\* the process ends.
RetryEventuallyServes == pc = "stat" ~> pc \in {"serving", "down"}

\* The cache as CertSlot sees it.
SlotState ==
  IF certFile = Absent THEN "empty"
  ELSE IF PairLoads THEN "usable"
  ELSE IF pc = "writeKey" /\ certFile = boot THEN "half"
  ELSE "wedged"

SlotKey == IF SlotState \in {"half", "usable"} THEN certFile ELSE 0

Cache == INSTANCE CertSlot WITH
           slot    <- [state |-> SlotState, key |-> SlotKey],
           current <- boot,
           serves  <- served,
           unseen  <- "attempt" \in blind

\* Both managers implement CertSlot: except by a process that could not see it, a
\* pair that loads is never replaced and a cache that does not load stays so,
\* across restarts; and no process ever starts from or serves a half-stored pair.
CacheIsASlot == Cache!SlotSpec

=============================================================================
