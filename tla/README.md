# Verification of the Tinfoil attestation shim

TLA+ specifications of `tfshim`, the reverse proxy that terminates TLS inside an
enclave, publishes an attestation report, checks API keys, limits rates and
forwards requests to an upstream on the same machine. Source lines below refer to
the repository.

## 1. The system

### 1.1 Components

| Component | Source | State | Operations |
|---|---|---|---|
| Startup | `main.go` | configuration, TLS key, attestation, SAN list | load, generate, attest, assemble domains, choose the certificate source |
| Certificate lifecycle | `main.go` 205-299, `tls/*.go` | `cacheDir/cert.pem`, `key.pem`; ACME account; pending order; listen port | self-sign; ACME `Obtain`; cert proxy request; two-phase relay; cache; retry; listen |
| HTTP handler | `api.go` | configuration (read only), rate limiter | CORS, routing, path filter, EHBP, key validation, limiting, proxying |
| Online key validation | `key/online/verify.go` | none (the control plane holds the keys) | one POST per request |
| Rate limiter | `limiter.go` | map from key to token bucket, mutex | `Limit`, `Allow` |
| Streaming transport | `openai_proxy.go` | pipe between upstream body and client | parse body, relay and pad the stream |
| Metrics | `metrics/*.go` | six process-wide gauges | collect, reset, set, gather |
| ACPI endpoint | `acpi/acpi.go` | `cacheDir/acpi.tar` and temporary files | serve cached, rebuild, replace |
| Domain encoding | `dcode/dcode.go`, `clientutil/main.go` | none | encode to SANs, decode |
| Offline keys | `key/offline/*.go`, `keygen/main.go` | none | sign, verify, expire |
| Key server (development) | `keyserver/main.go` | map of keys and token counts | generate, validate, collect |
| Configuration | `config/config.go` | none | defaults, validation, secrets |
| Attestation report | `attestation.go`, `tls/tls.go` | none | quote, hash, compress |

### 1.2 How they interact

`main()` runs in one goroutine up to `ListenAndServeTLS`. It generates a TLS key,
attests it, and obtains a certificate; the relay of the cert proxy starts one more
goroutine, the challenge server, on the port the HTTPS server takes later. The
cache directory is the only state that outlives the process. From then on
`net/http` runs one goroutine per request. Requests share the rate limiter (a
mutex around a map; buckets with their own lock), the Prometheus gauges and the
cached ACPI archive. The control plane is called by the certificate managers and
by every request that needs a key.

### 1.3 What is hard

* a restart with a cache left by an earlier start, or by one that crashed between
  two writes;
* retry loops whose only exit is success;
* a port shared by two servers, one of them started by a goroutine that may run
  late;
* lost answers and timeouts in a two-phase protocol;
* concurrent get-or-create of limiters, and a chain of checks in which every
  error answer must end the request;
* keys that are revoked or issued while requests are being handled;
* a stream relayed by a goroutine that nobody waits for, between an upstream that
  may break off and a client that may leave, or stay and stop reading;
* errors that are read in two ways or not at all: of `os.Stat`, of reading a body;
* process-wide gauges and a cached file that concurrent handlers rewrite;
* limits and roundings: the 100 names of a certificate, 63 characters of a name,
  two digits of an index, whole seconds in a key.

`PROJECT.json` lists these hazards at their lines.

### 1.4 What correctness means

* Certificates: a known key is served; a cached certificate that can be seen is kept
  and costs no order; an attempt to get one ends in serving, or the cache or the
  missing account says why not; the port is released.
* Rate limiter: a window never admits more than burst plus refill; one limiter
  per key, for good.
* Handler: the upstream gets only what passed every check; a refused request costs
  nothing; every request is answered.
* Stream: the client gets the upstream's lines in order, a response that looks
  complete is complete but for known causes, and no goroutine stays behind unless
  the client stays and does not read.
* Metrics: a scrape shows nothing an earlier one left, and exactly its own sample
  when it is alone.
* ACPI: every answer is a whole archive; the cached one is replaced in one step;
  temporary files are removed.
* Names: at most 100, of kinds the challenge can validate, committing to the
  attestation; decoding inverts encoding.
* Offline keys: accepted only as signed, never for longer than the signer said, and
  for hardly less.
* Key server: what overlapping handlers may lose, and that they invent nothing.

## 2. Modules

| Module | Models | Extends |
|---|---|---|
| `CertLifecycle` | certificate part of `main()`, both managers, self-signing | |
| `CertSlot` | abstract: what the cache promises | |
| `RateLimiter` | `limiter.go` as the handlers use it | |
| `PathMatch` | path rules and bearer prefix of `api.go` | |
| `ShimServer` | handler of `NewShimServer`, `Validator.Validate`, `RoundTrip` up to the upstream | `RateLimiter`, `PathMatch` |
| `StreamRelay` | `RoundTrip` from the upstream's answer on | |
| `PromScrape` | `metrics/*.go` | |
| `AcpiCache` | `acpi/acpi.go` | |
| `DcodeChunks` | arithmetic of `dcode.Encode` | |
| `Dcode` | `dcode/dcode.go`, `clientutil/main.go` | `DcodeChunks` |
| `Startup` | `config.Load`, `attestation.go`, `main.go` up to the list of names | `DcodeChunks` |
| `OfflineKey` | `key/offline/*.go` | |
| `KeyServer` | `keyserver/main.go` | |
| `MCSharedState` | union of `RateLimiter`, `PromScrape` and `AcpiCache` | these |
| `MCPrograms` | union of `Startup`, `Dcode`, `OfflineKey` and `KeyServer` | these |
| other `MC*` | constants for TLC | the module they instantiate |
| `Names_proofs` | theorems and proofs | `Startup`, `Dcode` |
| `Keys_proofs` | theorems and proofs | `OfflineKey`, `KeyServer` |
| other `*_proofs` | theorems and proofs | the module they are named after |

Definitions named `X_Something` directly before a definition `X` are faulty
variants of it, one plausible programming error each. No specification uses them;
substituted for `X`, each makes TLC report the property it is paired with in
`PROJECT.json`.

### 2.1 CertLifecycle

Every start generates a key, so the number of the start (`boot`) names the key,
and a certificate is named by the key it certifies. A file holds a key or
certificate, is `Absent`, or is `Broken`.

| Variable | Code |
|---|---|
| `pc` | position in `main()` and the functions it calls |
| `boot`, `config`, `registered` | the start's `privateKey`, `config`, `acmeUser.Registration` |
| `certPEM`, `served` | the certificate in memory, the pair given to `tls.Config` |
| `certFile`, `keyFile` | `cacheDir/cert.pem`, `cacheDir/key.pem` |
| `port`, `portOrder` | the listen port, and the order whose tokens it answers |
| `order`, `orders` | `phase1.OrderID`, and the control plane's orders (external) |
| `cachedAtBoot` | history: `cert.pem` existed when the start began |
| `blind` | history: which looks at `cert.pem` failed in this start: `register` (that of `NewCertManager`), `attempt` (that of the present attempt), `before` (those of earlier attempts) |

| Action | Code |
|---|---|
| `Boot` | `main.go` 39-123 |
| `Certificate` | `tls/selfsign.go` |
| `NewCertManager`, `NewCertProxyManager` | the constructors; every error is fatal |
| `CheckCache` | the `os.Stat` and `LoadX509KeyPair` that begin both `Certificate()` |
| `Obtain`, `RequestCertificate` | lego's `Obtain`; the one-shot POST |
| `Phase1`, `ServeChallenges`, `SendReady`, `AwaitReady` | `obtainWithHTTPRelay`; `CloseServer` is its deferred `srv.Close()` |
| `Serve` | the goroutine around `srv.Serve(ln)` |
| `WriteCert`, `WriteKey`, `ParsePair` | the end of both `Certificate()` |
| `Retry`, `Listen` | the loops and the listen call of `main()` |
| `Validate`, `Expire` | external: the control plane and its CA |
| `Crash` | any other end of the process; a file being written may be left truncated |

Main keeps the two managers apart by `Acme` and `CertProxy`: they share
`CheckCache` and the writes because the code is the same, statement for statement.
`AwaitReady` may fail at any time, which covers error answers, a lost
`/cert/ready`, and the client's timeout racing a late validation.

`os.Stat(cert.pem)` has three outcomes, and the code reads them in two ways.
`NewCertManager` registers an account if the file does not exist (`os.IsNotExist`,
`ca.go` 122), so an error of another kind leaves it without one; `CheckCache` asks for
a new certificate unless the call succeeds (`err == nil`, `ca.go` 146, `certproxy.go`
85), so the same error sends it to the CA in spite of a cached certificate, which the
new one overwrites. With `DiskMayFail` either look may fail, each time anew, and so
may reading the pair and both writes. `blind` is what the properties need to say when
that happened; no action depends on it.

Abstracted: lego's challenge servers run inside `Obtain` and are assumed to be
closed when it returns; `localhost` stands for an empty or `localhost` domain; the
`-i` flag (plain HTTP, which ignores the certificate) is left out; failures of
`main()` between `Boot` and the choice of the source are instances of `Crash`.

### 2.2 CertSlot

The abstract cache: a slot that is empty, half stored, usable or wedged; the key
of the process that started last; the key it serves; and whether its last look at
the slot failed (`unseen`). Except by a process that could not see the slot, a usable
slot is never changed and a wedged one stays wedged; no process starts with a
half-stored slot or serves from one. What a process that could not see the slot
stores over it may happen to fit the key that is there (`StoreOver`: a bad
certificate for an earlier key, or the process's own at a second attempt).
`CertLifecycle` implements it under the mapping at the end of that module
(`CacheIsASlot`).

### 2.3 RateLimiter

Each handler goroutine (`Callers`) calls `Limit(key)` once and then `Allow()`.
`mu` is the mutex, `limits` the map, `bucket` the token buckets, each named by the
caller that allocated it. Lookup and store are separate steps, so that the mutex
is what makes them one. `Allow` is external and atomic: an exact bucket in units,
`Scale` units to a token, refilled by `Rate` units per clock tick. The real
`rate.Limiter` reads the clock before it takes its own lock and uses floating
point; both are outside this repository. `grants` is a history of admission times.

### 2.4 ShimServer

A request is a caller of the rate limiter; `at` says where its handler is and
`status` what it answered. `ServeHTTP` takes a request through CORS, the mux and
the path filter, which look only at the request and the configuration, in one
step. `Ehbp` is external. The proxy handler goes in steps, at every point where
another goroutine or the control plane may come in between: `Authenticate`,
`ControlPlaneAnswers` (the answer is computed), `Validate` (the answer is acted
on), `RateLimit`, `Limiting` (the steps of `RateLimiter`), `Limited`, `Forward`
(`streamTransport.RoundTrip`), `UpstreamAnswers`. `Revoke` and `Issue` change the
control plane's keys at any time. `validSince` records the keys that were valid at
some time while a request was handled, `sent` the requests handed to the base
transport towards the upstream, whether or not it can be dialled.

The body of a request is empty, malformed, JSON, or cannot be read to its end: the
client breaks it off, or EHBP cannot decrypt the rest. `RoundTrip` parses a chat
completion's body only if reading it succeeds (`openai_proxy.go` 93); otherwise the
request goes out unparsed, with whatever is left of the body, and counts as one that
does not stream.

A path is a sequence of pieces, a pattern may end in the piece `"*"`. Pieces are
chosen so that prefixes of sequences are prefixes of strings, hence `HasPrefix` is
`IsPrefix`.

Abstracted: one status stands for the control plane's rejections and one for the
upstream's answers; a well-known handler answers with any of the statuses its code
can give (`wellKnownStatus`), since what decides among them is state of other
modules or of the configuration; `http.ServeMux` redirects of paths that are not
clean are left out; headers and bodies of responses are not modelled.

### 2.5 StreamRelay

One chat completion after `t.base.RoundTrip(req)`. The upstream's body is a
sequence of lines, each known by its kind: what the goroutine does with a line
depends on nothing else. `Scan`, `Write`, `Written`, `Close` and `CloseBody` are the
goroutine, with its two deferred calls; `Write` begins `pw.Write`, `Written` is its
return, which waits for the reader or for the reader's end (`io.ErrClosedPipe`,
ignored by the code). `RoundTrip`, `ReadPipe`, `ReadEOF`, `ReadBody` and `WriteClient`
are the transport and `httputil.ReverseProxy` (external), which reads what it is given
into `buffer` and writes that to the client. The write blocks while the client is
`stalled`: connected, not reading, with the socket's buffers full. `main.go` 286 sets
no `WriteTimeout` that would end it. `SendLine` and `EndBody` are the upstream,
`ClientStalls`, `ClientResumes` and `ClientLeaves` the client; a body that breaks off
leaves a torn last line. `Cancelled` is the request's context.

Abstracted: the contents of a line and of its padding; that the scanner drops a
trailing `\r` and that the code ends a torn last line with a newline of its own. The
error path of `rand.Int` (`openai_proxy.go` 48) cannot be taken: `go.mod` asks for Go
1.25, and since 1.24 `crypto/rand.Reader` ends the program rather than fail.

### 2.6 PromScrape

A scrape is a handler of `/.well-known/prometheus-metrics` or `/.well-known/metrics`.
`vec` holds the children of each gauge vector by the label `gpu_type`, `value` what a
child shows, a sample being named by the scrape that collected it. `Reset`, `With`
and `Set` are single calls of the Prometheus library (external, each under its own
lock) in the order of the code; `Gather` asks the vectors in any order. A child that
a scrape got from `With` and that another scrape's `Reset` removed is still written,
and shows nowhere.

Abstracted: the arithmetic of the statistics; that the library reads a child's value
a little after the list of children; the reference count of `nvml.Init` and
`nvml.Shutdown`, which overlapping scrapes share.

### 2.7 AcpiCache

A request goes through `Authenticate`, `Stat`, then `ReadArchive`, or `Build`,
`CreateTemp`, `Copy` and `Rename` or `Remove`, one action per file operation, each of
which may fail. `Kill` ends the process between any two. Of a file only matters
whether it is there and whole.

Abstracted: what a power failure does to files that were never synced; that the error
of `tmp.Close()` is ignored before the rename; a client that leaves while the answer
is sent.

### 2.8 Startup, DcodeChunks and Dcode

`Startup` takes any configuration the YAML files may hold and any machine through
`Load`, `MakeKeys`, `Attest`, `EncodeHpke`, `Publish` and `Assemble`. The list of names
is the number of names in each zone (`base`, `wildcard`, `hpke`, `att`, `hatt`);
`DcodeChunks` says how many a document needs. `ready` is where `CertLifecycle` takes
over, `stuck` where `dcode.Encode` panics or does not return.

`Dcode` runs the chunking loop iteration by iteration (`Encode`, with `Chunk`),
lets the client choose names (`Extract`) and joins them (`Decode`). Documents are
sequences of distinct characters, so that a chunk lost, repeated or out of place is
seen. `Rank` and `Prefix` are the order in which the code sorts; names with equal
prefixes come in any order, as `sort.Slice` promises no more.

Abstracted: gzip, base32 and JSON are one-to-one and kept as lengths; quotes and
fingerprints are opaque; the defaults are filled in by a library.

### 2.9 OfflineKey

`NewAPIKey` writes the time of issue and the validity in whole seconds, `Validate`
compares the age, at the resolution of the clock, with the validity, and then checks
the signature. A signature is the message it was made for. What is presented may be
the key, something that does not decode or has another length, or the key with a
changed message.

Abstracted: the overflow of `time.Duration`, which no key that the signer makes can
reach; the random nonce, which only keeps keys apart.

### 2.10 KeyServer

Each handler is in one map access at a time. Handlers whose accesses to the same map
overlap, one of them writing, are `dirty`: a write of theirs may be lost, and the Go
runtime may end the process (`ConcurrentMapFatal`), which loses the keys. `/collect`
for an unknown key panics, which `net/http` turns into the end of that request. The
count is kept per key; the inner map's models are left out. A call reports one token:
the code takes any number, a negative one too (`keyserver/main.go` 85), and with such
reports there is no bound to speak of.

## 3. Runs

| Run | Property | What it shows |
|---|---|---|
| `cert_safety` | `ServedKeyProvenance` | the attested key is served when self-signed or started with an empty cache; otherwise the key of an earlier start, unless a look at `cert.pem` failed |
| | `ObtainHasAccount` | two separate looks at `cert.pem` lead to an `Obtain` without account only if one of them failed |
| | `ChallengesUpBeforeReady` | tokens are served, for the right order, while `/cert/ready` is pending |
| | `ChallengePortReleased` | the challenge server never outlives its attempt, but for a listener whose goroutine has not run |
| | `RequestsOnlyWhenUncached` | no order and no certificate while one is cached and can be seen |
| | `CacheIsASlot` | refinement of `CertSlot` |
| `cert_settles` | `SettlesOrWedges` | an unloadable cache and a missing account are the only ways to retry for ever |
| `shim_safety` | `UpstreamGuarded`, `TokensPayForRequests`, `LimitersOfVettedKeys` | no way around a check, but for the parsing of a body that cannot be read; what costs a token; what grows the map |
| `shim_answers` | `EveryRequestAnswered` | contention for the mutex starves nobody |
| `stream_relay` | `LinesInOrder` | the client has the upstream's lines in order, deltas padded |
| | `CompleteMeansAll` | a response that looks complete is cut short only by an upstream failure or a line beyond 64 KiB, and only as a stream |
| | `RelayEnds` | neither the goroutine nor the copy stays blocked, unless by a client that stays and does not read |
| `shared_state` | `WindowBound`, `OneLimiterPerKey`, `LimiterKept` | interleaved handlers do not exceed the budget |
| | `NoStaleSample`, `AloneIsExact` | no scrape shows what an earlier one left; a lone scrape shows its sample |
| | `AnswersAreWhole`, `ArchiveKept`, `TempFilesRemoved` | rebuilds, failures and kills never show a partial archive, and leave files only in three known ways |
| `programs` | `WithinSanLimit`, `WildcardByDns`, `AttestationCommitted` | the list of names of every start |
| | `RoundTrip`, `NamesFit`, `EncodeEndsGivenRoom` | decoding inverts encoding exactly up to 100 names |
| | `NeverOutlives`, `LosesLessThanTwoSeconds` | the life of an offline key, up to rounding |
| | `NoTokensInvented`, `SequentialIsExact` | the unlocked map loses counts but invents none, and loses none without overlap |

Where a module has a type invariant, one of these runs checks it too.
`shared_state` and `programs` each check several components that share no state: a
variable `part` chooses one at the start, the others stay as they are, so that a
behaviour is one of the chosen component alone.

Five runs show where the code and a document of the repository disagree:

* `cert_binding`: after a restart with a cached certificate, the served key is not
  the attested one, though README.md promises that the report binds the TLS
  connection to the enclave.
* `cert_wedged`: after a crash between the two cache writes, `Certificate()` fails
  for ever, though its comment promises a certificate "either from cache or by
  requesting from control plane".
* `shim_verified`: with the default endpoint list, requests for other paths reach
  the upstream without a verified token, though README.md says that every request
  is checked.
* `shim_unauthenticated`: with `authenticated: false` and a rate limit, requests
  without a key are refused, though `config.go` says that no key checks are made.
* `dcode_client`: the client joins the names of the HPKE key and of the base domain
  with those of the attestation, though the comment of `Decode` promises an
  attestation document.

Met while modelling, and not made into runs:

* An `os.Stat` that fails for another reason than a missing file makes
  `NewCertManager` skip the registration with the message that a certificate exists
  (`ca.go` 122 and 131). If it does not, `Obtain` has no account and the loop of
  `main()` retries for ever: `Unregistered` in `SettlesOrWedges`.
* The same failure in `Certificate()` opens an order, at every retry, and overwrites a
  good pair; a crash before the key is written then leaves a cache that does not load.
* A chat completion whose body breaks off goes out to the upstream
  (`openai_proxy.go` 93), though one that does not parse is refused.
* A client that stops reading holds a handler, the relay's goroutine and an upstream
  connection for as long as it stays.
* A scrape that overlaps another one may gather a vector the other has just reset,
  and then lacks that metric (`prometheus.go` 78). `AloneIsExact` states the case in
  which it cannot.
* With an own SAN domain of more than 54 characters `dcode.Encode` panics or does not
  return (`dcode.go` 46); `Startup` then ends in `stuck`.
* `-d` is described as skipping the encoded names (`main.go` 35); `main.go` 143 adds
  the HPKE key's all the same.
* A key issued late within a second expires early by that part of a second
  (`verify.go` 41); `LosesLessThanTwoSeconds` bounds it.

### 3.1 Bounds

* `MaxBoots = 3` (`cert_safety`): one start fills or breaks the cache, a second
  uses it, a third follows a crash of the second, each with any configuration.
  Two order names: an abandoned order and the current one. `cert_settles` has two
  starts, so that the second start finds what a crash left, and one order name, which
  a retry can use again only when the control plane has forgotten the abandoned
  order; with two names and every fault the liveness check takes too long.
* `shim_*`: two requests, two keys, `Burst = 1`: the two contend for the mutex and
  for the only token; thirteen kinds of request and four configurations reach every
  answer. Callers are symmetric in `shim_safety`; liveness runs use no symmetry.
* `stream_relay`: `MaxLines = 4`, lines of six kinds and a torn one: a line before, at
  and after every special one, and one line each in the goroutine's hands or the pipe,
  in the copy's buffer and with the client, while the upstream sends another.
* `shared_state`: the limiter with four handlers, two keys, `Burst = 2`, half a token
  per tick and five instants, so that a third and a fourth request of a key depend on
  refill and on its rounding. Three scrapes, so that one may meet an earlier and an
  overlapping one, over two of the six vectors, one that the code resets before and
  sets after the other. Three ACPI requests and `MaxKills = 2`. Three of the handlers
  are symmetric.
* `programs`: `Startup` with every mode, challenge, domain and set of flags, and
  machines whose documents need just under, exactly and just over the limit, and
  whose domains leave room, one character, none and less. `Dcode` with every size
  around the edges of a chunk and with 98, 100, 101 and 103 chunks; `MaxNames = 104` stops a loop
  that would not end. Offline keys with three ticks to a second, a validity that is
  no whole number of seconds and a clock (`MaxTime`) that outlasts it from every
  fraction of a second. Four handlers of the key server, two keys, `MaxStarts = 2`.

Deadlock checking is off everywhere because the models end: a process need not be
started again, and each request arrives once.

### 3.2 Fairness

`CertLifecycle`: weak fairness for the process and its goroutine, as the Go
scheduler gives it; the control plane forgets orders eventually; strong fairness
for the success of each remote call, of the look at the cache and reading from it, of
the first cache write and of a validation, in the sense that what is tried again and
again does not fail every time, and that the goroutine does not lose the race against
the next POST every time. No fairness for crashes, nor for the look of
`NewCertManager`, which a start takes only once.
`ShimServer`: weak fairness for each handler, and for the control plane and the
upstream. That includes three assumptions about others, since the code sets no timeout
for any of them: the client does not stall in the middle of its request body, the
control plane answers, and the upstream answers.
`StreamRelay`: weak fairness for the goroutine and for the handler that copies, as the
Go scheduler gives it; a write to a stalled client is not enabled, so it is not
assumed to end. No fairness for the upstream, whose body may stay open for ever, nor
for the client, which need neither resume nor leave: `RelayEnds` speaks of bodies that
ended and contexts that were cancelled, and has a stalled client as its other way out.

## 4. Proofs

All theorems hold for every value of the constants that satisfies the named
assumptions (sets of any size, any number of starts, any burst, rate and scale).

* `CertLifecycle_proofs`. The inductive invariant `IndInv` adds to the types what
  each program counter says about disk (`DiskInv`), memory (`ProcessInv`), port
  (`PortInv`) and order (`OrderInv`): from `os.Stat` to the first write `cert.pem`
  does not exist and did not at the start, or this attempt's look failed; in ACME mode
  a start without cached certificate has an account, or its first look failed; between
  the writes `cert.pem` is what was received, and `key.pem` does not exist or the look
  failed; a key on disk at the start is older than the start's, as long as no attempt's
  look failed;
  between the phases the port answers for the order worked on.
  `ServedKeyProvenance` alone is not inductive: it says nothing about the way from
  the request to the write. From `IndInv`: `TypeCorrect`, `Provenance`, `Account`,
  `ChallengesUp`, `PortReleased`, `Uncached`, and `ImplementsSlot`, the refinement, with
  one step per action.
* `RateLimiter_proofs`. `WindowBound` needs an account of every bucket: for each
  earlier admission `i` of a key, what was granted since then plus the present
  level is at most a full bucket plus the refill since `i` (`AccountInv`). That in
  turn needs one limiter per key (`MapInv`) and mutual exclusion (`LockInv`).
* `ShimServer_proofs`. Every step of the server is a step of the limiter or leaves
  it alone (`ShimImplementsLimiter`), so the limiter's theorems carry over
  (`ShimWindowBounded`). `HandlerInv` says for each place in the handler which
  checks lie behind; a frame lemma disposes of all requests but the one that moves,
  and of `Revoke`, `Issue` and the clock.

* `AcpiCache_proofs`. `AcpiInv` adds to the types that a request past `Build` holds a
  whole archive in memory, that the cached archive is whole if it exists, and that a
  request without failure has a temporary file only between `CreateTemp` and `Rename`
  or `Remove`. `AnswersAreWhole` needs it because a request may answer with what
  another one wrote. From it: `AcpiTypeCorrect`, `WholeAnswers`, `NoLitter`, `Kept`.
* `Keys_proofs`, of `OfflineKey`. The lemma `Rounding` bounds what `\div` takes away,
  `DeadlineBounds` the last instant a key is accepted by its time of issue; the
  invariant says of every issued key when it was issued, and of the last answer what
  `Check` must have seen. From it: `OfflineTypeCorrect`, `Outlives`, `LosesLittle`, for
  any resolution of the clock and any validity.
* `Keys_proofs`, of `KeyServer`. `NoTokensInvented` is not inductive: a request that
  has read the count and not written it may write an old one. `TokensInv` therefore
  counts the requests in flight for a key (`InFlight`): the count, and what each of
  them has read, lie below the reports by at least their number (`TokensBounded`).
  `SequentialExact` needs that, while nothing has raced, requests run side by side
  only to read (`SoloInv`), so that no access is ever part of a conflict and a
  count lags by the one request in flight.
* `StreamRelay_proofs`. `RelayInv` says how many lines are between the scanner and the
  client for each place of goroutine and copy, and which ones (`CountInv`: the one in
  hand or in the pipe, and the one in the copy's buffer), that a goroutine exists exactly for a started stream (`StartInv`), and why goroutine
  and copy have ended (`EndInv`). `LinesInOrder` does not know which lines are in the
  pipe and the buffer, and `CompleteMeansAll` not why the pipe was closed. From it: `RelayTypeCorrect`,
  `InOrder`, `Complete`.
* `PromScrape_proofs`. `NoStale` rests on `FreshInv`: a vector that a scrape has reset
  holds nothing from before it began, since whatever is put there later is put by a
  scrape under way (`HistoryInv`: those from before it are over for good).
  `AloneExact` rests on `AloneInv` (no scrape runs beside one that none has overlapped)
  and `OwnsInv`: the vectors reset so far are empty, then those set so far hold the
  scrape's own child and value and the others at most its child. For any number of
  scrapes and vectors, in any orders of resetting and setting, and with repetitions.
* `Names_proofs`, of `Startup`. `StartupInv` says for each phase what the list of
  encoded names is made of. The key alone never comes near the limit (`KeyNames`, at
  most 52 names), which is what makes it safe that the limit is only checked where an
  attestation is added. From it: `StartupTypeCorrect`, `SanLimitKept`, `WildcardsByDns`,
  `Committed`.
* `Names_proofs`, of `Dcode`. The lemmas `CeilingBounds`, `UptoBounds` and `ChunksEnd`
  relate the loop to the rounded-up quotient of `Chunks`; `LabelShape` gives every
  character of a name. `LoopInv` says what each name of the loop is (`EncodeEnds`).
  `DcodeInv` adds the names of the certificate, which are distinct (`LabelsDiffer`),
  so that there are as many as chunks (`Fit`), and what is joined: up to 100 names
  the order by prefix is the order of the chunks (`PrefixOrder`), so that what is
  joined is a beginning of the document and the names left are those of its rest
  (`JoinsNext`); beyond, the name of chunk 100 is still to come or has left a digit
  (`StaysSpoilt`). That gives both directions of `RoundTrips`. `PublishedIsDecodable`
  puts `Startup` and `Dcode` together: an attestation that `main()` publishes in full
  is recovered from its own names.

Two assumptions say more than the types of the constants: both orders of gauge vectors
name the same vectors (`ScrapeAssumption`), and there are at most 1000 names
(`MaxNamesAssumption`), since the model's index has at most three digits.

Only model-checked: the liveness properties (`SettlesOrWedges`,
`EveryRequestAnswered`, `RelayEnds`), which are outside the prover's reach, and the
five runs that end in a violation. Every invariant and action property of a passing
run is also proved.

## 5. Plan

Done: every component with state of its own is modelled, and the safety properties
of all of them are proved. Left:

1. A refinement of the handler to an abstract admission policy, as `CertSlot` is one
   of the certificate.
2. The relay as a refinement of a channel of lines that is first in, first out.

### Not modelled

* The attestation report itself (`attestation.go`, `tls/tls.go`): calls to hardware
  quote providers, hashes and compression, without state. Which report is fetched,
  and that it may fail, is part of `Startup`.
* Response headers, among them `Content-Type` of the attestation handler, which is set
  after `WriteHeader`; the statuses of the control plane; the redirects of `ServeMux`.
* Timeouts of remote calls that have none: there is nothing to model but the wait.
* The expiry of certificates, which the code never looks at.
* The release files and the development scripts.
