----------------------------- MODULE ShimServer -----------------------------
(***************************************************************************)
(* The HTTP handler NewShimServer builds (api.go), serving several         *)
(* requests at once: CORS, routing, path filter, EHBP, API key validation  *)
(* against the control plane (key/online/verify.go), rate limiting         *)
(* (RateLimiter) and the reverse proxy.  A request is a caller of the rate *)
(* limiter.  The EHBP middleware, the control plane and the upstream are   *)
(* external.                                                               *)
(***************************************************************************)
EXTENDS RateLimiter, PathMatch

CONSTANTS
  ServerConfigs,  \* the configurations to serve under
  RequestKinds    \* the requests clients send

\* One request: the headers and the path the handlers look at, and what the body
\* is to whoever reads and parses it.  A body is unreadable when the client breaks
\* it off, or when it cannot be decrypted to its end.
Request == [ origin : STRING, method : STRING, path : Seq(STRING),
             authorization : Seq(STRING),
             body : {"empty", "malformed", "json", "unreadable"} ]

\* Clients use the keys of the limiter, or none.
ASSUME RequestsAssumption ==
  /\ RequestKinds \subseteq Request /\ None \notin RequestKinds
  /\ \A r \in RequestKinds : TrimBearer(r.authorization) \in Keys \cup {<<>>}

WellKnown ==
  { <<"/.well-known", s>> : s \in {"/tinfoil-attestation", "/tinfoil-certificate",
      "/tinfoil-metrics", "/tinfoil-acpi", "/metrics", "/hpke-keys"} }

VARIABLES
  srv,        \* config.Config, as far as the handler reads it
  req,        \* the requests
  at,         \* where the handler of each request is
  status,     \* status code of each response, 0 before there is one
  verdict,    \* the control plane's answer to Validate, on its way
  validKeys,  \* the keys the control plane accepts (external)
  validSince, \* history: the keys valid at some time in each request's handling
  sent        \* history: the requests handed to the base transport, which sends
              \* them to the upstream if it can be dialled

httpVars == <<req, at, status, verdict, validKeys, validSince, sent>>
shimVars == <<srv, httpVars, limiterVars>>

Places == {"new", "ehbp", "auth", "validating", "limit", "limiting", "proxy",
           "upstream", "done"}

ShimTypeOK ==
  /\ srv \in ServerConfigs
  /\ req \in [Callers -> RequestKinds \cup {None}]
  /\ at \in [Callers -> Places]
  /\ status \in [Callers -> {0, 200, 204, 400, 401, 403, 404, 429, 500, 502, 503}]
  /\ verdict \in [Callers -> {"none", "ok", "rejected", "unreachable"}]
  /\ validKeys \subseteq Keys
  /\ validSince \in [Callers -> SUBSET Keys]
  /\ sent \subseteq Callers
  /\ LimiterTypeOK

ShimInit ==
  /\ srv \in ServerConfigs
  /\ req = [c \in Callers |-> None]
  /\ at = [c \in Callers |-> "new"]
  /\ status = [c \in Callers |-> 0]
  /\ verdict = [c \in Callers |-> "none"]
  /\ validKeys \in SUBSET Keys
  /\ validSince = [c \in Callers |-> {}]
  /\ sent = {}
  /\ LimiterInit

\* main(): a validator only with a control plane and authentication enabled.
Validator == srv.controlPlane /\ srv.authenticated

apiKey(c)    == TrimBearer(req[c].authorization)
NeedsAuth(c) == Validator /\ requiresAuth(srv.authenticatedEndpoints, req[c].path)

Goto(c, place) == at' = [at EXCEPT ![c] = place] /\ UNCHANGED status

\* writeJSONError, or whatever writes the response, and return.
Respond(c, code) ==
  /\ at' = [at EXCEPT ![c] = "done"]
  /\ status' = [status EXCEPT ![c] = code]

-----------------------------------------------------------------------------
(* Everything before the proxy handler looks at the request alone.         *)

corsRejects(r) ==
  r.origin # "" /\ srv.OriginDomains # {} /\ r.origin \notin srv.OriginDomains
corsAnswers(r) == r.origin # "" /\ r.method = "OPTIONS"
notFound(r)    == srv.Paths # {} /\ ~pathAllowed(srv.Paths, r.path)

\* What a well-known handler may answer: a body EHBP refuses, a server without a
\* certificate, a wrong metrics key and a failing collection or archive.
wellKnownStatus(path) ==
  {200} \cup CASE path[2] = "/tinfoil-attestation" -> {400}
               [] path[2] = "/tinfoil-certificate" -> {503}
               [] path[2] \in {"/tinfoil-metrics", "/tinfoil-acpi", "/metrics"} -> {401, 500}
               [] OTHER -> {}

\* A request arrives: corsMiddleware, globalMiddleware, the mux and the path
\* filter of "/".  The well-known handlers answer without the upstream, and
\* keep no state of the server's; PromScrape and AcpiCache model two of them.
ServeHTTP(c) ==
  /\ at[c] = "new"
  /\ \E r \in RequestKinds :
       /\ req' = [req EXCEPT ![c] = r]
       /\ \/ corsRejects(r) /\ Respond(c, 403)
          \/ ~corsRejects(r) /\ corsAnswers(r) /\ Respond(c, 204)
          \/ /\ ~corsRejects(r) /\ ~corsAnswers(r)
             /\ \/ /\ r.path \in WellKnown
                   /\ \E code \in wellKnownStatus(r.path) : Respond(c, code)
                \/ r.path \notin WellKnown /\ notFound(r) /\ Respond(c, 404)
                \/ r.path \notin WellKnown /\ ~notFound(r) /\ Goto(c, "ehbp")
  /\ validSince' = [validSince EXCEPT ![c] = validKeys]
  /\ UNCHANGED <<srv, verdict, validKeys, sent, limiterVars>>

\* External: the EHBP middleware decrypts the body, or refuses it.
Ehbp(c) ==
  /\ at[c] = "ehbp"
  /\ Goto(c, "auth") \/ Respond(c, 400)
  /\ UNCHANGED <<srv, req, verdict, validKeys, validSince, sent, limiterVars>>

-----------------------------------------------------------------------------
(* The proxy handler.                                                      *)

\* Is a key needed, is there one, and if so ask the control plane.
Authenticate(c) ==
  /\ at[c] = "auth"
  /\ \/ ~NeedsAuth(c) /\ Goto(c, "limit")
     \/ NeedsAuth(c) /\ apiKey(c) = <<>> /\ Respond(c, 401)
     \/ NeedsAuth(c) /\ apiKey(c) # <<>> /\ Goto(c, "validating")
  /\ UNCHANGED <<srv, req, verdict, validKeys, validSince, sent, limiterVars>>

\* External: the control plane answers the POST, or the POST fails.
ControlPlaneAnswers(c) ==
  /\ at[c] = "validating"
  /\ verdict[c] = "none"
  /\ \E v \in {IF apiKey(c) \in validKeys THEN "ok" ELSE "rejected", "unreachable"} :
       verdict' = [verdict EXCEPT ![c] = v]
  /\ UNCHANGED <<srv, req, at, status, validKeys, validSince, sent, limiterVars>>

\* Mutant: the rejection is written, and the handler goes on.
Validate_NoReturn(c) ==
  /\ at[c] = "validating"
  /\ \/ verdict[c] \in {"ok", "rejected"} /\ Goto(c, "limit")
     \/ verdict[c] = "unreachable" /\ Respond(c, 500)
  /\ UNCHANGED <<srv, req, verdict, validKeys, validSince, sent, limiterVars>>

\* Validate returns.  The control plane's own status, here 401, is passed on; an
\* error without one is a 500.
Validate(c) ==
  /\ at[c] = "validating"
  /\ \/ verdict[c] = "ok" /\ Goto(c, "limit")
     \/ verdict[c] = "rejected" /\ Respond(c, 401)
     \/ verdict[c] = "unreachable" /\ Respond(c, 500)
  /\ UNCHANGED <<srv, req, verdict, validKeys, validSince, sent, limiterVars>>

\* Mutant: a request without a key gets a limiter of its own.
RateLimit_EmptyKey(c) ==
  /\ at[c] = "limit"
  /\ \/ ~srv.rateLimit /\ Goto(c, "proxy") /\ UNCHANGED limiterVars
     \/ srv.rateLimit /\ Goto(c, "limiting") /\ CallLimit(c, apiKey(c))
  /\ UNCHANGED <<srv, req, verdict, validKeys, validSince, sent>>

\* The rate limiter, if there is one, wants a key of its own accord.
RateLimit(c) ==
  /\ at[c] = "limit"
  /\ \/ ~srv.rateLimit /\ Goto(c, "proxy") /\ UNCHANGED limiterVars
     \/ srv.rateLimit /\ apiKey(c) = <<>> /\ Respond(c, 401) /\ UNCHANGED limiterVars
     \/ srv.rateLimit /\ apiKey(c) # <<>> /\ Goto(c, "limiting")
          /\ CallLimit(c, apiKey(c))
  /\ UNCHANGED <<srv, req, verdict, validKeys, validSince, sent>>

\* rateLimiter.Limit(apiKey).Allow(), step by step.
Limiting(c) ==
  /\ at[c] = "limiting"
  /\ LimitStep(c)
  /\ UNCHANGED <<srv, httpVars>>

\* Mutant: the 429 is written, and the handler goes on.
Limited_NoReturn(c) ==
  /\ at[c] = "limiting"
  /\ stage[c] \in {"allowed", "denied"}
  /\ Goto(c, "proxy")
  /\ UNCHANGED <<srv, req, verdict, validKeys, validSince, sent, limiterVars>>

\* Mutant: the test of Allow() is the wrong way round.
Limited_Inverted(c) ==
  /\ at[c] = "limiting"
  /\ \/ stage[c] = "denied" /\ Goto(c, "proxy")
     \/ stage[c] = "allowed" /\ Respond(c, 429)
  /\ UNCHANGED <<srv, req, verdict, validKeys, validSince, sent, limiterVars>>

\* What the handler makes of the answer.
Limited(c) ==
  /\ at[c] = "limiting"
  /\ \/ stage[c] = "allowed" /\ Goto(c, "proxy")
     \/ stage[c] = "denied" /\ Respond(c, 429)
  /\ UNCHANGED <<srv, req, verdict, validKeys, validSince, sent, limiterVars>>

\* proxy.ServeHTTP: Director points the request at the upstream, and the base
\* transport takes it.
ToUpstream(c) == Goto(c, "upstream") /\ sent' = sent \cup {c}

\* streamTransport.RoundTrip, which reads the body of a chat completion before the
\* request goes out.  When reading it fails, the check for JSON is skipped and the
\* request goes out with what is left of the body.
Forward(c) ==
  LET passes == req[c].path # ChatCompletions \/ req[c].body \in {"json", "unreadable"}
  IN  /\ at[c] = "proxy"
      /\ \/ ~passes /\ req[c].body = "empty" /\ Respond(c, 400) /\ UNCHANGED sent
         \/ ~passes /\ req[c].body = "malformed" /\ Respond(c, 502) /\ UNCHANGED sent
         \/ passes /\ ToUpstream(c)
      /\ UNCHANGED <<srv, req, verdict, validKeys, validSince, limiterVars>>

\* The upstream's response, whose status (200 for all of them) ModifyResponse
\* leaves alone, or ErrorHandler.
UpstreamAnswers(c) ==
  /\ at[c] = "upstream"
  /\ Respond(c, 200) \/ Respond(c, 502)
  /\ UNCHANGED <<srv, req, verdict, validKeys, validSince, sent, limiterVars>>

\* External: a key stops being valid, or a key becomes valid.
Revoke(k) ==
  /\ k \in validKeys
  /\ validKeys' = validKeys \ {k}
  /\ UNCHANGED <<srv, req, at, status, verdict, validSince, sent, limiterVars>>

Issue(k) ==
  /\ k \notin validKeys
  /\ validKeys' = validKeys \cup {k}
  /\ validSince' = [c \in Callers |->
       IF at[c] \in {"new", "done"} THEN validSince[c] ELSE validSince[c] \cup {k}]
  /\ UNCHANGED <<srv, req, at, status, verdict, sent, limiterVars>>

Clock == Tick /\ UNCHANGED <<srv, httpVars>>

-----------------------------------------------------------------------------

proxyHandler(c) ==
  \/ Authenticate(c) \/ Validate(c)
  \/ RateLimit(c) \/ Limiting(c) \/ Limited(c)
  \/ Forward(c)

Handler(c) == Ehbp(c) \/ proxyHandler(c)
Remote(c)  == ControlPlaneAnswers(c) \/ UpstreamAnswers(c)

ShimNext ==
  \/ \E c \in Callers : ServeHTTP(c) \/ Handler(c) \/ Remote(c)
  \/ \E k \in Keys : Revoke(k) \/ Issue(k)
  \/ Clock

ShimSpec == ShimInit /\ [][ShimNext]_shimVars

\* Go schedules every handler, the mutex is not denied to a handler for ever, the
\* client does not stall in the middle of its body, and the control plane and the
\* upstream answer: the code sets no timeout for any of them.
ShimFairSpec ==
  ShimSpec /\ \A c \in Callers : WF_shimVars(Handler(c)) /\ WF_shimVars(Remote(c))

-----------------------------------------------------------------------------
(* Properties.                                                             *)

\* What goes to the upstream has passed every check, in spite of what other
\* requests and the control plane do meanwhile: an allowed origin and path, a key
\* that was valid while the request was handled if the path requires one, a token
\* of the key's limiter if there are limiters.  A chat completion whose body was
\* read to its end has a JSON body; one whose body could not be read goes out
\* unchecked, with all the other checks passed.
UpstreamGuarded ==
  \A c \in sent :
    /\ ~corsRejects(req[c]) /\ ~corsAnswers(req[c])
    /\ req[c].path \notin WellKnown /\ ~notFound(req[c])
    /\ NeedsAuth(c) => apiKey(c) \in validSince[c]
    /\ srv.rateLimit => stage[c] = "allowed"
    /\ req[c].path = ChatCompletions /\ req[c].body # "unreadable" =>
         req[c].body = "json"

\* A token is taken from a key's limiter only for a request that then goes to the
\* upstream, or for a chat completion whose body was read and is not JSON, which
\* only the transport finds out: no refusal by the proxy handler costs a token.
TokensPayForRequests ==
  \A c \in Callers : at[c] = "done" /\ stage[c] = "allowed" =>
    \/ c \in sent
    \/ req[c].path = ChatCompletions /\ req[c].body \in {"empty", "malformed"}

\* A limiter is made for a key only if a request with that key got past
\* validation or did not need it: where every path requires a key, the map of
\* limiters holds no key the control plane has not accepted.
LimitersOfVettedKeys ==
  \A k \in Keys : limits[k] # None =>
    \E c \in Callers :
      /\ req[c] # None
      /\ apiKey(c) = k
      /\ ~NeedsAuth(c) \/ k \in validSince[c]

\* Every request that arrives is answered.
EveryRequestAnswered ==
  \A c \in Callers : at[c] # "new" ~> at[c] = "done"

\* README.md: for every request to the upstream the shim attempts to verify the
\* token.
EveryUpstreamRequestVerified ==
  Validator => \A c \in sent : verdict[c] = "ok"

\* config/config.go: when Authenticated is false, no API key checks are performed
\* (the well-known endpoints have keys of their own).
NoKeyChecksUnauthenticated ==
  ~srv.authenticated =>
    \A c \in Callers : status[c] = 401 => req[c].path \in WellKnown

=============================================================================
