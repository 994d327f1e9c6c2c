------------------------- MODULE ShimServer_proofs -------------------------
(***************************************************************************)
(* Proofs about ShimServer for any number of concurrent requests, any      *)
(* configurations, keys and requests.                                      *)
(***************************************************************************)
EXTENDS ShimServer, RateLimiter_proofs

\* The request passed CORS and routing, and is one for the proxy handler.
Screened(c) ==
  /\ ~corsRejects(req[c]) /\ ~corsAnswers(req[c])
  /\ req[c].path \notin WellKnown /\ ~notFound(req[c])

\* The request's key was valid while it was handled, if it needs one.
Vetted(c) == NeedsAuth(c) => apiKey(c) \in validSince[c]

IsChat(c) == req[c].path = ChatCompletions

\* The body of a chat completion is JSON, if it could be read.
Checked(c) == IsChat(c) /\ req[c].body # "unreadable" => req[c].body = "json"

\* What each place in the handler of request c implies.
HandlerInv(c) ==
  /\ at[c] # "new" => req[c] \in RequestKinds
  /\ at[c] \notin {"new", "done"} => validKeys \subseteq validSince[c]
  /\ at[c] = "new" => verdict[c] = "none"
  /\ verdict[c] = "ok" => apiKey(c) \in validSince[c]
  /\ at[c] \notin {"new", "done"} \/ c \in sent => Screened(c)
  /\ at[c] \in {"limit", "limiting", "proxy", "upstream"} \/ c \in sent => Vetted(c)
  /\ at[c] \in {"proxy", "upstream"} \/ c \in sent =>
       (srv.rateLimit => stage[c] = "allowed")
  /\ c \in sent => at[c] \in {"upstream", "done"}
  /\ at[c] = "upstream" => c \in sent
  /\ at[c] \in {"new", "ehbp", "auth", "validating", "limit"} => stage[c] = "idle"
  /\ c \in sent => Checked(c)
  /\ at[c] = "done" /\ stage[c] = "allowed" =>
       c \in sent \/ (IsChat(c) /\ req[c].body \in {"empty", "malformed"})
  /\ stage[c] # "idle" => want[c] = apiKey(c) /\ Vetted(c) /\ at[c] # "new"

HandlersInv == \A c \in Callers : HandlerInv(c)

ShimInv == ShimTypeOK /\ LimiterInv /\ HandlersInv

-----------------------------------------------------------------------------
(* The handlers use the rate limiter as RateLimiter says.                  *)

\* A step of the server is a step of the limiter, or leaves it alone.
LEMMA ShimStepsLimiter ==
  ASSUME HandlersInv, [ShimNext]_shimVars PROVE [LimiterNext]_limiterVars
<1>1. ASSUME NEW c \in Callers, RateLimit(c) PROVE [LimiterNext]_limiterVars
  <2>1. CASE UNCHANGED limiterVars
    BY <2>1
  <2>2. CASE CallLimit(c, apiKey(c)) /\ apiKey(c) # <<>>
    <3>1. apiKey(c) \in Keys
      BY <1>1, <2>2, RequestsAssumption DEF RateLimit, HandlersInv, HandlerInv, apiKey
    <3> QED BY <2>2, <3>1 DEF LimiterNext
  <2> QED BY <1>1, <2>1, <2>2 DEF RateLimit
<1>2. ASSUME NEW c \in Callers, Limiting(c) PROVE [LimiterNext]_limiterVars
  BY <1>2 DEF Limiting, LimiterNext
<1>3. CASE Clock
  BY <1>3 DEF Clock, LimiterNext
<1>4. CASE UNCHANGED shimVars
  BY <1>4 DEF shimVars
<1> QED
  BY <1>1, <1>2, <1>3, <1>4
  DEF ShimNext, Handler, Remote, proxyHandler, ServeHTTP, Ehbp, Authenticate,
      ControlPlaneAnswers, Validate, Limited, Forward, UpstreamAnswers, Revoke, Issue

-----------------------------------------------------------------------------
(* The inductive invariant.                                                *)

\* The invariant holds before the first request.
LEMMA InitShimInv == ShimInit => ShimInv
<1> SUFFICES ASSUME ShimInit PROVE ShimInv
  OBVIOUS
<1>1. LimiterInv /\ LimiterTypeOK
  BY InitLimiterInv DEF ShimInit, LimiterInv
<1>2. ShimTypeOK
  BY <1>1 DEF ShimInit, ShimTypeOK, Places
<1>3. HandlersInv
  BY DEF ShimInit, LimiterInit, HandlersInv, HandlerInv
<1> QED BY <1>1, <1>2, <1>3 DEF ShimInv

\* Every step keeps the types.
LEMMA NextShimTypeOK ==
  ASSUME ShimTypeOK, HandlersInv, LimiterTypeOK', [ShimNext]_shimVars
  PROVE  ShimTypeOK'
<1> USE DEF ShimTypeOK, Places, Goto, Respond, httpVars
<1>1. ASSUME NEW c \in Callers, ServeHTTP(c) PROVE ShimTypeOK'
  BY <1>1 DEF ServeHTTP, wellKnownStatus
<1>2. ASSUME NEW c \in Callers, Handler(c) PROVE ShimTypeOK'
  BY <1>2 DEF Handler, proxyHandler, Ehbp, Authenticate, Validate, RateLimit,
              Limiting, Limited, Forward, ToUpstream
<1>3. ASSUME NEW c \in Callers, Remote(c) PROVE ShimTypeOK'
  BY <1>3 DEF Remote, ControlPlaneAnswers, UpstreamAnswers
<1>4. CASE \E k \in Keys : Revoke(k) \/ Issue(k)
  BY <1>4 DEF Revoke, Issue
<1>5. CASE Clock \/ UNCHANGED shimVars
  BY <1>5 DEF Clock, shimVars
<1> QED BY <1>1, <1>2, <1>3, <1>4, <1>5 DEF ShimNext

\* The step leaves request d as it is, and where its handler is.
SameRequest(d) ==
  req'[d] = req[d] /\ validSince[d] \subseteq validSince'[d] /\ srv' = srv

Untouched(d) ==
  /\ SameRequest(d)
  /\ at'[d] = at[d] /\ verdict'[d] = verdict[d]
  /\ stage'[d] = stage[d] /\ want'[d] = want[d]
  /\ d \in sent' <=> d \in sent
  /\ at[d] \notin {"new", "done"} => validKeys' \subseteq validKeys \cup validSince'[d]

\* What the checks say of a request depends on the request alone.
LEMMA Same ==
  ASSUME NEW d, SameRequest(d)
  PROVE  /\ apiKey(d)' = apiKey(d)
         /\ Vetted(d) => Vetted(d)'
         /\ Screened(d)' <=> Screened(d)
         /\ IsChat(d)' <=> IsChat(d)
         /\ Checked(d)' <=> Checked(d)
<1>1. apiKey(d)' = apiKey(d)
  BY DEF SameRequest, apiKey
<1>2. NeedsAuth(d)' <=> NeedsAuth(d)
  BY DEF SameRequest, NeedsAuth, Validator
<1>3. Vetted(d) => Vetted(d)'
  BY <1>1, <1>2 DEF SameRequest, Vetted
<1>4. Screened(d)' <=> Screened(d)
  BY DEF SameRequest, Screened, corsRejects, corsAnswers, notFound
<1>5. IsChat(d)' <=> IsChat(d)
  BY DEF SameRequest, IsChat
<1>6. Checked(d)' <=> Checked(d)
  BY DEF SameRequest, IsChat, Checked
<1> QED BY <1>1, <1>3, <1>4, <1>5, <1>6

\* A request the step does not touch keeps its part of the invariant.
LEMMA Frame ==
  ASSUME NEW d \in Callers, HandlersInv, Untouched(d) PROVE HandlerInv(d)'
<1>1. HandlerInv(d) /\ SameRequest(d)
  BY DEF HandlersInv, Untouched
<1> QED BY <1>1, Same DEF HandlerInv, Untouched, SameRequest

\* Every step keeps what the places imply, for the request that takes it and for
\* all the others.
LEMMA NextHandlersInv ==
  ASSUME ShimInv, [ShimNext]_shimVars PROVE HandlersInv'
<1> USE DEF ShimInv
<1> SUFFICES \A c \in Callers : HandlerInv(c)'
  BY DEF HandlersInv
<1>1. ASSUME NEW c \in Callers, ServeHTTP(c) PROVE \A d \in Callers : HandlerInv(d)'
  <2>1. ASSUME NEW d \in Callers, d # c PROVE Untouched(d)
    BY <1>1, <2>1 DEF ServeHTTP, Goto, Respond, limiterVars, Untouched, SameRequest, ShimTypeOK, LimiterTypeOK
  <2>2. HandlerInv(c)'
    <3>1. at[c] = "new" /\ HandlerInv(c)
      BY <1>1 DEF ServeHTTP, HandlersInv
    <3>2. at'[c] # "done" => Screened(c)'
      <4> DEFINE Passes(r) == /\ ~corsRejects(r) /\ ~corsAnswers(r)
                              /\ r.path \notin WellKnown /\ ~notFound(r)
      <4>1. PICK r \in RequestKinds :
              /\ req' = [req EXCEPT ![c] = r]
              /\ (\E code : Respond(c, code)) \/ Passes(r)
        BY <1>1, Zenon DEF ServeHTTP
      <4>2. req'[c] = r
        BY <4>1 DEF ShimTypeOK
      <4>3. srv' = srv
        BY <1>1 DEF ServeHTTP
      <4>4. ASSUME NEW code, Respond(c, code) PROVE at'[c] = "done"
        BY <4>4 DEF Respond, ShimTypeOK
      <4>5. at'[c] # "done" => Passes(r)
        BY <4>1, <4>4
      <4>6. Passes(r) => Screened(c)'
        BY <4>2, <4>3 DEF Screened, corsRejects, corsAnswers, notFound
      <4> QED BY <4>5, <4>6
    <3>3. /\ req'[c] \in RequestKinds
          /\ validSince'[c] = validKeys /\ validKeys' = validKeys
          /\ at'[c] \in {"ehbp", "done"}
          /\ verdict' = verdict /\ sent' = sent /\ stage' = stage
      BY <1>1 DEF ServeHTTP, Goto, Respond, limiterVars, ShimTypeOK
    <3> QED BY <3>1, <3>2, <3>3 DEF HandlerInv
  <2> QED BY <2>1, <2>2, Frame
<1>2. ASSUME NEW c \in Callers, Ehbp(c) PROVE \A d \in Callers : HandlerInv(d)'
  <2>1. ASSUME NEW d \in Callers, d # c PROVE Untouched(d)
    BY <1>2, <2>1 DEF Ehbp, Goto, Respond, limiterVars, Untouched, SameRequest, ShimTypeOK, LimiterTypeOK
  <2>2. HandlerInv(c)'
    <3>1. HandlerInv(c)
      BY DEF HandlersInv
    <3>2. SameRequest(c)
      BY <1>2 DEF Ehbp, SameRequest
    <3> QED BY <1>2, <3>1, <3>2, Same DEF Ehbp, Goto, Respond, limiterVars, HandlerInv, ShimTypeOK, LimiterTypeOK
  <2> QED BY <2>1, <2>2, Frame
<1>3. ASSUME NEW c \in Callers, Authenticate(c) PROVE \A d \in Callers : HandlerInv(d)'
  <2>1. ASSUME NEW d \in Callers, d # c PROVE Untouched(d)
    BY <1>3, <2>1 DEF Authenticate, Goto, Respond, limiterVars, Untouched, SameRequest, ShimTypeOK, LimiterTypeOK
  <2>2. HandlerInv(c)'
    <3>1. HandlerInv(c)
      BY DEF HandlersInv
    <3>2. SameRequest(c)
      BY <1>3 DEF Authenticate, SameRequest
    <3> QED BY <1>3, <3>1, <3>2, Same DEF Authenticate, Goto, Respond, limiterVars, HandlerInv, ShimTypeOK, LimiterTypeOK, Vetted
  <2> QED BY <2>1, <2>2, Frame
<1>4. ASSUME NEW c \in Callers, ControlPlaneAnswers(c) PROVE \A d \in Callers : HandlerInv(d)'
  <2>1. ASSUME NEW d \in Callers, d # c PROVE Untouched(d)
    BY <1>4, <2>1 DEF ControlPlaneAnswers, limiterVars, Untouched, SameRequest, ShimTypeOK, LimiterTypeOK
  <2>2. HandlerInv(c)'
    <3>1. HandlerInv(c)
      BY DEF HandlersInv
    <3>2. SameRequest(c)
      BY <1>4 DEF ControlPlaneAnswers, SameRequest
    <3> QED BY <1>4, <3>1, <3>2, Same DEF ControlPlaneAnswers, limiterVars, HandlerInv, ShimTypeOK, LimiterTypeOK
  <2> QED BY <2>1, <2>2, Frame
<1>5. ASSUME NEW c \in Callers, Validate(c) PROVE \A d \in Callers : HandlerInv(d)'
  <2>1. ASSUME NEW d \in Callers, d # c PROVE Untouched(d)
    BY <1>5, <2>1 DEF Validate, Goto, Respond, limiterVars, Untouched, SameRequest, ShimTypeOK, LimiterTypeOK
  <2>2. HandlerInv(c)'
    <3>1. HandlerInv(c)
      BY DEF HandlersInv
    <3>2. SameRequest(c)
      BY <1>5 DEF Validate, SameRequest
    <3> QED BY <1>5, <3>1, <3>2, Same DEF Validate, Goto, Respond, limiterVars, HandlerInv, ShimTypeOK, LimiterTypeOK, Vetted
  <2> QED BY <2>1, <2>2, Frame
<1>6. ASSUME NEW c \in Callers, RateLimit(c) PROVE \A d \in Callers : HandlerInv(d)'
  <2>1. ASSUME NEW d \in Callers, d # c PROVE Untouched(d)
    BY <1>6, <2>1 DEF RateLimit, Goto, Respond, CallLimit, limiterVars, Untouched, SameRequest, ShimTypeOK, LimiterTypeOK
  <2>2. HandlerInv(c)'
    <3>1. HandlerInv(c)
      BY DEF HandlersInv
    <3>2. SameRequest(c)
      BY <1>6 DEF RateLimit, SameRequest
    <3> QED BY <1>6, <3>1, <3>2, Same DEF RateLimit, Goto, Respond, CallLimit, limiterVars, HandlerInv, ShimTypeOK, LimiterTypeOK
  <2> QED BY <2>1, <2>2, Frame
<1>7. ASSUME NEW c \in Callers, Limiting(c) PROVE \A d \in Callers : HandlerInv(d)'
  <2>1. ASSUME NEW d \in Callers, d # c PROVE Untouched(d)
    BY <1>7, <2>1 DEF Limiting, LimitStep, Lock, Lookup, Store, Return, Allow, httpVars, Untouched, SameRequest, ShimTypeOK, LimiterTypeOK
  <2>2. HandlerInv(c)'
    <3>1. HandlerInv(c)
      BY DEF HandlersInv
    <3>2. SameRequest(c)
      BY <1>7 DEF Limiting, httpVars, SameRequest
    <3> QED BY <1>7, <3>1, <3>2, Same DEF Limiting, LimitStep, Lock, Lookup, Store, Return, Allow, httpVars, HandlerInv, ShimTypeOK, LimiterTypeOK
  <2> QED BY <2>1, <2>2, Frame
<1>8. ASSUME NEW c \in Callers, Limited(c) PROVE \A d \in Callers : HandlerInv(d)'
  <2>1. ASSUME NEW d \in Callers, d # c PROVE Untouched(d)
    BY <1>8, <2>1 DEF Limited, Goto, Respond, limiterVars, Untouched, SameRequest, ShimTypeOK, LimiterTypeOK
  <2>2. HandlerInv(c)'
    <3>1. HandlerInv(c)
      BY DEF HandlersInv
    <3>2. SameRequest(c)
      BY <1>8 DEF Limited, SameRequest
    <3> QED BY <1>8, <3>1, <3>2, Same DEF Limited, Goto, Respond, limiterVars, HandlerInv, ShimTypeOK, LimiterTypeOK
  <2> QED BY <2>1, <2>2, Frame
<1>9. ASSUME NEW c \in Callers, Forward(c) PROVE \A d \in Callers : HandlerInv(d)'
  <2>1. ASSUME NEW d \in Callers, d # c PROVE Untouched(d)
    BY <1>9, <2>1 DEF Forward, ToUpstream, Goto, Respond, limiterVars, Untouched, SameRequest, ShimTypeOK, LimiterTypeOK
  <2>2. HandlerInv(c)'
    <3>1. HandlerInv(c)
      BY DEF HandlersInv
    <3>2. SameRequest(c)
      BY <1>9 DEF Forward, SameRequest
    <3> QED BY <1>9, <3>1, <3>2, Same DEF Forward, ToUpstream, Goto, Respond, limiterVars, IsChat, Checked, HandlerInv, ShimTypeOK, LimiterTypeOK
  <2> QED BY <2>1, <2>2, Frame
<1>10. ASSUME NEW c \in Callers, UpstreamAnswers(c) PROVE \A d \in Callers : HandlerInv(d)'
  <2>1. ASSUME NEW d \in Callers, d # c PROVE Untouched(d)
    BY <1>10, <2>1 DEF UpstreamAnswers, Respond, limiterVars, Untouched, SameRequest, ShimTypeOK, LimiterTypeOK
  <2>2. HandlerInv(c)'
    <3>1. HandlerInv(c)
      BY DEF HandlersInv
    <3>2. SameRequest(c)
      BY <1>10 DEF UpstreamAnswers, SameRequest
    <3> QED BY <1>10, <3>1, <3>2, Same DEF UpstreamAnswers, Respond, limiterVars, HandlerInv, ShimTypeOK, LimiterTypeOK
  <2> QED BY <2>1, <2>2, Frame
<1>11. CASE \E k \in Keys : Revoke(k) \/ Issue(k)
  <2>1. ASSUME NEW d \in Callers PROVE Untouched(d)
    BY <1>11 DEF Revoke, Issue, limiterVars, Untouched, SameRequest, ShimTypeOK
  <2> QED BY <2>1, Frame
<1>12. CASE Clock \/ UNCHANGED shimVars
  <2>1. ASSUME NEW d \in Callers PROVE Untouched(d)
    BY <1>12 DEF Clock, Tick, httpVars, shimVars, limiterVars, Untouched, SameRequest
  <2> QED BY <2>1, Frame
<1> QED
  BY <1>1, <1>2, <1>3, <1>4, <1>5, <1>6, <1>7, <1>8, <1>9, <1>10, <1>11, <1>12
  DEF ShimNext, Handler, Remote, proxyHandler

\* Every step preserves the invariant.
LEMMA NextShimInv == ShimInv /\ [ShimNext]_shimVars => ShimInv'
<1> SUFFICES ASSUME ShimInv, [ShimNext]_shimVars PROVE ShimInv'
  OBVIOUS
<1>1. LimiterInv'
  BY ShimStepsLimiter, NextLimiterInv DEF ShimInv
<1>2. ShimTypeOK'
  BY <1>1, NextShimTypeOK DEF ShimInv, LimiterInv
<1>3. HandlersInv'
  BY NextHandlersInv
<1> QED BY <1>1, <1>2, <1>3 DEF ShimInv

-----------------------------------------------------------------------------
\* The invariant holds in every state of the server.
THEOREM ShimInductive == ShimSpec => []ShimInv
  BY InitShimInv, NextShimInv, PTL DEF ShimSpec

\* The types, for any number of requests.
THEOREM ShimTypeCorrect == ShimSpec => []ShimTypeOK
<1>1. ShimInv => ShimTypeOK
  BY DEF ShimInv
<1> QED BY ShimInductive, <1>1, PTL

\* The server uses the rate limiter as its specification says.
THEOREM ShimImplementsLimiter == ShimSpec => LimiterSpec
<1>1. ShimInit => LimiterInit
  BY DEF ShimInit
<1>2. ShimInv /\ [ShimNext]_shimVars => [LimiterNext]_limiterVars
  BY ShimStepsLimiter DEF ShimInv
<1> QED
  BY <1>1, <1>2, ShimInductive, PTL DEF ShimSpec, LimiterSpec

\* Hence no key gets more requests past the limiter than its bucket pays for,
\* with any number of requests in flight.
THEOREM ShimWindowBounded == ShimSpec => []WindowBound
  BY ShimImplementsLimiter, WindowBounded, PTL

\* Nothing goes to the upstream past the checks: what escapes the one for JSON is
\* a body that could not be read, and it has passed the others.
THEOREM Guarded == ShimSpec => []UpstreamGuarded
<1>1. ShimInv => UpstreamGuarded
  <2> SUFFICES ASSUME ShimInv PROVE UpstreamGuarded
    OBVIOUS
  <2>1. ASSUME NEW c \in sent
        PROVE  Screened(c) /\ Vetted(c) /\ (srv.rateLimit => stage[c] = "allowed")
               /\ Checked(c)
    <3>1. c \in Callers
      BY DEF ShimInv, ShimTypeOK
    <3>2. HandlerInv(c)
      BY <3>1 DEF ShimInv, HandlersInv
    <3> QED BY <3>2 DEF HandlerInv
  <2> QED BY <2>1 DEF UpstreamGuarded, Screened, Vetted, Checked, IsChat
<1> QED BY ShimInductive, <1>1, PTL

\* Tokens are taken only for requests that go to the upstream, or turn out not to
\* be JSON on the way.
THEOREM TokensPay == ShimSpec => []TokensPayForRequests
<1>1. ShimInv => TokensPayForRequests
  BY DEF ShimInv, HandlersInv, HandlerInv, TokensPayForRequests, IsChat
<1> QED BY ShimInductive, <1>1, PTL

\* Limiters are made for vetted keys only.
THEOREM VettedLimiters == ShimSpec => []LimitersOfVettedKeys
<1>1. ShimInv => LimitersOfVettedKeys
  <2> SUFFICES ASSUME ShimInv, NEW k \in Keys, limits[k] # None
               PROVE \E c \in Callers : /\ req[c] # None
                                        /\ apiKey(c) = k
                                        /\ ~NeedsAuth(c) \/ k \in validSince[c]
    BY DEF LimitersOfVettedKeys
  <2>1. limits[k] \in Callers /\ held[limits[k]] = limits[k] /\ want[limits[k]] = k
    BY DEF ShimInv, LimiterInv, LimiterTypeOK, MapInv
  <2>2. stage[limits[k]] # "idle"
    BY <2>1 DEF ShimInv, LimiterInv, LockInv
  <2>3. HandlerInv(limits[k])
    BY <2>1 DEF ShimInv, HandlersInv
  <2> QED BY <2>1, <2>2, <2>3, RequestsAssumption DEF HandlerInv, Vetted
<1> QED BY ShimInductive, <1>1, PTL

=============================================================================
