---------------------------- MODULE MCShimServer ----------------------------
(***************************************************************************)
(* Values for the constants of ShimServer.                                 *)
(***************************************************************************)
EXTENDS ShimServer

CONSTANTS c1, c2

MCCallers == {c1, c2}
MCKeys    == {<<"k1">>, <<"k2">>}
Symmetry  == Permutations(MCCallers)

Server(cp, auth, endpoints, paths, origins, limit) ==
  [controlPlane |-> cp, authenticated |-> auth, authenticatedEndpoints |-> endpoints,
   Paths |-> paths, OriginDomains |-> origins, rateLimit |-> limit]

V1Star == <<"/v1", "*">>
Models == <<"/v1", "/models">>

\* Everything configured; the defaults for endpoints with a rate limit; no
\* authentication and a rate limit; no checks at all.
MCConfigs ==
  { Server(TRUE,  TRUE,  {{V1Star}}, {V1Star}, {"site"}, TRUE),
    Server(TRUE,  TRUE,  {}, {}, {}, TRUE),
    Server(TRUE,  FALSE, {}, {}, {}, TRUE),
    Server(FALSE, TRUE,  {{}}, {ChatCompletions}, {}, FALSE) }

Req(origin, method, path, auth, body) ==
  [origin |-> origin, method |-> method, path |-> path, authorization |-> auth,
   body |-> body]

MCRequests ==
  { Req("",      "POST",    ChatCompletions, <<"Bearer ", "k1">>, "json"),
    Req("site",  "POST",    ChatCompletions, <<"k1">>, "json"),
    Req("",      "POST",    ChatCompletions, <<"Bearer ", "k2">>, "malformed"),
    Req("",      "POST",    ChatCompletions, <<"Bearer ", "k2">>, "empty"),
    Req("",      "POST",    ChatCompletions, <<"Bearer ", "k2">>, "unreadable"),
    Req("",      "POST",    ChatCompletions, <<"Bearer ">>, "empty"),
    Req("",      "GET",     Models,          <<>>, "empty"),
    Req("",      "GET",     Models,          <<"Bearer ", "k1">>, "empty"),
    Req("",      "GET",     <<"/metrics">>,  <<>>, "empty"),
    Req("other", "OPTIONS", ChatCompletions, <<>>, "empty"),
    Req("",      "GET",     <<"/.well-known", "/tinfoil-attestation">>, <<>>, "empty"),
    Req("",      "GET",     <<"/.well-known", "/tinfoil-certificate">>, <<>>, "empty"),
    Req("",      "GET",     <<"/.well-known", "/metrics">>, <<>>, "empty") }

\* Everything configured, and nothing but a rate limit.
MCLimitedConfigs ==
  { Server(TRUE,  TRUE,  {{V1Star}}, {V1Star}, {"site"}, TRUE),
    Server(TRUE,  FALSE, {}, {}, {}, TRUE) }

\* The requests that get as far as the limiter.
MCChatRequests ==
  { Req("",      "POST",    ChatCompletions, <<"Bearer ", "k1">>, "json"),
    Req("site",  "POST",    ChatCompletions, <<"k1">>, "json"),
    Req("",      "GET",     Models,          <<>>, "empty") }

=============================================================================
