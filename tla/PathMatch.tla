----------------------------- MODULE PathMatch -----------------------------
(***************************************************************************)
(* The path rules of api.go.  A path or a pattern is a sequence of pieces: *)
(* "/v1/user/*" is <<"/v1", "/user", "/", "*">>.  Pieces are such that no  *)
(* piece is a proper prefix of another one that occurs in the same place,  *)
(* so that a prefix of the string is a prefix of the sequence.             *)
(***************************************************************************)
EXTENDS SequencesExt

ChatCompletions == <<"/v1", "/chat", "/completions">>

\* A trailing "*" matches any continuation, the empty one included.
pathMatchesPattern(pattern, path) ==
  IF pattern # <<>> /\ Last(pattern) = "*"
    THEN IsPrefix(Front(pattern), path)
    ELSE pattern = path

pathAllowed(allowedPaths, path) ==
  \E pattern \in allowedPaths : pathMatchesPattern(pattern, path)

\* authenticatedEndpoints is a pointer: {} when nil, else the set it points to
\* in a set of its own.
requiresAuth(authenticatedEndpoints, path) ==
  IF authenticatedEndpoints = {}
    THEN path = ChatCompletions
    ELSE \E endpoints \in authenticatedEndpoints : pathAllowed(endpoints, path)

\* strings.TrimPrefix(r.Header.Get("Authorization"), "Bearer ")
TrimBearer(header) ==
  IF header # <<>> /\ Head(header) = "Bearer " THEN Tail(header) ELSE header

=============================================================================
