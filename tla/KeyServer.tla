----------------------------- MODULE KeyServer -----------------------------
(***************************************************************************)
(* The development key server (keyserver/main.go): HTTP handlers, each in  *)
(* a goroutine of its own, that read and write apiKeys, a map of maps,     *)
(* without a lock.  When accesses to a map overlap and one of them writes, *)
(* the Go runtime may notice, which ends the process ("concurrent map      *)
(* writes") and loses the keys; or it does not, and a write may be lost.   *)
(*                                                                         *)
(* Every call of /collect reports one token; the models are left out.      *)
(***************************************************************************)
EXTENDS Naturals

CONSTANTS
  Handlers,      \* requests
  ServerKeys,    \* API keys
  MaxStarts      \* bound: starts of the process

ASSUME StartsAssumption == MaxStarts \in Nat

VARIABLES
  access,       \* the map access each handler is in, or its answer
  key,          \* the key it was called with, or drew
  read,         \* what /collect read from the inner map
  dirty,        \* handlers whose access overlaps a conflicting one
  apiKeys,      \* the keys of the outer map
  tokens,       \* the counts in the inner maps
  starts,       \* starts of the process so far
  generated,    \* history: keys drawn since the start
  collected,    \* history: tokens reported since the start for known keys
  raced         \* history: a request that writes has overlapped another one

handlerVars == <<access, key, read, dirty>>
serverVars  == <<handlerVars, apiKeys, tokens, starts, generated, collected, raced>>

Outer   == {"generate", "validate", "collect", "keys"}   \* accesses to apiKeys
Inner   == {"load", "store"}                             \* to apiKeys[key]
Writes  == {"generate", "store"}
Running(h) == access[h] \in Outer \cup Inner

ServerInit ==
  /\ access = [h \in Handlers |-> "idle"]
  /\ key = [h \in Handlers |-> CHOOSE k \in ServerKeys : TRUE]
  /\ read = [h \in Handlers |-> 0]
  /\ dirty = {}
  /\ apiKeys = {}
  /\ tokens = [k \in ServerKeys |-> 0]
  /\ starts = 1
  /\ generated = {}
  /\ collected = [k \in ServerKeys |-> 0]
  /\ raced = FALSE

-----------------------------------------------------------------------------
\* Handlers whose access is to the same map as access p with key k, one of the
\* two writing.  /keys encodes the inner maps too.
Conflicts(h, p, k) ==
  {o \in Handlers \ {h} :
     /\ \/ p \in Outer /\ access[o] \in Outer
        \/ p \in Inner /\ access[o] \in Inner /\ key[o] = k
        \/ "keys" \in {p, access[o]} /\ {p, access[o]} \cap Inner # {}
     /\ {p, access[o]} \cap Writes # {}}

Begin(h, p, k) ==
  /\ access' = [access EXCEPT ![h] = p]
  /\ dirty' = LET others == Conflicts(h, p, k) IN
                IF others = {} THEN dirty \ {h} ELSE dirty \cup others \cup {h}

\* A handler is called: /generate draws a key that is new, the others are
\* given one, and each begins its access to apiKeys.
Call(h) ==
  /\ access[h] = "idle"
  /\ \E p \in Outer, k \in ServerKeys :
       /\ (p = "generate") => (k \notin generated)
       /\ key' = [key EXCEPT ![h] = k]
       /\ Begin(h, p, k)
       /\ generated' = IF p = "generate" THEN generated \cup {k} ELSE generated
       /\ raced' = (raced \/ \E o \in Handlers :
            Running(o) /\ ({p, access[o]} \ {"validate", "keys"} # {}))
  /\ UNCHANGED <<read, apiKeys, tokens, starts, collected>>

\* A handler returns before it gets to the map: no random bytes for a key, a
\* method other than POST, a body that cannot be read or is not JSON.
Refuse(h) ==
  /\ access[h] = "idle"
  /\ access' = [access EXCEPT ![h] = "error"]
  /\ UNCHANGED <<key, read, dirty, apiKeys, tokens, starts, generated, collected, raced>>

Reply(h, a) ==
  /\ access' = [access EXCEPT ![h] = a]
  /\ dirty' = dirty \ {h}

\* apiKeys[k] = make(map[string]int)
Generate(h) ==
  /\ access[h] = "generate"
  /\ \/ apiKeys' = apiKeys \cup {key[h]}
     \/ h \in dirty /\ UNCHANGED apiKeys
  /\ Reply(h, "ok")
  /\ UNCHANGED <<key, read, tokens, starts, generated, collected, raced>>

ValidateKey(h) ==
  /\ access[h] = "validate"
  /\ Reply(h, IF key[h] \in apiKeys THEN "ok" ELSE "unauthorized")
  /\ UNCHANGED <<key, read, apiKeys, tokens, starts, generated, collected, raced>>

ListKeys(h) ==
  /\ access[h] = "keys"
  /\ Reply(h, "ok")
  /\ UNCHANGED <<key, read, apiKeys, tokens, starts, generated, collected, raced>>

\* apiKeys[b.APIKey] of /collect.  For an unknown key it is a nil map, and the
\* assignment panics, which net/http turns into the end of this request.
Collect(h) ==
  /\ access[h] = "collect"
  /\ IF key[h] \in apiKeys
       THEN /\ Begin(h, "load", key[h])
            /\ collected' = [collected EXCEPT ![key[h]] = @ + 1]
       ELSE Reply(h, "panic") /\ UNCHANGED collected
  /\ UNCHANGED <<key, read, apiKeys, tokens, starts, generated, raced>>

\* [b.Model] += b.Tokens: a read of the inner map, and a write.
LoadTokens(h) ==
  /\ access[h] = "load"
  /\ read' = [read EXCEPT ![h] = tokens[key[h]]]
  /\ Begin(h, "store", key[h])
  /\ UNCHANGED <<key, apiKeys, tokens, starts, generated, collected, raced>>

\* A faulty variant: = in place of +=.
StoreTokens_Assigns(h) ==
  /\ access[h] = "store"
  /\ tokens' = [tokens EXCEPT ![key[h]] = 1]
  /\ Reply(h, "ok")
  /\ UNCHANGED <<key, read, apiKeys, starts, generated, collected, raced>>

\* A faulty variant: added twice.
StoreTokens_Twice(h) ==
  /\ access[h] = "store"
  /\ tokens' = [tokens EXCEPT ![key[h]] = read[h] + 2]
  /\ Reply(h, "ok")
  /\ UNCHANGED <<key, read, apiKeys, starts, generated, collected, raced>>

StoreTokens(h) ==
  /\ access[h] = "store"
  /\ \/ tokens' = [tokens EXCEPT ![key[h]] = read[h] + 1]
     \/ h \in dirty /\ UNCHANGED tokens
  /\ Reply(h, "ok")
  /\ UNCHANGED <<key, read, apiKeys, starts, generated, collected, raced>>

\* The runtime notices overlapping accesses and ends the process; the next one
\* starts without keys.
ConcurrentMapFatal ==
  /\ dirty # {} /\ starts < MaxStarts
  /\ starts' = starts + 1
  /\ access' = [h \in Handlers |-> IF Running(h) THEN "killed" ELSE access[h]]
  /\ dirty' = {} /\ apiKeys' = {} /\ generated' = {} /\ raced' = FALSE
  /\ tokens' = [k \in ServerKeys |-> 0] /\ collected' = [k \in ServerKeys |-> 0]
  /\ UNCHANGED <<key, read>>

Handle(h) ==
  \/ Call(h) \/ Refuse(h) \/ Generate(h) \/ ValidateKey(h) \/ ListKeys(h)
  \/ Collect(h) \/ LoadTokens(h) \/ StoreTokens(h)

ServerNext == ConcurrentMapFatal \/ \E h \in Handlers : Handle(h)

ServerSpec == ServerInit /\ [][ServerNext]_serverVars

-----------------------------------------------------------------------------
\* Overlapping calls of /collect may lose tokens, but never count one twice.
NoTokensInvented == \A k \in ServerKeys : tokens[k] <= collected[k]

\* As long as no request that writes has overlapped another one, every key
\* drawn is known and every token counted, once the requests are over.
SequentialIsExact ==
  (~raced /\ \A h \in Handlers : ~Running(h)) =>
    (apiKeys = generated /\ tokens = collected)

=============================================================================
