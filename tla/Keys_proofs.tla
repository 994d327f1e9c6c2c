---------------------------- MODULE Keys_proofs ----------------------------
(***************************************************************************)
(* Proofs about the two programs that make API keys: OfflineKey, for any   *)
(* number of keys, any validity and any number of ticks to a second; and   *)
(* KeyServer, for any number of requests, keys and starts.                 *)
(***************************************************************************)
EXTENDS OfflineKey, KeyServer, FiniteSetTheorems, TLAPS

-----------------------------------------------------------------------------
(* Offline keys.                                                           *)

\* Rounding down to a second loses less than a second.
LEMMA Rounding ==
  ASSUME NEW t \in Nat
  PROVE  /\ Seconds(t) \in Nat
         /\ Seconds(t) * Second <= t
         /\ t < Seconds(t) * Second + Second
  BY OfflineAssumption DEF Seconds

\* The message of a key carries its time of issue and the signer's validity.
Signed(k) ==
  [timestamp |-> Seconds(issuedAt[k]), validity |-> Seconds(Validity)]

MessagesInv ==
  \A k \in OfflineKeys : message[k] # Unissued => message[k] = Signed(k) /\ issuedAt[k] <= now

\* The time at which the key of the last answer expires.
Deadline ==
  Seconds(issuedAt[answer.key]) * Second + Seconds(Validity) * Second

AnswerInv ==
  answer # Unissued =>
    /\ message[answer.key] # Unissued
    /\ answer.result = "ok" => answer.intact /\ answer.at <= Deadline
    /\ answer.intact /\ answer.result # "ok" =>
         answer.result = "expired" /\ answer.at > Deadline

OfflineInv == OfflineTypeOK /\ MessagesInv /\ AnswerInv

\* Before the first key there is nothing to show.
LEMMA InitOfflineInv == OfflineInit => OfflineInv
  BY OfflineAssumption, UnissuedAssumption
  DEF OfflineInit, OfflineInv, OfflineTypeOK, MessagesInv, AnswerInv

\* Every step preserves the invariant.
LEMMA NextOfflineInv == OfflineInv /\ [OfflineNext]_offlineVars => OfflineInv'
<1> SUFFICES ASSUME OfflineInv, [OfflineNext]_offlineVars PROVE OfflineInv'
  OBVIOUS
<1> USE OfflineAssumption, UnissuedAssumption DEF OfflineInv, OfflineTypeOK
<1>1. CASE Tick
  BY <1>1 DEF Tick, MessagesInv, Signed, AnswerInv, Deadline
<1>2. ASSUME NEW k \in OfflineKeys, NewAPIKey(k) PROVE OfflineInv'
  <2>1. Seconds(now) \in Nat /\ Seconds(Validity) \in Nat
    BY Rounding
  <2> DEFINE new == [timestamp |-> Seconds(now), validity |-> Seconds(Validity)]
  <2>2. new \in Message
    BY <2>1 DEF Message
  <2> HIDE DEF new
  <2>3. /\ message[k] = Unissued
        /\ message' = [message EXCEPT ![k] = new]
        /\ issuedAt' = [issuedAt EXCEPT ![k] = now]
        /\ now' = now /\ answer' = answer
    BY <1>2 DEF NewAPIKey, new
  <2>4. OfflineTypeOK'
    BY <2>2, <2>3
  <2>5. MessagesInv'
    <3>1. ASSUME NEW j \in OfflineKeys, j # k PROVE message'[j] = message[j] /\ Signed(j)' = Signed(j) /\ issuedAt'[j] = issuedAt[j]
      BY <2>3, <3>1 DEF Signed
    <3>2. message'[k] = Signed(k)' /\ issuedAt'[k] <= now'
      BY <2>3 DEF Signed, new
    <3> QED BY <2>3, <3>1, <3>2 DEF MessagesInv
  <2>6. AnswerInv'
    <3> SUFFICES ASSUME answer # Unissued PROVE AnswerInv'
      BY <2>3 DEF AnswerInv
    <3>1. answer.key \in OfflineKeys /\ answer.key # k
      BY <2>3 DEF AnswerInv, Answer
    <3>2. message'[answer.key] = message[answer.key] /\ issuedAt'[answer.key] = issuedAt[answer.key]
      BY <2>3, <3>1
    <3> QED BY <2>3, <3>2 DEF AnswerInv, Deadline
  <2> QED BY <2>4, <2>5, <2>6
<1>3. ASSUME NEW k \in OfflineKeys, Validate(k) PROVE OfflineInv'
  <2>1. message[k] = Signed(k) /\ message[k] \in Message /\ message[k] # Unissued
    BY <1>3 DEF Validate, MessagesInv
  <2>2. PICK m \in {message[k], [message[k] EXCEPT !.timestamp = @ + 1],
                              [message[k] EXCEPT !.validity = @ + 1]} :
          \E result \in {"format", "length", Check(m, message[k])} :
            answer' = [key |-> k, at |-> now, result |-> result,
                       intact |-> m = message[k] /\ result \notin {"format", "length"}]
    BY <1>3 DEF Validate
  <2>3. PICK result \in {"format", "length", Check(m, message[k])} :
          answer' = [key |-> k, at |-> now, result |-> result,
                     intact |-> m = message[k] /\ result \notin {"format", "length"}]
    BY <2>2
  <2>4. Check(m, message[k]) \in {"expired", "signature", "ok"}
    BY DEF Check
  <2>5. /\ answer'.key = k /\ answer'.at = now /\ answer'.result = result
        /\ answer'.intact <=> m = message[k] /\ result \notin {"format", "length"}
    BY <2>3
  <2>6. UNCHANGED <<now, message, issuedAt>>
    BY <1>3 DEF Validate
  <2>7. answer' \in Answer
    BY <2>3, <2>4 DEF Answer, Results
  <2>8. Deadline' = message[k].timestamp * Second + message[k].validity * Second
    BY <2>1, <2>5, <2>6 DEF Deadline, Signed
  <2>9. result = "ok" => m = message[k] /\ ~(now - m.timestamp * Second > m.validity * Second)
    BY <2>3, <2>4 DEF Check
  <2>10. m = message[k] /\ result \notin {"format", "length", "ok"} =>
           result = "expired" /\ now - m.timestamp * Second > m.validity * Second
    BY <2>3, <2>4 DEF Check
  <2>11. /\ message[k].timestamp * Second \in Int /\ message[k].validity * Second \in Int
         /\ now \in Int
    BY <2>1 DEF Message
  <2>12. AnswerInv'
    <3> DEFINE ts == message[k].timestamp * Second
               val == message[k].validity * Second
    <3>1. ts \in Int /\ val \in Int /\ now \in Int /\ Deadline' = ts + val
      BY <2>8, <2>11
    <3>2. result = "ok" => m = message[k] /\ ~(now - ts > val)
      BY <2>9
    <3>3. m = message[k] /\ result \notin {"format", "length", "ok"} => result = "expired" /\ now - ts > val
      BY <2>10
    <3> HIDE DEF ts, val
    <3>4. result = "ok" => m = message[k] /\ now <= Deadline'
      BY <3>1, <3>2
    <3>5. m = message[k] /\ result \notin {"format", "length", "ok"} => result = "expired" /\ now > Deadline'
      BY <3>1, <3>3
    <3> QED BY <2>1, <2>5, <2>6, <3>4, <3>5 DEF AnswerInv
  <2>13. MessagesInv'
    BY <2>6 DEF MessagesInv, Signed
  <2> QED BY <2>6, <2>7, <2>12, <2>13
<1>4. CASE UNCHANGED offlineVars
  BY <1>4 DEF offlineVars, MessagesInv, Signed, AnswerInv, Deadline
<1> QED BY <1>1, <1>2, <1>3, <1>4 DEF OfflineNext

-----------------------------------------------------------------------------
\* The invariant holds in every state.
THEOREM OfflineInductive == OfflineSpec => []OfflineInv
  BY InitOfflineInv, NextOfflineInv, PTL DEF OfflineSpec

\* The types.
THEOREM OfflineTypeCorrect == OfflineSpec => []OfflineTypeOK
<1>1. OfflineInv => OfflineTypeOK
  BY DEF OfflineInv
<1> QED BY OfflineInductive, <1>1, PTL

\* Where the deadline lies: not after the end of the validity, and less than two
\* seconds before it.
LEMMA DeadlineBounds ==
  ASSUME OfflineInv, answer # Unissued
  PROVE  /\ Deadline \in Int /\ answer.at \in Int
         /\ issuedAt[answer.key] \in Int
         /\ Deadline <= issuedAt[answer.key] + Validity
         /\ issuedAt[answer.key] + Validity - 2 * Second < Deadline
<1>1. answer.key \in OfflineKeys /\ answer.at \in 0..MaxTime /\ issuedAt[answer.key] \in 0..MaxTime
  BY DEF OfflineInv, OfflineTypeOK, Answer
<1> DEFINE a == issuedAt[answer.key]
           x == Seconds(a) * Second
           y == Seconds(Validity) * Second
<1>2. a \in Nat /\ Validity \in Nat /\ Second \in Nat
  BY <1>1, OfflineAssumption
<1>3. x \in Int /\ x <= a /\ a < x + Second
  BY <1>2, Rounding
<1>4. y \in Int /\ y <= Validity /\ Validity < y + Second
  BY <1>2, Rounding
<1>5. Deadline = x + y
  BY DEF Deadline
<1> HIDE DEF a, x, y
<1>6. x + y \in Int /\ x + y <= a + Validity /\ a + Validity - 2 * Second < x + y
  BY <1>2, <1>3, <1>4
<1> QED BY <1>1, <1>2, <1>5, <1>6 DEF a

\* Rounding never lengthens the life of a key.
THEOREM Outlives == OfflineSpec => []NeverOutlives
<1>1. OfflineInv => NeverOutlives
  BY DeadlineBounds, OfflineAssumption DEF OfflineInv, AnswerInv, NeverOutlives, Age
<1> QED BY OfflineInductive, <1>1, PTL

\* And shortens it by less than two seconds.
THEOREM LosesLittle == OfflineSpec => []LosesLessThanTwoSeconds
<1>1. OfflineInv => LosesLessThanTwoSeconds
  BY DeadlineBounds, OfflineAssumption
  DEF OfflineInv, AnswerInv, LosesLessThanTwoSeconds, Intact, Age
<1> QED BY OfflineInductive, <1>1, PTL

-----------------------------------------------------------------------------
(* The key server.                                                         *)

\* The requests that have counted for key k and not yet written it.
InFlight(k) == {h \in Handlers : access[h] \in Inner /\ key[h] = k}

Accesses == Outer \cup Inner \cup {"idle", "ok", "error", "unauthorized", "panic", "killed"}

ServerTypeInv ==
  /\ access \in [Handlers -> Accesses]
  /\ DOMAIN key = Handlers
  /\ \A h \in Handlers : Running(h) => key[h] \in ServerKeys
  /\ read \in [Handlers -> Nat]
  /\ tokens \in [ServerKeys -> Nat] /\ collected \in [ServerKeys -> Nat]
  /\ \A k \in ServerKeys : IsFiniteSet(InFlight(k))

\* Every token that is about to be written has been reported: neither the map
\* nor what a request read from it is ahead of the reports by one of them.
TokensInv ==
  /\ \A k \in ServerKeys : tokens[k] + Cardinality(InFlight(k)) <= collected[k]
  /\ \A h \in Handlers : access[h] = "store" =>
       read[h] + Cardinality(InFlight(key[h])) <= collected[key[h]]

ServerInv == ServerTypeInv /\ TokensInv

\* Nothing is counted before the first request.
LEMMA InitServerInv == ServerInit => ServerInv
<1> SUFFICES ASSUME ServerInit PROVE ServerInv
  OBVIOUS
<1>1. \A k \in ServerKeys : InFlight(k) = {}
  BY DEF ServerInit, InFlight, Inner
<1>2. ServerTypeInv
  BY <1>1, FS_EmptySet DEF ServerInit, ServerTypeInv, Running, Accesses, Outer, Inner
<1>3. TokensInv
  BY <1>1, FS_EmptySet DEF ServerInit, TokensInv
<1> QED BY <1>2, <1>3 DEF ServerInv

\* What a step does outside the inner maps: no request enters one or leaves one.
LEMMA OutsideServerInv ==
  ASSUME ServerInv, NEW h \in Handlers,
         access[h] \notin Inner, access'[h] \in Accesses \ Inner,
         DOMAIN key' = Handlers, Running(h)' => key'[h] \in ServerKeys,
         access' = [access EXCEPT ![h] = access'[h]],
         \A o \in Handlers \ {h} : key'[o] = key[o],
         UNCHANGED <<read, tokens, collected>>
  PROVE  ServerInv'
<1>1. access \in [Handlers -> Accesses]
  BY DEF ServerInv, ServerTypeInv
<1>2. access' \in [Handlers -> Accesses] /\ \A o \in Handlers \ {h} : access'[o] = access[o]
  BY <1>1
<1>3. \A o \in Handlers : access'[o] \in Inner => o # h /\ access'[o] = access[o] /\ key'[o] = key[o]
  BY <1>2
<1>4. \A k : InFlight(k)' = InFlight(k)
  BY <1>2, <1>3 DEF InFlight
<1>5. ServerTypeInv'
  BY <1>2, <1>4 DEF ServerInv, ServerTypeInv, Running
<1>6. ASSUME NEW o \in Handlers, access'[o] = "store"
      PROVE  read'[o] + Cardinality(InFlight(key[o]))' <= collected'[key'[o]]
             /\ access[o] = "store" /\ key'[o] = key[o]
  <2>1. access[o] = "store" /\ key'[o] = key[o]
    BY <1>3, <1>6 DEF Inner
  <2>2. InFlight(key[o])' = InFlight(key[o])
    BY <1>4, <2>1 DEF InFlight
  <2> QED BY <2>1, <2>2 DEF ServerInv, TokensInv
<1> QED BY <1>4, <1>5, <1>6 DEF ServerInv, TokensInv

\* Every step preserves the invariant.
LEMMA NextServerInv == ServerInv /\ [ServerNext]_serverVars => ServerInv'
<1> SUFFICES ASSUME ServerInv, [ServerNext]_serverVars PROVE ServerInv'
  OBVIOUS
<1>0. /\ access \in [Handlers -> Accesses] /\ DOMAIN key = Handlers
      /\ read \in [Handlers -> Nat]
      /\ tokens \in [ServerKeys -> Nat] /\ collected \in [ServerKeys -> Nat]
      /\ \A k \in ServerKeys : IsFiniteSet(InFlight(k)) /\ Cardinality(InFlight(k)) \in Nat
      /\ \A h \in Handlers : access[h] \in Outer \cup Inner => key[h] \in ServerKeys
  BY FS_CardinalityType DEF ServerInv, ServerTypeInv, Running
<1>1. ASSUME NEW h \in Handlers, Call(h) PROVE ServerInv'
  <2>1. PICK p \in Outer, k \in ServerKeys :
          access' = [access EXCEPT ![h] = p] /\ key' = [key EXCEPT ![h] = k]
    BY <1>1 DEF Call, Begin
  <2>2. access'[h] = p /\ DOMAIN key' = Handlers /\ key'[h] = k
        /\ \A o \in Handlers \ {h} : key'[o] = key[o]
    BY <1>0, <2>1
  <2>3. access[h] \notin Inner /\ p \in Accesses \ Inner
    BY <1>1 DEF Call, Inner, Outer, Accesses
  <2>4. UNCHANGED <<read, tokens, collected>>
    BY <1>1 DEF Call
  <2> QED BY <2>1, <2>2, <2>3, <2>4, OutsideServerInv
<1>2. ASSUME NEW h \in Handlers, access[h] \notin Inner,
             NEW a \in {"ok", "error", "unauthorized", "panic"},
             access' = [access EXCEPT ![h] = a],
             UNCHANGED <<key, read, tokens, collected>>
      PROVE  ServerInv'
  <2>1. access'[h] = a /\ a \in Accesses \ (Outer \cup Inner)
    BY <1>0, <1>2 DEF Accesses, Outer, Inner
  <2>2. ~Running(h)'
    BY <2>1 DEF Running
  <2> QED BY <1>0, <1>2, <2>1, <2>2, OutsideServerInv
<1>3. ASSUME NEW h \in Handlers, Refuse(h) \/ Generate(h) \/ ValidateKey(h) \/ ListKeys(h)
      PROVE  ServerInv'
  <2>1. access[h] \notin Inner
    BY <1>3 DEF Refuse, Generate, ValidateKey, ListKeys, Inner
  <2>2. \E a \in {"ok", "error", "unauthorized", "panic"} : access' = [access EXCEPT ![h] = a]
    BY <1>3 DEF Refuse, Generate, ValidateKey, ListKeys, Reply
  <2>3. UNCHANGED <<key, read, tokens, collected>>
    BY <1>3 DEF Refuse, Generate, ValidateKey, ListKeys
  <2> QED BY <1>2, <2>1, <2>2, <2>3
\* /collect: the report and the request in flight are counted in one step.
<1>4. ASSUME NEW h \in Handlers, Collect(h) PROVE ServerInv'
  <2>1. CASE key[h] \notin apiKeys
    <3>1. access' = [access EXCEPT ![h] = "panic"] /\ access[h] \notin Inner
          /\ UNCHANGED <<key, read, tokens, collected>>
      BY <1>4, <2>1 DEF Collect, Reply, Inner
    <3> QED BY <1>2, <3>1
  <2>2. CASE key[h] \in apiKeys
    <3>0. PICK k0 \in ServerKeys : k0 = key[h]
      BY <1>0, <1>4 DEF Collect, Outer
    <3>1. /\ access[h] = "collect" /\ access' = [access EXCEPT ![h] = "load"]
          /\ collected' = [collected EXCEPT ![k0] = @ + 1]
          /\ UNCHANGED <<key, read, tokens>>
      BY <1>4, <2>2, <3>0 DEF Collect, Begin
    <3>2. access' \in [Handlers -> Accesses]
          /\ collected' \in [ServerKeys -> Nat]
          /\ collected'[k0] = collected[k0] + 1
          /\ \A k \in ServerKeys \ {k0} : collected'[k] = collected[k]
      BY <1>0, <3>1 DEF Outer, Inner, Accesses
    <3>3. InFlight(k0)' = InFlight(k0) \cup {h} /\ h \notin InFlight(k0)
      BY <1>0, <3>0, <3>1 DEF InFlight, Inner
    <3>4. \A k \in ServerKeys \ {k0} : InFlight(k)' = InFlight(k)
      BY <1>0, <3>0, <3>1 DEF InFlight, Inner
    <3>5. IsFiniteSet(InFlight(k0)') /\ Cardinality(InFlight(k0)') = Cardinality(InFlight(k0)) + 1
      BY <1>0, <3>2, <3>3, FS_AddElement
    <3>6. \A o \in Handlers : access'[o] \in Outer \cup Inner => key'[o] \in ServerKeys
      BY <1>0, <3>0, <3>1
    <3>7. \A o \in Handlers : access'[o] = "store" => access[o] = "store"
      BY <1>0, <3>1
    <3>8. key' = key /\ read' = read /\ tokens' = tokens
      BY <3>1
    <3>9. ServerTypeInv'
      BY <1>0, <3>2, <3>4, <3>5, <3>6, <3>8 DEF ServerTypeInv, Running
    <3>10. \A k \in ServerKeys :
             /\ Cardinality(InFlight(k)') \in Nat
             /\ \A n \in Nat : n + Cardinality(InFlight(k)) <= collected[k] =>
                             n + Cardinality(InFlight(k)') <= collected'[k]
      BY <1>0, <3>2, <3>4, <3>5
    <3>11. \A k \in ServerKeys : tokens'[k] + Cardinality(InFlight(k)') <= collected'[k]
      BY <1>0, <3>8, <3>10 DEF ServerInv, TokensInv
    <3>12. ASSUME NEW o \in Handlers, access'[o] = "store"
           PROVE  read'[o] + Cardinality(InFlight(key[o])') <= collected'[key'[o]]
      <4>1. access[o] = "store" /\ key[o] \in ServerKeys /\ key'[o] = key[o]
        BY <1>0, <3>7, <3>8, <3>12 DEF Inner
      <4>2. read[o] \in Nat /\ read'[o] = read[o]
        BY <1>0, <3>8
      <4>3. read[o] + Cardinality(InFlight(key[o])) <= collected[key[o]]
        BY <4>1 DEF ServerInv, TokensInv
      <4>4. PICK k \in ServerKeys : k = key[o]
        BY <4>1
      <4>5. read[o] + Cardinality(InFlight(k)') <= collected'[k]
        BY <3>10, <4>2, <4>3, <4>4
      <4> QED BY <4>1, <4>2, <4>4, <4>5
    <3> QED BY <3>9, <3>11, <3>12 DEF ServerInv, TokensInv
  <2> QED BY <2>1, <2>2
\* A read is of the map as it is.
<1>5. ASSUME NEW h \in Handlers, LoadTokens(h) PROVE ServerInv'
  <2>1. /\ access[h] = "load" /\ access' = [access EXCEPT ![h] = "store"]
        /\ read' = [read EXCEPT ![h] = tokens[key[h]]]
        /\ UNCHANGED <<key, tokens, collected>>
    BY <1>5 DEF LoadTokens, Begin
  <2>2. key[h] \in ServerKeys /\ tokens[key[h]] \in Nat
    BY <1>0, <2>1 DEF Inner
  <2>3. /\ access' \in [Handlers -> Accesses] /\ read' \in [Handlers -> Nat]
        /\ read'[h] = tokens[key[h]]
        /\ \A o \in Handlers \ {h} : read'[o] = read[o] /\ access'[o] = access[o]
        /\ access'[h] = "store"
    BY <1>0, <2>1, <2>2 DEF Accesses, Inner
  <2>4. \A k : InFlight(k)' = InFlight(k)
    BY <2>1, <2>3 DEF InFlight, Inner
  <2>5. ServerTypeInv'
    BY <1>0, <2>1, <2>2, <2>3, <2>4 DEF ServerTypeInv, Running
  <2>6. \A k \in ServerKeys : tokens'[k] + Cardinality(InFlight(k)') <= collected'[k]
    BY <2>1, <2>4 DEF ServerInv, TokensInv
  <2>7. ASSUME NEW o \in Handlers, access'[o] = "store"
        PROVE  read'[o] + Cardinality(InFlight(key[o])') <= collected'[key'[o]]
    <3>0. InFlight(key[o])' = InFlight(key[o]) /\ collected'[key'[o]] = collected[key[o]]
      BY <2>1, <2>4 DEF InFlight
    <3>1. CASE o = h
      BY <2>2, <2>3, <3>0, <3>1 DEF ServerInv, TokensInv
    <3>2. CASE o # h
      BY <2>3, <2>7, <3>0, <3>2 DEF ServerInv, TokensInv
    <3> QED BY <3>1, <3>2
  <2> QED BY <2>5, <2>6, <2>7 DEF ServerInv, TokensInv
\* A write puts at most one token more than was read, for one request less.
<1>6. ASSUME NEW h \in Handlers, StoreTokens(h) PROVE ServerInv'
  <2>0. PICK k0 \in ServerKeys : k0 = key[h]
    BY <1>0, <1>6 DEF StoreTokens, Inner
  <2>1. /\ access[h] = "store" /\ access' = [access EXCEPT ![h] = "ok"]
        /\ tokens' = tokens \/ tokens' = [tokens EXCEPT ![k0] = read[h] + 1]
        /\ UNCHANGED <<key, read, collected>>
    BY <1>6, <2>0 DEF StoreTokens, Reply
  <2>2. read[h] \in Nat
    BY <1>0
  <2>3. /\ access' \in [Handlers -> Accesses] /\ tokens' \in [ServerKeys -> Nat]
        /\ tokens'[k0] \in {tokens[k0], read[h] + 1}
        /\ \A k \in ServerKeys \ {k0} : tokens'[k] = tokens[k]
        /\ access'[h] = "ok" /\ \A o \in Handlers \ {h} : access'[o] = access[o]
    BY <1>0, <2>1, <2>2 DEF Accesses
  <2>4. InFlight(k0)' = InFlight(k0) \ {h} /\ h \in InFlight(k0)
    BY <1>0, <2>0, <2>1 DEF InFlight, Inner
  <2>5. \A k \in ServerKeys \ {k0} : InFlight(k)' = InFlight(k)
    BY <1>0, <2>0, <2>1 DEF InFlight, Inner
  <2>6. IsFiniteSet(InFlight(k0)') /\ Cardinality(InFlight(k0)') = Cardinality(InFlight(k0)) - 1
    BY <1>0, <2>2, <2>4, FS_RemoveElement
  <2>7. Cardinality(InFlight(k0)') \in Nat
    BY <2>6, FS_CardinalityType
  <2>8. \A o \in Handlers : access'[o] \in Outer \cup Inner => access[o] \in Outer \cup Inner
    BY <2>1, <2>3 DEF Inner, Outer
  <2>9. /\ key' = key /\ read' = read /\ collected' = collected
        /\ read[h] + Cardinality(InFlight(k0)) <= collected[k0]
        /\ tokens[k0] + Cardinality(InFlight(k0)) <= collected[k0]
    BY <2>0, <2>1 DEF ServerInv, TokensInv
  <2>10. ServerTypeInv'
    BY <1>0, <2>2, <2>3, <2>5, <2>6, <2>8, <2>9 DEF ServerTypeInv, Running
  <2>11. tokens'[k0] + Cardinality(InFlight(k0)') <= collected[k0]
    BY <1>0, <2>2, <2>3, <2>6, <2>7, <2>9
  <2>12. \A k \in ServerKeys : tokens'[k] + Cardinality(InFlight(k)') <= collected'[k]
    BY <2>3, <2>5, <2>9, <2>11 DEF ServerInv, TokensInv
  <2>13. \A k \in ServerKeys : \A n \in Nat : n + Cardinality(InFlight(k)) <= collected[k] =>
           n + Cardinality(InFlight(k)') <= collected[k]
    BY <1>0, <2>2, <2>5, <2>6
  <2>14. ASSUME NEW o \in Handlers, access'[o] = "store"
         PROVE  read'[o] + Cardinality(InFlight(key[o])') <= collected'[key'[o]]
    <3>1. access[o] = "store" /\ key[o] \in ServerKeys
      BY <1>0, <2>3, <2>14 DEF Inner
    <3>2. read[o] \in Nat /\ read[o] + Cardinality(InFlight(key[o])) <= collected[key[o]]
      BY <1>0, <3>1 DEF ServerInv, TokensInv
    <3>3. PICK k \in ServerKeys : k = key[o]
      BY <3>1
    <3>4. read[o] + Cardinality(InFlight(k)') <= collected[k]
      BY <2>13, <3>2, <3>3
    <3> QED BY <2>9, <3>3, <3>4
  <2> QED BY <2>10, <2>12, <2>14 DEF ServerInv, TokensInv
<1>7. CASE ConcurrentMapFatal
  <2>1. /\ access' = [h \in Handlers |-> IF Running(h) THEN "killed" ELSE access[h]]
        /\ tokens' = [k \in ServerKeys |-> 0] /\ collected' = [k \in ServerKeys |-> 0]
        /\ UNCHANGED <<key, read>>
    BY <1>7 DEF ConcurrentMapFatal
  <2>2. \A h \in Handlers : access'[h] \in Accesses /\ access'[h] \notin Outer \cup Inner
    BY <1>0, <2>1 DEF Running, Accesses, Outer, Inner
  <2>3. \A k \in ServerKeys : InFlight(k)' = {}
    BY <2>2 DEF InFlight
  <2>4. ServerTypeInv'
    BY <1>0, <2>1, <2>2, <2>3, FS_EmptySet DEF ServerTypeInv, Running
  <2>5. TokensInv'
    BY <2>1, <2>2, <2>3, FS_EmptySet DEF TokensInv, Inner
  <2> QED BY <2>4, <2>5 DEF ServerInv
<1>8. CASE UNCHANGED serverVars
  BY <1>8 DEF serverVars, handlerVars, ServerInv, ServerTypeInv, TokensInv, InFlight, Running
<1> QED BY <1>1, <1>3, <1>4, <1>5, <1>6, <1>7, <1>8 DEF ServerNext, Handle

\* Overlapping calls of /collect may lose tokens, but never count one twice.
THEOREM TokensBounded == ServerSpec => []NoTokensInvented
<1>1. ServerInv => NoTokensInvented
  BY FS_CardinalityType DEF ServerInv, ServerTypeInv, TokensInv, NoTokensInvented
<1> QED BY InitServerInv, NextServerInv, <1>1, PTL DEF ServerSpec

-----------------------------------------------------------------------------
(* The key server when nothing overlaps a write.                           *)

Reads == {"validate", "keys"}

\* A request runs beside another only if both do no more than read.
SoloInv ==
  \A h, o \in Handlers : h # o /\ Running(h) /\ Running(o) => access[h] \in Reads

\* Keys that /generate has drawn and not stored yet.
Drawn == {key[h] : h \in {o \in Handlers : access[o] = "generate"}}

CountedInv ==
  /\ generated = apiKeys \cup Drawn
  /\ \A k \in ServerKeys :
       collected[k] = IF InFlight(k) = {} THEN tokens[k] ELSE tokens[k] + 1
  /\ \A h \in Handlers : access[h] = "store" => read[h] = tokens[key[h]]

SequentialInv ==
  ServerInv /\ (~raced => SoloInv /\ dirty = {} /\ CountedInv)

\* An access conflicts with one that is under way, and one of the two writes.
LEMMA ConflictsRun ==
  ASSUME NEW h \in Handlers, NEW p \in Outer \cup Inner, NEW k, NEW o \in Conflicts(h, p, k)
  PROVE  o \in Handlers \ {h} /\ Running(o) /\ ~({p, access[o]} \subseteq Reads)
<1>1. /\ o \in Handlers \ {h}
      /\ \/ access[o] \in Outer \cup Inner
         \/ "keys" \in {p, access[o]} /\ {p, access[o]} \cap Inner # {}
      /\ {p, access[o]} \cap Writes # {}
  BY DEF Conflicts
<1>2. access[o] \in Outer \cup Inner
  BY <1>1 DEF Outer, Inner
<1>3. ~({p, access[o]} \subseteq Reads)
  BY <1>1 DEF Writes, Reads
<1> QED BY <1>1, <1>2, <1>3 DEF Running

\* The invariant holds before the first request.
LEMMA InitSequentialInv == ServerInit => SequentialInv
<1> SUFFICES ASSUME ServerInit PROVE SequentialInv
  OBVIOUS
<1>1. \A k \in ServerKeys : InFlight(k) = {}
  BY DEF ServerInit, InFlight, Inner
<1>2. Drawn = {} /\ SoloInv
  BY DEF ServerInit, Drawn, SoloInv, Running, Outer, Inner
<1>3. CountedInv /\ dirty = {}
  BY <1>1, <1>2 DEF ServerInit, CountedInv
<1> QED BY <1>2, <1>3, InitServerInv DEF SequentialInv

\* Every step preserves it.
LEMMA NextSequentialInv == SequentialInv /\ [ServerNext]_serverVars => SequentialInv'
<1> SUFFICES ASSUME SequentialInv, [ServerNext]_serverVars, ~raced'
             PROVE  SoloInv' /\ dirty' = {} /\ CountedInv'
  BY NextServerInv DEF SequentialInv
<1>0. /\ access \in [Handlers -> Accesses] /\ DOMAIN key = Handlers
      /\ read \in [Handlers -> Nat]
      /\ tokens \in [ServerKeys -> Nat] /\ collected \in [ServerKeys -> Nat]
      /\ \A h \in Handlers : access[h] \in Outer \cup Inner => key[h] \in ServerKeys
  BY DEF SequentialInv, ServerInv, ServerTypeInv, Running
<1>1. CASE ConcurrentMapFatal
  <2>1. /\ access' = [h \in Handlers |-> IF Running(h) THEN "killed" ELSE access[h]]
        /\ tokens' = [k \in ServerKeys |-> 0] /\ collected' = [k \in ServerKeys |-> 0]
        /\ dirty' = {} /\ apiKeys' = {} /\ generated' = {}
    BY <1>1 DEF ConcurrentMapFatal
  <2>2. \A h \in Handlers : access'[h] \notin Outer \cup Inner
    BY <1>0, <2>1 DEF Running, Outer, Inner
  <2>3. (\A k \in ServerKeys : InFlight(k)' = {}) /\ Drawn' = {} /\ SoloInv'
    BY <2>2 DEF InFlight, Drawn, SoloInv, Running, Outer
  <2> QED BY <2>1, <2>2, <2>3 DEF CountedInv, Inner
<1>2. CASE UNCHANGED serverVars
  BY <1>2 DEF serverVars, handlerVars, SequentialInv, SoloInv, Running, CountedInv, InFlight, Drawn
\* From here on the step is a handler's, and nothing has raced before it.
<1>3. ASSUME ~raced PROVE SoloInv /\ dirty = {} /\ CountedInv
  BY <1>3 DEF SequentialInv
<1>4. ASSUME NEW h \in Handlers, Call(h) PROVE SoloInv' /\ dirty' = {} /\ CountedInv'
  <2>1. PICK p \in Outer, k \in ServerKeys :
          /\ key' = [key EXCEPT ![h] = k]
          /\ Begin(h, p, k)
          /\ generated' = IF p = "generate" THEN generated \cup {k} ELSE generated
          /\ ~raced /\ \A o \in Handlers : Running(o) => {p, access[o]} \subseteq Reads
    BY <1>4 DEF Call, Reads
  <2>2. access[h] = "idle" /\ UNCHANGED <<read, apiKeys, tokens, collected>>
    BY <1>4 DEF Call
  <2>3. SoloInv /\ dirty = {} /\ CountedInv
    BY <1>3, <2>1
  <2>4. Conflicts(h, p, k) = {}
    BY <2>1, ConflictsRun
  <2>5. access' = [access EXCEPT ![h] = p] /\ dirty' = {}
    BY <2>1, <2>3, <2>4 DEF Begin
  <2>6. /\ access'[h] = p /\ key'[h] = k
        /\ \A o \in Handlers \ {h} : access'[o] = access[o] /\ key'[o] = key[o]
    BY <1>0, <2>1, <2>5
  <2>7. SoloInv'
    <3> SUFFICES ASSUME NEW a \in Handlers, NEW b \in Handlers, a # b, Running(a)', Running(b)'
                 PROVE  access'[a] \in Reads
      BY DEF SoloInv
    <3>1. CASE a = h
      BY <2>1, <2>6, <3>1 DEF Running
    <3>2. CASE b = h
      BY <2>1, <2>6, <3>2 DEF Running
    <3>3. CASE a # h /\ b # h
      BY <2>3, <2>6, <3>3 DEF Running, SoloInv
    <3> QED BY <3>1, <3>2, <3>3
  <2>8. \A j : InFlight(j)' = InFlight(j)
    BY <2>1, <2>2, <2>6 DEF InFlight, Inner, Outer
  <2>9. Drawn' = IF p = "generate" THEN Drawn \cup {k} ELSE Drawn
    BY <2>2, <2>6 DEF Drawn
  <2>10. generated' = apiKeys' \cup Drawn'
    BY <2>1, <2>2, <2>3, <2>9 DEF CountedInv
  <2>11. \A o \in Handlers : access'[o] = "store" => o # h
    BY <2>1, <2>6 DEF Outer
  <2> QED BY <2>2, <2>3, <2>5, <2>6, <2>7, <2>8, <2>10, <2>11 DEF CountedInv
\* A handler that answers: whoever else runs goes on alone or reads.
<1>5. ASSUME NEW h \in Handlers, NEW a, a \notin Outer \cup Inner,
             access' = [access EXCEPT ![h] = a], key' = key, SoloInv
      PROVE  /\ SoloInv' /\ access'[h] = a
             /\ \A o \in Handlers \ {h} : access'[o] = access[o]
  BY <1>0, <1>5 DEF SoloInv, Running
<1>6. ASSUME NEW h \in Handlers, Refuse(h) \/ ValidateKey(h) \/ ListKeys(h)
      PROVE  SoloInv' /\ dirty' = {} /\ CountedInv'
  <2>1. PICK a \in {"ok", "error", "unauthorized"} : access' = [access EXCEPT ![h] = a]
    BY <1>6 DEF Refuse, ValidateKey, ListKeys, Reply
  <2>2. /\ access[h] \notin Inner \cup {"generate"} /\ dirty' \subseteq dirty
        /\ UNCHANGED <<key, read, apiKeys, tokens, generated, collected, raced>>
    BY <1>6 DEF Refuse, ValidateKey, ListKeys, Reply, Inner
  <2>3. SoloInv /\ dirty = {} /\ CountedInv
    BY <1>3, <2>2
  <2>4. a \notin Outer \cup Inner
    BY DEF Outer, Inner
  <2>5. /\ SoloInv' /\ access'[h] = a
        /\ \A o \in Handlers \ {h} : access'[o] = access[o]
    BY <1>5, <2>1, <2>2, <2>3, <2>4
  <2>6. (\A k : InFlight(k)' = InFlight(k)) /\ Drawn' = Drawn
    BY <2>2, <2>4, <2>5 DEF InFlight, Drawn, Outer
  <2>7. \A o \in Handlers : access'[o] = "store" => access[o] = "store"
    BY <2>4, <2>5 DEF Inner
  <2> QED BY <2>2, <2>3, <2>5, <2>6, <2>7 DEF CountedInv
<1>7. ASSUME NEW h \in Handlers, Generate(h) PROVE SoloInv' /\ dirty' = {} /\ CountedInv'
  <2>1. /\ access[h] = "generate" /\ access' = [access EXCEPT ![h] = "ok"]
        /\ apiKeys' = apiKeys \cup {key[h]} \/ h \in dirty
        /\ dirty' \subseteq dirty
        /\ UNCHANGED <<key, read, tokens, generated, collected, raced>>
    BY <1>7 DEF Generate, Reply
  <2>2. SoloInv /\ dirty = {} /\ CountedInv
    BY <1>3, <2>1
  <2>3. /\ SoloInv' /\ access'[h] = "ok"
        /\ \A o \in Handlers \ {h} : access'[o] = access[o]
    BY <1>5, <2>1, <2>2 DEF Outer, Inner
  <2>4. \A k : InFlight(k)' = InFlight(k)
    BY <2>1, <2>3 DEF InFlight, Inner
  <2>5. Drawn = Drawn' \cup {key[h]}
    BY <2>1, <2>3 DEF Drawn
  <2>6. generated' = apiKeys' \cup Drawn'
    BY <2>1, <2>2, <2>5 DEF CountedInv
  <2>7. \A o \in Handlers : access'[o] = "store" => access[o] = "store"
    BY <2>3
  <2> QED BY <2>1, <2>2, <2>3, <2>4, <2>6, <2>7 DEF CountedInv
\* A handler that goes on to another access, and does not only read, runs alone.
<1>8. ASSUME NEW h \in Handlers, Running(h), access[h] \notin Reads, SoloInv
      PROVE  \A o \in Handlers \ {h} : ~Running(o)
  BY <1>8 DEF SoloInv
<1>9. ASSUME NEW h \in Handlers, NEW p \in Inner, NEW k, Begin(h, p, k),
             \A o \in Handlers \ {h} : ~Running(o), dirty = {}
      PROVE  /\ SoloInv' /\ dirty' = {}
             /\ access'[h] = p
             /\ \A o \in Handlers \ {h} : access'[o] = access[o]
  <2>1. Conflicts(h, p, k) = {}
    BY <1>9, ConflictsRun
  <2>2. access' = [access EXCEPT ![h] = p] /\ dirty' = {}
    BY <1>9, <2>1 DEF Begin
  <2>3. access'[h] = p /\ \A o \in Handlers \ {h} : access'[o] = access[o]
    BY <1>0, <2>2
  <2>4. SoloInv'
    BY <1>9, <2>3 DEF SoloInv, Running
  <2> QED BY <2>2, <2>3, <2>4
<1>10. ASSUME NEW h \in Handlers, Collect(h) PROVE SoloInv' /\ dirty' = {} /\ CountedInv'
  <2>1. /\ access[h] = "collect"
        /\ UNCHANGED <<key, read, apiKeys, tokens, generated, raced>>
    BY <1>10 DEF Collect
  <2>2. SoloInv /\ dirty = {} /\ CountedInv
    BY <1>3, <2>1
  <2>3. CASE key[h] \notin apiKeys
    <3>1. /\ access' = [access EXCEPT ![h] = "panic"] /\ dirty' \subseteq dirty
          /\ collected' = collected
      BY <1>10, <2>3 DEF Collect, Reply
    <3>2. /\ SoloInv' /\ access'[h] = "panic"
          /\ \A o \in Handlers \ {h} : access'[o] = access[o]
      BY <1>5, <2>1, <2>2, <3>1 DEF Outer, Inner
    <3>3. (\A k : InFlight(k)' = InFlight(k)) /\ Drawn' = Drawn
      BY <2>1, <3>2 DEF InFlight, Drawn, Inner
    <3>4. \A o \in Handlers : access'[o] = "store" => access[o] = "store"
      BY <3>2
    <3> QED BY <2>1, <2>2, <3>1, <3>2, <3>3, <3>4 DEF CountedInv
  <2>4. CASE key[h] \in apiKeys
    <3>1. PICK k0 \in ServerKeys : k0 = key[h]
      BY <1>0, <2>1 DEF Outer
    <3>2. Begin(h, "load", k0) /\ collected' = [collected EXCEPT ![k0] = @ + 1]
      BY <1>10, <2>4, <3>1 DEF Collect
    <3>3. \A o \in Handlers \ {h} : ~Running(o)
      BY <1>8, <2>1, <2>2 DEF Running, Outer, Reads
    <3>4. "load" \in Inner
      BY DEF Inner
    <3>5. /\ SoloInv' /\ dirty' = {} /\ access'[h] = "load"
          /\ \A o \in Handlers \ {h} : access'[o] = access[o]
      BY <1>9, <2>2, <3>2, <3>3, <3>4
    <3>6. \A k \in ServerKeys : InFlight(k) = {}
      BY <2>1, <3>3 DEF InFlight, Running, Inner
    <3>7. \A k \in ServerKeys : InFlight(k)' = {} <=> k # k0
      BY <2>1, <3>1, <3>3, <3>4, <3>5 DEF InFlight, Running
    <3>8. Drawn' = Drawn
      BY <2>1, <3>5 DEF Drawn
    <3>9. \A k \in ServerKeys : collected[k] = tokens[k] /\ collected[k] \in Nat
      BY <1>0, <2>2, <3>6 DEF CountedInv
    <3>10. \A k \in ServerKeys :
             collected'[k] = IF InFlight(k)' = {} THEN tokens'[k] ELSE tokens'[k] + 1
      BY <1>0, <2>1, <3>2, <3>7, <3>9
    <3>11. \A o \in Handlers : access'[o] = "store" => access[o] = "store"
      BY <3>5
    <3> QED BY <2>1, <2>2, <3>5, <3>8, <3>10, <3>11 DEF CountedInv
  <2> QED BY <2>3, <2>4
<1>11. ASSUME NEW h \in Handlers, LoadTokens(h) PROVE SoloInv' /\ dirty' = {} /\ CountedInv'
  <2>1. /\ access[h] = "load" /\ Begin(h, "store", key[h])
        /\ read' = [read EXCEPT ![h] = tokens[key[h]]]
        /\ UNCHANGED <<key, apiKeys, tokens, generated, collected, raced>>
    BY <1>11 DEF LoadTokens
  <2>2. SoloInv /\ dirty = {} /\ CountedInv
    BY <1>3, <2>1
  <2>3. \A o \in Handlers \ {h} : ~Running(o)
    BY <1>8, <2>1, <2>2 DEF Running, Inner, Reads
  <2>4. /\ SoloInv' /\ dirty' = {} /\ access'[h] = "store"
        /\ \A o \in Handlers \ {h} : access'[o] = access[o]
    BY <1>9, <2>1, <2>2, <2>3 DEF Inner
  <2>5. (\A k : InFlight(k)' = InFlight(k)) /\ Drawn' = Drawn
    BY <2>1, <2>4 DEF InFlight, Drawn, Inner
  <2>6. \A o \in Handlers : access'[o] = "store" => o = h
    BY <2>3, <2>4 DEF Running, Inner
  <2>7. read'[h] = tokens[key[h]]
    BY <1>0, <2>1
  <2> QED BY <2>1, <2>2, <2>4, <2>5, <2>6, <2>7 DEF CountedInv
<1>12. ASSUME NEW h \in Handlers, StoreTokens(h) PROVE SoloInv' /\ dirty' = {} /\ CountedInv'
  <2>1. /\ access[h] = "store" /\ access' = [access EXCEPT ![h] = "ok"]
        /\ tokens' = [tokens EXCEPT ![key[h]] = read[h] + 1] \/ h \in dirty
        /\ dirty' \subseteq dirty
        /\ UNCHANGED <<key, read, apiKeys, generated, collected, raced>>
    BY <1>12 DEF StoreTokens, Reply
  <2>2. SoloInv /\ dirty = {} /\ CountedInv
    BY <1>3, <2>1
  <2>3. \A o \in Handlers \ {h} : ~Running(o)
    BY <1>8, <2>1, <2>2 DEF Running, Inner, Reads
  <2>4. /\ SoloInv' /\ access'[h] = "ok"
        /\ \A o \in Handlers \ {h} : access'[o] = access[o]
    BY <1>5, <2>1, <2>2 DEF Outer, Inner
  <2>5. PICK k0 \in ServerKeys : k0 = key[h]
    BY <1>0, <2>1 DEF Inner
  <2>6. \A k \in ServerKeys : InFlight(k) = {} <=> k # k0
    BY <2>1, <2>3, <2>5 DEF InFlight, Running, Inner
  <2>7. (\A k \in ServerKeys : InFlight(k)' = {}) /\ Drawn' = Drawn
    BY <2>1, <2>3, <2>4 DEF InFlight, Drawn, Running, Inner
  <2>8. \A k \in ServerKeys : tokens'[k] = collected[k]
    BY <1>0, <2>1, <2>2, <2>5, <2>6 DEF CountedInv
  <2>9. \A o \in Handlers : access'[o] # "store"
    BY <2>3, <2>4 DEF Running, Inner
  <2> QED BY <2>1, <2>2, <2>4, <2>7, <2>8, <2>9 DEF CountedInv
<1> QED BY <1>1, <1>2, <1>4, <1>6, <1>7, <1>10, <1>11, <1>12 DEF ServerNext, Handle

\* As long as no request that writes has overlapped another one, every key drawn
\* is known and every token counted, once the requests are over.
THEOREM SequentialExact == ServerSpec => []SequentialIsExact
<1>1. SequentialInv => SequentialIsExact
  <2> SUFFICES ASSUME SequentialInv, ~raced, \A h \in Handlers : ~Running(h)
               PROVE  apiKeys = generated /\ tokens = collected
    BY DEF SequentialIsExact
  <2>1. Drawn = {} /\ \A k \in ServerKeys : InFlight(k) = {}
    BY DEF Drawn, InFlight, Running, Outer
  <2>2. CountedInv
    BY DEF SequentialInv
  <2>3. \A k \in ServerKeys : collected[k] = tokens[k]
    BY <2>1, <2>2 DEF CountedInv
  <2>4. tokens \in [ServerKeys -> Nat] /\ collected \in [ServerKeys -> Nat]
    BY DEF SequentialInv, ServerInv, ServerTypeInv
  <2> QED BY <2>1, <2>2, <2>3, <2>4 DEF CountedInv
<1> QED BY InitSequentialInv, NextSequentialInv, <1>1, PTL DEF ServerSpec

=============================================================================
