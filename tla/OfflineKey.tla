----------------------------- MODULE OfflineKey -----------------------------
(***************************************************************************)
(* Offline API keys (key/offline): a signer issues keys that carry their   *)
(* time of issue and their validity, both in whole seconds, and a          *)
(* validator with the public key checks them without asking anyone.        *)
(*                                                                         *)
(* Time passes in ticks, Second of them to a second.  A signature is the   *)
(* message it was made for; whoever holds a key may change its message.    *)
(***************************************************************************)
EXTENDS Integers

CONSTANTS
  OfflineKeys, \* the keys keygen prints
  Unissued,    \* not issued yet
  Second,      \* ticks to a second
  Validity,    \* the signer's validity, in ticks
  MaxTime      \* bound on the clock

ASSUME OfflineAssumption ==
  /\ Second \in Nat \ {0} /\ Validity \in Nat /\ MaxTime \in Nat

VARIABLES
  now,         \* the clock, in ticks since the epoch
  message,     \* the signed part of each key
  issuedAt,    \* history: when NewAPIKey made it
  answer       \* what Validate said last, of which key and when

offlineVars == <<now, message, issuedAt, answer>>

Results == {"format", "length", "expired", "signature", "ok"}
Message == [timestamp : Nat, validity : Nat]
Answer  == [key : OfflineKeys, at : 0..MaxTime, result : Results, intact : BOOLEAN]

ASSUME UnissuedAssumption == Unissued \notin Message \cup Answer

OfflineInit ==
  /\ now \in 0..MaxTime
  /\ message = [k \in OfflineKeys |-> Unissued]
  /\ issuedAt = [k \in OfflineKeys |-> 0]
  /\ answer = Unissued

-----------------------------------------------------------------------------
\* time.Now().Unix() and uint64(validity.Seconds()): rounded down.
Seconds(t) == t \div Second

\* A faulty variant: issued a second early, to allow for clocks that are slow.
NewAPIKey_Backdated(k) ==
  /\ message[k] = Unissued
  /\ message' = [message EXCEPT ![k] =
       [timestamp |-> Seconds(now) - 1, validity |-> Seconds(Validity)]]
  /\ issuedAt' = [issuedAt EXCEPT ![k] = now]
  /\ UNCHANGED <<now, answer>>

\* NewAPIKey, with its random nonce: the keys are distinct.
NewAPIKey(k) ==
  /\ message[k] = Unissued
  /\ message' = [message EXCEPT ![k] =
       [timestamp |-> Seconds(now), validity |-> Seconds(Validity)]]
  /\ issuedAt' = [issuedAt EXCEPT ![k] = now]
  /\ UNCHANGED <<now, answer>>

\* A faulty variant: expiry is all that is checked.
Check_NoSignature(m, signature) ==
  IF now - m.timestamp * Second > m.validity * Second THEN "expired" ELSE "ok"

\* A faulty variant: time.Duration(validity) without the unit.
Check_NoUnit(m, signature) ==
  IF now - m.timestamp * Second > m.validity THEN "expired"
  ELSE IF signature # m THEN "signature"
  ELSE "ok"

\* time.Since(timestamp) > validity * time.Second, then ed25519.Verify.
Check(m, signature) ==
  IF now - m.timestamp * Second > m.validity * Second THEN "expired"
  ELSE IF signature # m THEN "signature"
  ELSE "ok"

\* What may be presented as key k: its bytes, garbled or cut, or with another
\* message before its signature.
Validate(k) ==
  /\ message[k] # Unissued
  /\ \E m \in {message[k], [message[k] EXCEPT !.timestamp = @ + 1],
                         [message[k] EXCEPT !.validity = @ + 1]} :
     \E result \in {"format", "length", Check(m, message[k])} :
       answer' = [key |-> k, at |-> now, result |-> result,
                  intact |-> m = message[k] /\ result \notin {"format", "length"}]
  /\ UNCHANGED <<now, message, issuedAt>>

Tick ==
  /\ now < MaxTime
  /\ now' = now + 1
  /\ UNCHANGED <<message, issuedAt, answer>>

OfflineNext == Tick \/ \E k \in OfflineKeys : NewAPIKey(k) \/ Validate(k)

OfflineSpec == OfflineInit /\ [][OfflineNext]_offlineVars

-----------------------------------------------------------------------------
\* An answer about what the signer made, unchanged.
Intact == answer # Unissued /\ answer.intact
Age == answer.at - issuedAt[answer.key]

\* Types.
OfflineTypeOK ==
  /\ now \in 0..MaxTime
  /\ message \in [OfflineKeys -> Message \cup {Unissued}]
  /\ issuedAt \in [OfflineKeys -> 0..MaxTime]
  /\ answer \in Answer \cup {Unissued}

\* A key is accepted only as it was signed, and never for longer than the
\* signer's validity, though both fields are rounded to seconds.
NeverOutlives ==
  (answer # Unissued /\ answer.result = "ok") => (answer.intact /\ Age <= Validity)

\* What rounding takes away from a key's life is less than two seconds: the
\* part of a second before its issue, and that of its validity.
LosesLessThanTwoSeconds ==
  (Intact /\ answer.result # "ok") =>
    (answer.result = "expired" /\ Age > Validity - 2 * Second)

=============================================================================
