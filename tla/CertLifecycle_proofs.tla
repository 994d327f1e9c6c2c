------------------------ MODULE CertLifecycle_proofs ------------------------
(***************************************************************************)
(* Proofs about CertLifecycle for every set of configurations, any number  *)
(* of starts and orders, with and without faults.                          *)
(***************************************************************************)
EXTENDS CertLifecycle, TLAPS

\* Positions of the process between not finding cert.pem and writing to it.
Requesting == {"obtain", "challenge", "ready", "await", "writeCert"}

\* What the two files hold, step by step.
DiskInv ==
  /\ keyFile # Absent => certFile # Absent
  /\ keyFile <= boot
  /\ cachedAtBoot => certFile # Absent
  /\ pc # "down" /\ cachedAtBoot /\ ~Overlooked => keyFile < boot
  /\ ~cachedAtBoot => keyFile \in {Absent, Broken, boot}
  /\ pc = "certificate" /\ ~cachedAtBoot => certFile = Absent
  /\ pc \in Requesting => (certFile = Absent /\ ~cachedAtBoot) \/ "attempt" \in blind
  /\ pc = "writeKey" =>
       /\ certFile = certPEM
       /\ (keyFile = Absent /\ ~cachedAtBoot) \/ "attempt" \in blind
  /\ pc = "parse" =>
       /\ certFile = certPEM /\ keyFile = boot
       /\ ~cachedAtBoot \/ "attempt" \in blind

\* What the process knows at each position.
ProcessInv ==
  /\ pc # "down" => boot \in Key
  /\ pc \notin {"listen", "serving"} => served = Absent
  /\ pc \in {"writeCert", "writeKey", "parse"} => certPEM # Absent
  /\ pc \in Requesting \cup {"stat", "writeKey", "parse", "sleep"} =>
       /\ ~SelfSigned
       /\ Acme /\ ~cachedAtBoot => registered \/ "register" \in blind
  /\ pc \in {"down", "certificate"} => blind = {}
  /\ pc = "stat" => "attempt" \notin blind
  /\ pc \in {"challenge", "ready", "await"} => order \in OrderIds
  /\ pc \notin {"challenge", "ready", "await"} => order = NoOrder

\* Who holds the port.
PortInv ==
  /\ ChallengePortReleased
  /\ pc \in {"ready", "await"} /\ orders[order].http =>
       port \in {"bound", "serving"} /\ portOrder = order

\* The orders worked on carry the attested key.
OrderInv ==
  pc \in {"challenge", "ready", "await"} => orders[order].key = boot

IndInv ==
  /\ TypeOK
  /\ DiskInv
  /\ ProcessInv
  /\ PortInv
  /\ OrderInv
  /\ ServedKeyProvenance

\* Init establishes the inductive invariant.
LEMMA InitIndInv == Init => IndInv
<1> SUFFICES ASSUME Init PROVE IndInv
  OBVIOUS
<1> USE ConfigsAssumption, OrdersAssumption, BootsAssumption
<1> USE DEF Init, Absent, Requesting
<1>1. TypeOK
  <2>1. NullOrder \in OrderState
    BY DEF NullOrder, OrderState
  <2>2. orders \in [OrderIds -> OrderState]
    BY <2>1
  <2>3. config \in Config
    BY Zenon
  <2>4. cachedAtBoot \in BOOLEAN /\ registered \in BOOLEAN
    OBVIOUS
  <2> HIDE ConfigsAssumption
  <2> QED BY <2>2, <2>3, <2>4 DEF TypeOK, PCs, Key, File, PortState
<1>2. DiskInv
  BY DEF DiskInv
<1>3. ProcessInv
  BY DEF ProcessInv
<1>4. PortInv
  BY DEF PortInv, ChallengePortReleased
<1>5. OrderInv /\ ServedKeyProvenance
  BY DEF OrderInv, ServedKeyProvenance
<1> QED
  BY <1>1, <1>2, <1>3, <1>4, <1>5 DEF IndInv

\* Every step of the process, the control plane and the operating system
\* preserves the inductive invariant.
LEMMA NextIndInv == IndInv /\ [Next]_vars => IndInv'
<1> SUFFICES ASSUME IndInv, [Next]_vars PROVE IndInv'
  OBVIOUS
<1> USE ConfigsAssumption, OrdersAssumption, BootsAssumption, FaultsAssumption
<1> USE DEF IndInv, TypeOK, DiskInv, ProcessInv, PortInv, OrderInv,
            ServedKeyProvenance, ChallengePortReleased, Requesting, PCs, Key,
            File, Absent, Broken, PortState, SelfSigned, Acme, start, known, disk, sock,
            Overlooked, Looks
<1>1. CASE Boot
  <2>1. TypeOK'
    BY <1>1 DEF Boot
  <2>2. DiskInv'
    <3>1. CASE certFile = Absent
      <4>1. ~cachedAtBoot' /\ keyFile = Absent
        BY <1>1, <3>1 DEF Boot
      <4> QED BY <1>1, <3>1, <4>1 DEF Boot
    <3>2. CASE certFile # Absent
      <4>1. cachedAtBoot'
        BY <1>1, <3>2, Zenon DEF Boot
      <4>2. keyFile < boot + 1
        OBVIOUS
      <4> QED BY <1>1, <3>2, <4>1, <4>2 DEF Boot
    <3> QED BY <3>1, <3>2
  <2>3. ProcessInv'
    BY <1>1 DEF Boot
  <2>4. PortInv'
    BY <1>1 DEF Boot
  <2>5. OrderInv'
    BY <1>1 DEF Boot
  <2>6. ServedKeyProvenance'
    BY <1>1 DEF Boot
  <2> QED BY <2>1, <2>2, <2>3, <2>4, <2>5, <2>6
<1>2. CASE Crash
  <2>1. TypeOK'
    BY <1>2 DEF Crash, Exit
  <2>2. DiskInv'
    BY <1>2 DEF Crash, Exit
  <2>3. ProcessInv'
    BY <1>2 DEF Crash, Exit
  <2>4. PortInv'
    BY <1>2 DEF Crash, Exit
  <2>5. OrderInv'
    BY <1>2 DEF Crash, Exit
  <2>6. ServedKeyProvenance'
    BY <1>2 DEF Crash, Exit
  <2> QED BY <2>1, <2>2, <2>3, <2>4, <2>5, <2>6
<1>3. CASE Certificate
  <2>1. TypeOK'
    BY <1>3 DEF Certificate, Exit, Fatal
  <2>2. DiskInv'
    BY <1>3 DEF Certificate, Exit, Fatal
  <2>3. ProcessInv'
    BY <1>3 DEF Certificate, Exit, Fatal
  <2>4. PortInv'
    BY <1>3 DEF Certificate, Exit, Fatal
  <2>5. OrderInv'
    BY <1>3 DEF Certificate, Exit, Fatal
  <2>6. ServedKeyProvenance'
    BY <1>3 DEF Certificate, Exit, Fatal
  <2> QED BY <2>1, <2>2, <2>3, <2>4, <2>5, <2>6
<1>4. CASE NewCertProxyManager
  <2>1. TypeOK'
    BY <1>4 DEF NewCertProxyManager, Exit, Fatal, CertProxy
  <2>2. DiskInv'
    BY <1>4 DEF NewCertProxyManager, Exit, Fatal, CertProxy
  <2>3. ProcessInv'
    BY <1>4 DEF NewCertProxyManager, Exit, Fatal, CertProxy
  <2>4. PortInv'
    BY <1>4 DEF NewCertProxyManager, Exit, Fatal, CertProxy
  <2>5. OrderInv'
    BY <1>4 DEF NewCertProxyManager, Exit, Fatal, CertProxy
  <2>6. ServedKeyProvenance'
    BY <1>4 DEF NewCertProxyManager, Exit, Fatal, CertProxy
  <2> QED BY <2>1, <2>2, <2>3, <2>4, <2>5, <2>6
<1>5. CASE NewCertManager
  <2>1. TypeOK'
    BY <1>5 DEF NewCertManager, Exit, Fatal
  <2>2. DiskInv'
    BY <1>5 DEF NewCertManager, Exit, Fatal
  <2>3. ProcessInv'
    <3>1. ~cachedAtBoot /\ pc' = "stat" => registered' \/ "register" \in blind'
      BY <1>5, Zenon DEF NewCertManager, Exit, Fatal
    <3> QED BY <1>5, <3>1 DEF NewCertManager, Exit, Fatal
  <2>4. PortInv'
    BY <1>5 DEF NewCertManager, Exit, Fatal
  <2>5. OrderInv'
    BY <1>5 DEF NewCertManager, Exit, Fatal
  <2>6. ServedKeyProvenance'
    BY <1>5 DEF NewCertManager, Exit, Fatal
  <2> QED BY <2>1, <2>2, <2>3, <2>4, <2>5, <2>6
<1>6. CASE CheckCache
  <2>1. TypeOK'
    BY <1>6 DEF CheckCache, Fail, PairLoads
  <2>2. DiskInv'
    BY <1>6 DEF CheckCache, Fail, PairLoads
  <2>3. ProcessInv'
    BY <1>6 DEF CheckCache, Fail, PairLoads
  <2>4. PortInv'
    BY <1>6 DEF CheckCache, Fail, PairLoads
  <2>5. OrderInv'
    BY <1>6 DEF CheckCache, Fail, PairLoads
  <2>6. ServedKeyProvenance'
    BY <1>6 DEF CheckCache, Fail, PairLoads
  <2> QED BY <2>1, <2>2, <2>3, <2>4, <2>5, <2>6
<1>7. CASE Obtain
  <2>1. TypeOK'
    BY <1>7 DEF Obtain, Fail, Receive
  <2>2. DiskInv'
    BY <1>7 DEF Obtain, Fail, Receive
  <2>3. ProcessInv'
    BY <1>7 DEF Obtain, Fail, Receive
  <2>4. PortInv'
    BY <1>7 DEF Obtain, Fail, Receive
  <2>5. OrderInv'
    BY <1>7 DEF Obtain, Fail, Receive
  <2>6. ServedKeyProvenance'
    BY <1>7 DEF Obtain, Fail, Receive
  <2> QED BY <2>1, <2>2, <2>3, <2>4, <2>5, <2>6
<1>8. CASE RequestCertificate
  <2>1. TypeOK'
    BY <1>8 DEF RequestCertificate, Fail, Receive, Delivered, CertProxy
  <2>2. DiskInv'
    BY <1>8 DEF RequestCertificate, Fail, Receive, Delivered, CertProxy
  <2>3. ProcessInv'
    BY <1>8 DEF RequestCertificate, Fail, Receive, Delivered, CertProxy
  <2>4. PortInv'
    BY <1>8 DEF RequestCertificate, Fail, Receive, Delivered, CertProxy
  <2>5. OrderInv'
    BY <1>8 DEF RequestCertificate, Fail, Receive, Delivered, CertProxy
  <2>6. ServedKeyProvenance'
    BY <1>8 DEF RequestCertificate, Fail, Receive, Delivered, CertProxy
  <2> QED BY <2>1, <2>2, <2>3, <2>4, <2>5, <2>6
<1>9. CASE Phase1
  <2>1. TypeOK'
    BY <1>9 DEF Phase1, Fail, CertProxy, Relay, OrderState
  <2>2. DiskInv'
    BY <1>9 DEF Phase1, Fail, CertProxy, Relay
  <2>3. ProcessInv'
    BY <1>9 DEF Phase1, Fail, CertProxy, Relay
  <2>4. PortInv'
    BY <1>9 DEF Phase1, Fail, CertProxy, Relay
  <2>5. OrderInv'
    BY <1>9 DEF Phase1, Fail, CertProxy, Relay
  <2>6. ServedKeyProvenance'
    BY <1>9 DEF Phase1, Fail, CertProxy, Relay
  <2> QED BY <2>1, <2>2, <2>3, <2>4, <2>5, <2>6
<1>10. CASE ServeChallenges
  <2>1. TypeOK'
    BY <1>10 DEF ServeChallenges, Fail
  <2>2. DiskInv'
    BY <1>10 DEF ServeChallenges, Fail
  <2>3. ProcessInv'
    BY <1>10 DEF ServeChallenges, Fail
  <2>4. PortInv'
    BY <1>10 DEF ServeChallenges, Fail
  <2>5. OrderInv'
    BY <1>10 DEF ServeChallenges, Fail
  <2>6. ServedKeyProvenance'
    BY <1>10 DEF ServeChallenges, Fail
  <2> QED BY <2>1, <2>2, <2>3, <2>4, <2>5, <2>6
<1>11. CASE SendReady
  <2>1. TypeOK'
    BY <1>11 DEF SendReady, OrderState
  <2>2. DiskInv'
    BY <1>11 DEF SendReady, OrderState
  <2>3. ProcessInv'
    BY <1>11 DEF SendReady, OrderState
  <2>4. PortInv'
    BY <1>11 DEF SendReady, OrderState
  <2>5. OrderInv'
    BY <1>11 DEF SendReady, OrderState
  <2>6. ServedKeyProvenance'
    BY <1>11 DEF SendReady, OrderState
  <2> QED BY <2>1, <2>2, <2>3, <2>4, <2>5, <2>6
<1>12. CASE AwaitReady
  <2>1. TypeOK'
    BY <1>12 DEF AwaitReady, Fail, Receive, Delivered, CloseServer
  <2>2. DiskInv'
    BY <1>12 DEF AwaitReady, Fail, Receive, Delivered, CloseServer
  <2>3. ProcessInv'
    BY <1>12 DEF AwaitReady, Fail, Receive, Delivered, CloseServer
  <2>4. PortInv'
    BY <1>12 DEF AwaitReady, Fail, Receive, Delivered, CloseServer
  <2>5. OrderInv'
    BY <1>12 DEF AwaitReady, Fail, Receive, Delivered, CloseServer
  <2>6. ServedKeyProvenance'
    BY <1>12 DEF AwaitReady, Fail, Receive, Delivered, CloseServer
  <2> QED BY <2>1, <2>2, <2>3, <2>4, <2>5, <2>6
<1>13. CASE WriteCert
  <2>1. TypeOK'
    BY <1>13 DEF WriteCert, Fail
  <2>2. DiskInv'
    BY <1>13 DEF WriteCert, Fail
  <2>3. ProcessInv'
    BY <1>13 DEF WriteCert, Fail
  <2>4. PortInv'
    BY <1>13 DEF WriteCert, Fail
  <2>5. OrderInv'
    BY <1>13 DEF WriteCert, Fail
  <2>6. ServedKeyProvenance'
    BY <1>13 DEF WriteCert, Fail
  <2> QED BY <2>1, <2>2, <2>3, <2>4, <2>5, <2>6
<1>14. CASE WriteKey
  <2>1. TypeOK'
    BY <1>14 DEF WriteKey, Fail
  <2>2. DiskInv'
    BY <1>14 DEF WriteKey, Fail
  <2>3. ProcessInv'
    BY <1>14 DEF WriteKey, Fail
  <2>4. PortInv'
    BY <1>14 DEF WriteKey, Fail
  <2>5. OrderInv'
    BY <1>14 DEF WriteKey, Fail
  <2>6. ServedKeyProvenance'
    BY <1>14 DEF WriteKey, Fail
  <2> QED BY <2>1, <2>2, <2>3, <2>4, <2>5, <2>6
<1>15. CASE ParsePair
  <2>1. TypeOK'
    BY <1>15 DEF ParsePair, Fail
  <2>2. DiskInv'
    BY <1>15 DEF ParsePair, Fail
  <2>3. ProcessInv'
    BY <1>15 DEF ParsePair, Fail
  <2>4. PortInv'
    BY <1>15 DEF ParsePair, Fail
  <2>5. OrderInv'
    BY <1>15 DEF ParsePair, Fail
  <2>6. ServedKeyProvenance'
    BY <1>15 DEF ParsePair, Fail
  <2> QED BY <2>1, <2>2, <2>3, <2>4, <2>5, <2>6
<1>16. CASE Retry
  <2>1. TypeOK'
    BY <1>16 DEF Retry
  <2>2. DiskInv'
    BY <1>16 DEF Retry
  <2>3. ProcessInv'
    BY <1>16 DEF Retry
  <2>4. PortInv'
    BY <1>16 DEF Retry
  <2>5. OrderInv'
    BY <1>16 DEF Retry
  <2>6. ServedKeyProvenance'
    BY <1>16 DEF Retry
  <2> QED BY <2>1, <2>2, <2>3, <2>4, <2>5, <2>6
<1>17. CASE Listen
  <2>1. TypeOK'
    BY <1>17 DEF Listen, Exit, Fatal
  <2>2. DiskInv'
    BY <1>17 DEF Listen, Exit, Fatal
  <2>3. ProcessInv'
    BY <1>17 DEF Listen, Exit, Fatal
  <2>4. PortInv'
    BY <1>17 DEF Listen, Exit, Fatal
  <2>5. OrderInv'
    BY <1>17 DEF Listen, Exit, Fatal
  <2>6. ServedKeyProvenance'
    BY <1>17 DEF Listen, Exit, Fatal
  <2> QED BY <2>1, <2>2, <2>3, <2>4, <2>5, <2>6
<1>18. CASE Serve
  <2>1. TypeOK'
    BY <1>18 DEF Serve
  <2>2. DiskInv'
    BY <1>18 DEF Serve
  <2>3. ProcessInv'
    BY <1>18 DEF Serve
  <2>4. PortInv'
    BY <1>18 DEF Serve
  <2>5. OrderInv'
    BY <1>18 DEF Serve
  <2>6. ServedKeyProvenance'
    BY <1>18 DEF Serve
  <2> QED BY <2>1, <2>2, <2>3, <2>4, <2>5, <2>6
<1>19. CASE \E o \in OrderIds : Validate(o)
  BY <1>19 DEF Validate, OrderState
<1>20. CASE \E o \in OrderIds : Expire(o)
  BY <1>20 DEF Expire, OrderState, NullOrder
<1>21. CASE UNCHANGED vars
  BY <1>21 DEF vars
<1> QED
  BY <1>1, <1>2, <1>3, <1>4, <1>5, <1>6, <1>7, <1>8, <1>9, <1>10, <1>11, <1>12,
     <1>13, <1>14, <1>15, <1>16, <1>17, <1>18, <1>19, <1>20, <1>21
  DEF Next, Main, ControlPlane, CertManager_Certificate,
      CertProxyManager_Certificate, obtainWithHTTPRelay, StoreAndParse

-----------------------------------------------------------------------------
\* The inductive invariant holds in every state the shim reaches.
THEOREM Inductive == Spec => []IndInv
  BY InitIndInv, NextIndInv, PTL DEF Spec

\* Every variable keeps its type, over any number of starts.
THEOREM TypeCorrect == Spec => []TypeOK
<1>1. IndInv => TypeOK
  BY DEF IndInv
<1> QED
  BY Inductive, <1>1, PTL

\* Which key is served: the attested one after a start with an empty cache or a
\* self-signed certificate, an older one after any other start.
THEOREM Provenance == Spec => []ServedKeyProvenance
<1>1. IndInv => ServedKeyProvenance
  BY DEF IndInv
<1> QED
  BY Inductive, <1>1, PTL

\* CertManager.Certificate never asks the CA without an account.
THEOREM Account == Spec => []ObtainHasAccount
<1>1. IndInv => ObtainHasAccount
  BY DEF IndInv, DiskInv, ProcessInv, Requesting, ObtainHasAccount
<1> QED
  BY Inductive, <1>1, PTL

\* Whatever the timing of the goroutine, timeouts and retries: the port answers
\* for an order while the shim waits for it.
THEOREM ChallengesUp == Spec => []ChallengesUpBeforeReady
<1>1. IndInv => ChallengesUpBeforeReady
  BY DEF IndInv, PortInv, ChallengesUpBeforeReady
<1> QED
  BY Inductive, <1>1, PTL

\* And it is given back afterwards.
THEOREM PortReleased == Spec => []ChallengePortReleased
<1>1. IndInv => ChallengePortReleased
  BY DEF IndInv, PortInv
<1> QED
  BY Inductive, <1>1, PTL

\* No order is opened and no certificate received once cert.pem exists.
THEOREM Uncached == Spec => RequestsOnlyWhenUncached
<1>1. IndInv /\ [Next]_vars =>
        [Asks => (certFile = Absent /\ ~cachedAtBoot) \/ "attempt" \in blind]_vars
  <2> SUFFICES ASSUME IndInv, Next, Asks
               PROVE (certFile = Absent /\ ~cachedAtBoot) \/ "attempt" \in blind
    OBVIOUS
  <2>1. CASE pc \in Requesting
    BY <2>1 DEF IndInv, DiskInv
  <2>2. CASE pc \notin Requesting
    <3>1. certPEM' \in {certPEM, Absent}
      BY <2>2 DEF Next, Main, ControlPlane, CertManager_Certificate,
        CertProxyManager_Certificate, obtainWithHTTPRelay, StoreAndParse, Boot,
        Crash, Exit, Fatal, Certificate, NewCertProxyManager, NewCertManager,
        CheckCache, Obtain, RequestCertificate, Phase1, ServeChallenges,
        SendReady, AwaitReady, WriteCert, WriteKey, ParsePair, Retry, Listen,
        Serve, Validate, Expire, Fail, Requesting
    <3>2. \/ orders' = orders
          \/ \E o \in OrderIds : Validate(o) \/ Expire(o)
      BY <2>2 DEF Next, Main, ControlPlane, CertManager_Certificate,
        CertProxyManager_Certificate, obtainWithHTTPRelay, StoreAndParse, Boot,
        Crash, Exit, Fatal, Certificate, NewCertProxyManager, NewCertManager,
        CheckCache, Obtain, RequestCertificate, Phase1, ServeChallenges,
        SendReady, AwaitReady, WriteCert, WriteKey, ParsePair, Retry, Listen,
        Serve, Requesting
    <3>3. ASSUME NEW o \in OrderIds, orders'[o].state = "open",
                 orders[o].state = "none"
          PROVE FALSE
      BY <3>2, <3>3 DEF Validate, Expire, NullOrder, OrderState, IndInv, TypeOK
    <3> QED BY <3>1, <3>3 DEF Asks
  <2> QED BY <2>1, <2>2
<1> QED
  BY Inductive, <1>1, PTL DEF Spec, RequestsOnlyWhenUncached

-----------------------------------------------------------------------------
(* CertLifecycle implements CertSlot.                                      *)

\* An empty cache is an empty slot.
LEMMA InitSlot == Init => Cache!SlotInit
  BY DEF Init, Cache!SlotInit, SlotState, SlotKey, Absent

\* Every step is a step of the slot, or leaves it alone.
LEMMA NextSlot ==
  IndInv /\ [Next]_vars => [Cache!SlotNext]_(Cache!slotVars)
<1> SUFFICES ASSUME IndInv, [Next]_vars
             PROVE [Cache!SlotNext]_(Cache!slotVars)
  OBVIOUS
<1> USE BootsAssumption
<1> USE DEF IndInv, TypeOK, DiskInv, ProcessInv, Requesting, Key, File, Absent,
            Broken, start, known, disk, sock, SlotState, SlotKey, PairLoads,
            Cache!slotVars
<1>1. CASE Boot
  <2>1. Cache!Start
    BY <1>1 DEF Boot, Cache!Start
  <2> QED BY <2>1 DEF Cache!SlotNext
<1>0. ASSUME blind' = {} PROVE ("attempt" \in blind') = FALSE
  BY <1>0
<1>2. CASE Exit /\ UNCHANGED disk /\ pc # "writeKey"
  <2>1. Cache!Stop
    BY <1>0, <1>2 DEF Exit, Cache!Stop
  <2> QED BY <2>1 DEF Cache!SlotNext
<1>3. CASE Crash
  <2>0. /\ served' = 0 /\ boot' = boot /\ pc' = "down"
        /\ ("attempt" \in blind') = FALSE
    BY <1>0, <1>3 DEF Crash, Exit
  <2>1. CASE pc = "writeCert"
    <3>1. CASE UNCHANGED disk
      <4>1. Cache!Stop
        BY <2>0, <2>1, <3>1 DEF Cache!Stop
      <4> QED BY <4>1 DEF Cache!SlotNext
    <3>2. CASE certFile' = Broken
      <4>1. SlotState \in {"empty", "half"} \/ "attempt" \in blind
        BY <2>1
      <4>2. SlotState' = "wedged" /\ SlotKey' = 0
        BY <2>0, <3>2
      <4>3. Cache!Wedge
        BY ONLY <2>0, <4>1, <4>2 DEF Cache!Wedge
      <4> QED BY <4>3 DEF Cache!SlotNext
    <3> QED BY <1>3, <2>1, <3>1, <3>2 DEF Crash
  <2>2. CASE pc = "writeKey"
    <3>0. certFile' = certFile /\ keyFile' \in {keyFile, Broken}
      BY <1>3, <2>2 DEF Crash
    <3>1. CASE UNCHANGED <<SlotState, SlotKey>> /\ SlotState # "half"
      <4>1. Cache!Stop
        BY ONLY <2>0, <3>1 DEF Cache!Stop
      <4> QED BY <4>1 DEF Cache!SlotNext
    <3>2. CASE /\ SlotState' = "wedged" /\ SlotKey' = 0
               /\ SlotState = "half" \/ "attempt" \in blind
      <4>1. Cache!Wedge
        BY ONLY <2>0, <3>2 DEF Cache!Wedge
      <4> QED BY <4>1 DEF Cache!SlotNext
    <3>3. CASE PairLoads
      BY <2>0, <2>2, <3>0, <3>1, <3>2, <3>3
    <3>4. CASE ~PairLoads
      BY <2>0, <2>2, <3>0, <3>1, <3>2, <3>4
    <3> QED BY <3>3, <3>4
  <2>3. CASE pc \notin {"writeCert", "writeKey"}
    BY <1>2, <1>3, <2>3 DEF Crash
  <2> QED BY <2>1, <2>2, <2>3
<1>4. CASE Certificate
  <2>1. CASE served' = boot /\ pc' = "listen" /\ UNCHANGED <<boot, known, disk>>
    <3>1. Cache!ServePair
      BY <1>4, <2>1 DEF Certificate, Cache!ServePair
    <3> QED BY <3>1 DEF Cache!SlotNext
  <2> QED BY <1>2, <1>4, <2>1 DEF Certificate, Fatal
<1>5. CASE CheckCache
  <2>1. CASE PairLoads /\ served' = keyFile /\ pc' = "listen" /\ UNCHANGED blind
    <3>1. Cache!ServePair
      BY <1>5, <2>1 DEF CheckCache, Cache!ServePair
    <3> QED BY <3>1 DEF Cache!SlotNext
  <2>2. CASE UNCHANGED <<served, blind>> /\ pc' \in {"obtain", "sleep"}
    BY <1>5, <2>2 DEF CheckCache
  <2>3. CASE UNCHANGED served /\ pc' = "obtain"
    <3>1. Cache!Look
      BY <1>5, <2>3 DEF CheckCache, Cache!Look
    <3> QED BY <3>1 DEF Cache!SlotNext
  <2> QED BY <1>5, <2>1, <2>2, <2>3 DEF CheckCache, Fail
<1>6. CASE WriteCert
  <2>1. \/ UNCHANGED Cache!slotVars
        \/ Cache!StoreFirstHalf
        \/ Cache!StoreOver
        \/ Cache!Wedge
    BY <1>6 DEF WriteCert, Fail, Cache!StoreFirstHalf, Cache!StoreOver, Cache!Wedge
  <2> QED BY <2>1 DEF Cache!SlotNext
<1>7. CASE WriteKey
  <2>1. \/ UNCHANGED Cache!slotVars
        \/ Cache!StoreSecondHalf
        \/ Cache!Wedge
    BY <1>7 DEF WriteKey, Fail, Cache!StoreSecondHalf, Cache!Wedge
  <2> QED BY <2>1 DEF Cache!SlotNext
<1>8. CASE ParsePair
  <2>1. \/ UNCHANGED Cache!slotVars
        \/ Cache!ServePair
    BY <1>8 DEF ParsePair, Fail, Cache!ServePair
  <2> QED BY <2>1 DEF Cache!SlotNext
<1>9. CASE NewCertProxyManager \/ NewCertManager \/ Listen
  <2>1. CASE Exit
    BY <1>2, <1>9, <2>1
    DEF NewCertProxyManager, NewCertManager, Listen, Fatal
  <2>2. CASE ~Exit
    BY <1>9, <2>2 DEF NewCertProxyManager, NewCertManager, Listen, Fatal
  <2> QED BY <2>1, <2>2
<1>10. CASE Obtain \/ RequestCertificate \/ obtainWithHTTPRelay
  <2>1. pc # "writeKey" /\ pc' # "writeKey" /\ UNCHANGED <<boot, blind, disk, served>>
    BY <1>10 DEF Obtain, RequestCertificate, obtainWithHTTPRelay, Phase1,
      ServeChallenges, SendReady, AwaitReady, Receive, Fail
  <2> QED BY <2>1
<1>11. CASE Retry
  <2>1. Cache!Look
    BY <1>11 DEF Retry, Cache!Look
  <2> QED BY <2>1 DEF Cache!SlotNext
<1>12. CASE Serve \/ ControlPlane
  BY <1>12 DEF Serve, ControlPlane, Validate, Expire
<1>13. CASE UNCHANGED vars
  BY <1>13 DEF vars
<1> QED
  BY <1>1, <1>3, <1>4, <1>5, <1>6, <1>7, <1>8, <1>9, <1>10, <1>11, <1>12, <1>13
  DEF Next, Main, CertManager_Certificate, CertProxyManager_Certificate,
      StoreAndParse

\* Both managers keep the promises of CertSlot: the pair in the cache is stored
\* once, is never replaced, and whatever wedges it wedges it for good.
THEOREM ImplementsSlot == Spec => CacheIsASlot
  BY InitSlot, NextSlot, Inductive, PTL DEF Spec, CacheIsASlot, Cache!SlotSpec

=============================================================================
