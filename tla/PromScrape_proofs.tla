-------------------------- MODULE PromScrape_proofs --------------------------
(***************************************************************************)
(* Proofs about PromScrape for any number of concurrent scrapes and any    *)
(* gauge vectors, reset and set in any orders.                             *)
(***************************************************************************)
EXTENDS PromScrape, TLAPS

NoChild == [l \in Labels |-> Unset]

\* Scrape s has reset vector g.
HasReset(s, g) ==
  \/ doing[s] \in {"with", "set", "gather"}
  \/ doing[s] = "reset" /\ \E j \in 1..step[s] : ResetOrder[j] = g

\* A scrape that had ended when another one began is still over; and what a
\* scrape shows it has gathered.
HistoryInv ==
  \A s \in Scrapes :
    /\ \A t \in before[s] : doing[t] \in Over
    /\ doing[s] \in {"idle", "collect", "reset", "with", "set"} =>
         asked[s] = {} /\ shown[s] = [g \in Gauges |-> {}]

\* A vector that s has reset holds nothing from before s began.
FreshInv ==
  \A s \in Scrapes, g \in Gauges : HasReset(s, g) =>
    \A l \in Labels : vec[g][l] # Unset => value[g][vec[g][l]] \notin before[s]

-----------------------------------------------------------------------------
\* The orders name gauges, and all of them.
LEMMA Orders ==
  /\ Len(ResetOrder) \in Nat \ {0} /\ Len(SetOrder) \in Nat \ {0}
  /\ \A i \in 1..Len(ResetOrder) : ResetOrder[i] \in Gauges
  /\ \A i \in 1..Len(SetOrder) : SetOrder[i] \in Gauges
  /\ \A g \in Gauges : \E i \in 1..Len(ResetOrder) : ResetOrder[i] = g
  /\ \A g \in Gauges : \E i \in 1..Len(SetOrder) : SetOrder[i] = g
<1>1. /\ ResetOrder \in Seq(Gauges) /\ SetOrder \in Seq(Gauges)
      /\ ResetOrder # <<>> /\ SetOrder # <<>>
  BY ScrapeAssumption
<1>2. /\ DOMAIN ResetOrder = 1..Len(ResetOrder) /\ DOMAIN SetOrder = 1..Len(SetOrder)
      /\ Len(ResetOrder) \in Nat \ {0} /\ Len(SetOrder) \in Nat \ {0}
  BY <1>1
<1>3. \A g \in Gauges : \E i \in 1..Len(ResetOrder) : ResetOrder[i] = g
  BY <1>2 DEF Gauges
<1>4. \A g \in Gauges : \E i \in 1..Len(SetOrder) : SetOrder[i] = g
  BY <1>2, ScrapeAssumption
<1> QED BY <1>1, <1>2, <1>3, <1>4

\* What the type invariant says of each scrape.
Position(s) ==
  /\ (doing[s] = "reset") => (step[s] < Len(ResetOrder))
  /\ (doing[s] \in {"with", "set"}) => (step[s] < Len(SetOrder))
  /\ (doing[s] = "set") => (child[s] \in Scrapes)

Places == Over \cup {"idle", "collect", "reset", "with", "set", "gather"}

\* A scrape has not begun to count before its first reset.
CountInv == \A s \in Scrapes : doing[s] \in {"idle", "collect"} => step[s] = 0

\* The count starts with the first reset.
LEMMA NextCountInv ==
  ASSUME ScrapeTypeOK, CountInv, [ScrapeNext]_scrapeVars PROVE CountInv'
<1> USE DEF CountInv
<1>1. doing \in [Scrapes -> Places] /\ step \in [Scrapes -> Nat]
  BY DEF ScrapeTypeOK, Places
<1>2. ASSUME NEW s \in Scrapes, Reset(s) \/ With(s) \/ Set(s) \/ Gather(s)
      PROVE  /\ doing'[s] \notin {"idle", "collect"}
             /\ \A t \in Scrapes \ {s} : doing'[t] = doing[t] /\ step'[t] = step[t]
  BY <1>1, <1>2 DEF Reset, With, Set, Gather
<1>3. ASSUME NEW s \in Scrapes, CheckMetricsKey(s) \/ collectMetrics(s) \/ HandleMetrics(s)
      PROVE  /\ doing[s] \in {"idle", "collect"} /\ step' = step
             /\ \A t \in Scrapes \ {s} : doing'[t] = doing[t]
  BY <1>1, <1>3 DEF CheckMetricsKey, collectMetrics, HandleMetrics
<1>4. CASE UNCHANGED scrapeVars
  BY <1>4 DEF scrapeVars
<1> QED BY <1>2, <1>3, <1>4
  DEF ScrapeNext, HandlePrometheusMetrics, updatePrometheusMetrics

\* Every step keeps the types.
LEMMA NextScrapeType ==
  ASSUME ScrapeTypeOK, CountInv, [ScrapeNext]_scrapeVars PROVE ScrapeTypeOK'
<1> USE DEF ScrapeTypeOK
<1> HIDE DEF Gauges
<1>0. Len(ResetOrder) \in Nat \ {0} /\ Len(SetOrder) \in Nat \ {0}
  BY Orders
<1>1. ASSUME NEW s \in Scrapes, CheckMetricsKey(s) PROVE ScrapeTypeOK'
  <2>1. before' \in [Scrapes -> SUBSET Scrapes]
    BY <1>1 DEF CheckMetricsKey
  <2>2. overlap' \in [Scrapes -> BOOLEAN]
    <3>1. CASE overlap' = overlap
      BY <3>1
    <3>2. CASE overlap' = [t \in Scrapes |->
                 \/ overlap[t]
                 \/ t # s /\ UnderWay(t)
                 \/ t = s /\ \E u \in Scrapes : UnderWay(u)]
      <4> DEFINE F(t) == \/ overlap[t]
                         \/ t # s /\ UnderWay(t)
                         \/ t = s /\ \E u \in Scrapes : UnderWay(u)
      <4>1. \A t \in Scrapes : F(t) \in BOOLEAN
        OBVIOUS
      <4>2. overlap' = [t \in Scrapes |-> F(t)]
        BY <3>2
      <4> HIDE DEF F
      <4> QED BY <4>1, <4>2
    <3> QED BY <1>1, <3>1, <3>2, Zenon DEF CheckMetricsKey
  <2>3. doing' \in [Scrapes -> Places] /\ \A t \in Scrapes : Position(t)'
    BY <1>1 DEF CheckMetricsKey, Places, Over, Position
  <2>4. UNCHANGED <<step, label, child, vec, value, asked, shown>>
    BY <1>1 DEF CheckMetricsKey
  <2> QED BY <2>1, <2>2, <2>3, <2>4 DEF Places, Position
<1>2. ASSUME NEW s \in Scrapes, collectMetrics(s) PROVE ScrapeTypeOK'
  <2>1. /\ \E at \in {"error", "reset"} : doing' = [doing EXCEPT ![s] = at]
        /\ label' = label \/ \E l \in Labels : label' = [label EXCEPT ![s] = l]
        /\ step[s] = 0 /\ UNCHANGED <<step, child>>
    BY <1>2 DEF collectMetrics, gpuMetrics, CountInv
  <2>2. doing' \in [Scrapes -> Places] /\ label' \in [Scrapes -> Labels]
    BY <2>1 DEF Places, Over
  <2>3. \A t \in Scrapes : Position(t)'
    BY <1>0, <2>1 DEF Position
  <2> QED BY <1>2, <2>2, <2>3 DEF collectMetrics, Places, Position
<1>3. ASSUME NEW s \in Scrapes, HandleMetrics(s) PROVE ScrapeTypeOK'
  <2>1. doing' \in [Scrapes -> Places] /\ label' \in [Scrapes -> Labels]
    BY <1>3 DEF HandleMetrics, gpuMetrics, Places, Over
  <2>2. \A t \in Scrapes : Position(t)'
    BY <1>3 DEF HandleMetrics, Over, Position
  <2> QED BY <1>3, <2>1, <2>2 DEF HandleMetrics, Places, Position
<1>4. ASSUME NEW s \in Scrapes, Reset(s) PROVE ScrapeTypeOK'
  <2>0. /\ \/ /\ step[s] + 1 < Len(ResetOrder)
              /\ step' = [step EXCEPT ![s] = step[s] + 1] /\ doing' = doing
           \/ step' = [step EXCEPT ![s] = 0] /\ doing' = [doing EXCEPT ![s] = "with"]
        /\ child' = child /\ doing[s] = "reset"
    BY <1>4 DEF Reset
  <2>1. doing' \in [Scrapes -> Places] /\ step' \in [Scrapes -> Nat]
    <3>1. doing \in [Scrapes -> Places] /\ step \in [Scrapes -> Nat] /\ step[s] + 1 \in Nat
      BY DEF Places
    <3>2. "with" \in Places
      BY DEF Places
    <3> HIDE DEF ScrapeTypeOK
    <3> QED BY <2>0, <3>1, <3>2
  <2>2. \A t \in Scrapes : Position(t)'
    <3>1. Position(s)'
      BY <1>0, <2>0 DEF Position
    <3>2. ASSUME NEW t \in Scrapes, t # s PROVE Position(t)'
      BY <2>0, <3>2 DEF Position
    <3> QED BY <3>1, <3>2
  <2>3. vec' \in [Gauges -> [Labels -> Samples]]
    BY <1>4 DEF Reset, Samples
  <2> QED BY <1>4, <2>1, <2>2, <2>3 DEF Reset, Places, Position
<1>5. ASSUME NEW s \in Scrapes, With(s) PROVE ScrapeTypeOK'
  <2>1. doing' \in [Scrapes -> Places]
    BY <1>5 DEF With, Places, Over
  <2> DEFINE g == SetOrder[step[s] + 1]
             c == IF vec[g][label[s]] = Unset THEN s ELSE vec[g][label[s]]
  <2>2. g \in Gauges
    BY <1>0, <1>5, Orders DEF With
  <2>3. c \in Scrapes
    BY <2>2 DEF Samples
  <2>4. /\ child' = [child EXCEPT ![s] = c]
        /\ vec' = [vec EXCEPT ![g][label[s]] = c]
        /\ value' = value \/ value' = [value EXCEPT ![g][s] = Unset]
        /\ doing' = [doing EXCEPT ![s] = "set"]
        /\ UNCHANGED <<step, label, asked, shown, before, overlap>>
        /\ doing[s] = "with"
    BY <1>5 DEF With
  <2> HIDE DEF g, c
  <2>5. child' \in [Scrapes -> Samples] /\ child'[s] \in Scrapes
    BY <2>3, <2>4 DEF Samples
  <2>6. vec' \in [Gauges -> [Labels -> Samples]]
    BY <2>2, <2>3, <2>4 DEF Samples
  <2>7. value' \in [Gauges -> [Scrapes -> Samples]]
    <3>1. CASE value' = value
      BY <3>1
    <3>2. CASE value' = [value EXCEPT ![g][s] = Unset]
      BY <2>2, <3>2 DEF Samples
    <3> QED BY <2>4, <3>1, <3>2
  <2>8. \A t \in Scrapes : Position(t)'
    BY <2>4, <2>5 DEF Position
  <2> QED BY <2>1, <2>4, <2>5, <2>6, <2>7, <2>8 DEF Places, Position
<1>6. ASSUME NEW s \in Scrapes, Set(s) PROVE ScrapeTypeOK'
  <2>1. doing' \in [Scrapes -> Places] /\ step' \in [Scrapes -> Nat]
    BY <1>6 DEF Set, Places, Over
  <2>2. \A t \in Scrapes : Position(t)'
    BY <1>0, <1>6 DEF Set, Position
  <2>3. value' \in [Gauges -> [Scrapes -> Samples]]
    BY <1>6 DEF Set, Samples
  <2> QED BY <1>6, <2>1, <2>2, <2>3 DEF Set, Places, Position
<1>7. ASSUME NEW s \in Scrapes, Gather(s) PROVE ScrapeTypeOK'
  <2>1. PICK g \in Gauges :
          /\ shown' = [shown EXCEPT ![s][g] =
               {<<l, value[g][vec[g][l]]>> : l \in {m \in Labels : vec[g][m] # Unset}}]
          /\ asked' = [asked EXCEPT ![s] = @ \cup {g}]
          /\ doing' = doing \/ doing' = [doing EXCEPT ![s] = "ok"]
    BY <1>7 DEF Gather
  <2>2. asked' \in [Scrapes -> SUBSET Gauges]
    BY <2>1
  <2>3. \A l \in {m \in Labels : vec[g][m] # Unset} : value[g][vec[g][l]] \in Samples
    BY DEF Samples
  <2>4. {<<l, value[g][vec[g][l]]>> : l \in {m \in Labels : vec[g][m] # Unset}}
          \in SUBSET (Labels \X Samples)
    BY <2>3
  <2>5. shown' \in [Scrapes -> [Gauges -> SUBSET (Labels \X Samples)]]
    BY <2>1, <2>4
  <2>6. doing' \in [Scrapes -> Places] /\ \A t \in Scrapes : Position(t)'
    BY <1>7, <2>1 DEF Gather, Places, Over, Position
  <2> QED BY <1>7, <2>2, <2>5, <2>6 DEF Gather, Places, Position
<1>8. CASE UNCHANGED scrapeVars
  BY <1>8 DEF scrapeVars
<1> QED BY <1>1, <1>2, <1>3, <1>4, <1>5, <1>6, <1>7, <1>8
  DEF ScrapeNext, HandlePrometheusMetrics, updatePrometheusMetrics

-----------------------------------------------------------------------------
(* No sample of an earlier scrape.                                         *)

TypeInv == ScrapeTypeOK /\ CountInv

StaleInv == TypeInv /\ HistoryInv /\ FreshInv /\ NoStaleSample

\* The invariant holds before the first scrape.
LEMMA InitStaleInv == ScrapeInit => StaleInv
<1> SUFFICES ASSUME ScrapeInit PROVE StaleInv
  OBVIOUS
<1> USE DEF ScrapeInit
<1> HIDE DEF Gauges
<1>1. ScrapeTypeOK
  BY DEF ScrapeTypeOK, Over, Samples, Labels
<1>2. CountInv /\ HistoryInv /\ FreshInv /\ NoStaleSample
  BY DEF CountInv, HistoryInv, FreshInv, HasReset, NoStaleSample
<1> QED BY <1>1, <1>2 DEF StaleInv, TypeInv

\* A scrape that is over stays so, and only a scrape that begins changes what had
\* ended before it.
LEMMA NextHistoryInv ==
  ASSUME ScrapeTypeOK, HistoryInv, [ScrapeNext]_scrapeVars
  PROVE  /\ HistoryInv'
         /\ \A s \in Scrapes : doing[s] # "idle" => before'[s] = before[s]
<1> HIDE DEF Gauges
<1>0. /\ doing \in [Scrapes -> Places] /\ before \in [Scrapes -> SUBSET Scrapes]
      /\ asked \in [Scrapes -> SUBSET Gauges]
      /\ shown \in [Scrapes -> [Gauges -> SUBSET (Labels \X Samples)]]
  BY DEF ScrapeTypeOK, Places
<1> DEFINE Early == {"idle", "collect", "reset", "with", "set"}
<1>1. ASSUME NEW s \in Scrapes, CheckMetricsKey(s)
      PROVE  /\ HistoryInv'
             /\ \A t \in Scrapes : doing[t] # "idle" => before'[t] = before[t]
  <2>1. /\ doing[s] = "idle" /\ UNCHANGED <<asked, shown>>
        /\ before' = [before EXCEPT ![s] = {t \in Scrapes : doing[t] \in Over}]
        /\ \E at : doing' = [doing EXCEPT ![s] = at]
    BY <1>1, Zenon DEF CheckMetricsKey
  <2>2. \A t \in Scrapes : doing[t] \in Over => doing'[t] = doing[t]
    BY <1>0, <2>1 DEF Over
  <2>3. \A t \in Scrapes : \A u \in before'[t] : u \in Scrapes /\ doing[u] \in Over
    BY <1>0, <2>1 DEF HistoryInv
  <2>4. \A t \in Scrapes : doing'[t] \in Early => doing[t] \in Early
    BY <1>0, <2>1
  <2>5. HistoryInv'
    BY <2>1, <2>2, <2>3, <2>4 DEF HistoryInv
  <2> QED BY <1>0, <2>1, <2>5
<1>2. ASSUME NEW s \in Scrapes, doing[s] \notin Over, before' = before,
             \E at : doing' = [doing EXCEPT ![s] = at],
             \/ doing[s] \in Early /\ UNCHANGED <<asked, shown>>
             \/ doing'[s] \notin Early
                /\ \A t \in Scrapes \ {s} : asked'[t] = asked[t] /\ shown'[t] = shown[t]
      PROVE  HistoryInv'
  <2>1. \A t \in Scrapes : doing[t] \in Over => doing'[t] = doing[t]
    BY <1>0, <1>2
  <2>2. \A t \in Scrapes : \A u \in before'[t] : doing'[u] \in Over
    BY <1>0, <1>2, <2>1 DEF HistoryInv
  <2>3. ASSUME NEW t \in Scrapes, doing'[t] \in Early
        PROVE  asked'[t] = {} /\ shown'[t] = [g \in Gauges |-> {}]
    <3>1. CASE t = s
      BY <1>2, <2>3, <3>1 DEF HistoryInv
    <3>2. CASE t # s
      <4>1. doing'[t] = doing[t] /\ asked'[t] = asked[t] /\ shown'[t] = shown[t]
        BY <1>0, <1>2, <3>2
      <4> QED BY <2>3, <4>1 DEF HistoryInv
    <3> QED BY <3>1, <3>2
  <2> QED BY <2>2, <2>3 DEF HistoryInv
<1>3. ASSUME NEW s \in Scrapes,
             \/ collectMetrics(s) \/ HandleMetrics(s) \/ Reset(s) \/ With(s) \/ Set(s)
      PROVE  HistoryInv' /\ before' = before
  <2>1. /\ doing[s] \in Early /\ before' = before /\ UNCHANGED <<asked, shown>>
        /\ \E at : doing' = [doing EXCEPT ![s] = at]
    <3>1. doing = [doing EXCEPT ![s] = doing[s]]
      BY <1>0
    <3> QED BY <1>3, <3>1 DEF collectMetrics, HandleMetrics, Reset, With, Set
  <2>2. doing[s] \notin Over
    BY <2>1 DEF Over
  <2> QED BY <1>2, <2>1, <2>2
<1>4. ASSUME NEW s \in Scrapes, Gather(s) PROVE HistoryInv' /\ before' = before
  <2>1. /\ doing[s] = "gather" /\ before' = before
        /\ doing' = doing \/ doing' = [doing EXCEPT ![s] = "ok"]
        /\ \A t \in Scrapes \ {s} : asked'[t] = asked[t] /\ shown'[t] = shown[t]
    BY <1>0, <1>4 DEF Gather
  <2>2. (\E at : doing' = [doing EXCEPT ![s] = at]) /\ doing'[s] \notin Early
    <3>1. doing = [doing EXCEPT ![s] = doing[s]]
      BY <1>0
    <3> QED BY <1>0, <2>1, <3>1
  <2>3. doing[s] \notin Over
    BY <2>1 DEF Over
  <2> QED BY <1>2, <2>1, <2>2, <2>3
<1>5. CASE UNCHANGED scrapeVars
  BY <1>5 DEF scrapeVars, HistoryInv
<1> QED BY <1>1, <1>3, <1>4, <1>5
  DEF ScrapeNext, HandlePrometheusMetrics, updatePrometheusMetrics

\* What a vector holds after a reset was put there by scrapes under way.
LEMMA NextFreshInv ==
  ASSUME TypeInv, HistoryInv, FreshInv, [ScrapeNext]_scrapeVars
  PROVE  FreshInv'
<1> HIDE DEF Gauges
<1>0. /\ doing \in [Scrapes -> Places] /\ before \in [Scrapes -> SUBSET Scrapes]
      /\ step \in [Scrapes -> Nat] /\ label \in [Scrapes -> Labels]
      /\ vec \in [Gauges -> [Labels -> Samples]]
      /\ value \in [Gauges -> [Scrapes -> Samples]]
      /\ Unset \notin Scrapes
  BY ScrapeAssumption DEF TypeInv, ScrapeTypeOK, Places
<1>a. \A t \in Scrapes : doing[t] # "idle" => before'[t] = before[t]
  BY NextHistoryInv DEF TypeInv
\* It is enough to look at vectors that were reset before the step.
<1>b. ASSUME \A t \in Scrapes, g \in Gauges : HasReset(t, g)' =>
               \/ vec'[g] = NoChild
               \/ /\ HasReset(t, g)
                  /\ \A l \in Labels : vec'[g][l] # Unset =>
                       \/ /\ vec'[g][l] = vec[g][l]
                          /\ value'[g][vec'[g][l]] = value[g][vec[g][l]]
                       \/ value'[g][vec'[g][l]] = Unset
                       \/ /\ value'[g][vec'[g][l]] \in Scrapes
                          /\ doing[value'[g][vec'[g][l]]] \notin Over
      PROVE  FreshInv'
  <2> SUFFICES ASSUME NEW t \in Scrapes, NEW g \in Gauges, HasReset(t, g)',
                      NEW l \in Labels, vec'[g][l] # Unset
               PROVE  value'[g][vec'[g][l]] \notin before'[t]
    BY DEF FreshInv
  <2>1. vec'[g] # NoChild
    BY DEF NoChild
  <2>2. HasReset(t, g)
    BY <1>b, <2>1
  <2>3. before'[t] = before[t]
    BY <1>a, <2>2 DEF HasReset
  <2>4. \A u \in before[t] : doing[u] \in Over /\ u # Unset
    BY <1>0 DEF HistoryInv
  <2>5. vec[g][l] # Unset => value[g][vec[g][l]] \notin before[t]
    BY <2>2 DEF FreshInv
  <2> QED BY <1>b, <2>1, <2>3, <2>4, <2>5
<1>1. ASSUME NEW s \in Scrapes, CheckMetricsKey(s) \/ collectMetrics(s) \/ HandleMetrics(s)
             \/ Gather(s)
      PROVE  FreshInv'
  <2>1. /\ UNCHANGED <<step, vec, value>>
        /\ \A t \in Scrapes \ {s} : doing'[t] = doing[t]
    BY <1>0, <1>1 DEF CheckMetricsKey, collectMetrics, HandleMetrics, Gather
  <2>2. \/ doing'[s] \in Over \cup {"collect"}
        \/ doing'[s] = "reset" /\ step[s] = 0
        \/ doing[s] = "gather"
    BY <1>0, <1>1 DEF CheckMetricsKey, collectMetrics, HandleMetrics, Gather, TypeInv, CountInv, Over
  <2>3. \A t \in Scrapes, g \in Gauges : HasReset(t, g)' => HasReset(t, g)
    BY <2>1, <2>2 DEF HasReset, Over
  <2> QED BY <1>b, <2>1, <2>3
<1>2. ASSUME NEW s \in Scrapes, Reset(s) PROVE FreshInv'
  <2> DEFINE i == step[s] + 1
  <2>1. /\ doing[s] = "reset" /\ value' = value
        /\ vec' = [vec EXCEPT ![ResetOrder[i]] = NoChild]
        /\ \/ i < Len(ResetOrder) /\ step' = [step EXCEPT ![s] = i] /\ doing' = doing
           \/ /\ ~(i < Len(ResetOrder))
              /\ step' = [step EXCEPT ![s] = 0] /\ doing' = [doing EXCEPT ![s] = "with"]
    BY <1>2 DEF Reset, NoChild
  <2>2. /\ i \in 1..Len(ResetOrder) /\ ResetOrder[i] \in Gauges
        /\ ~(i < Len(ResetOrder)) => i = Len(ResetOrder)
    BY <1>0, <2>1, Orders DEF TypeInv, ScrapeTypeOK
  <2>3. ASSUME NEW g \in Gauges, g # ResetOrder[i], HasReset(s, g)' PROVE HasReset(s, g)
    <3>1. CASE i < Len(ResetOrder)
      BY <1>0, <2>1, <2>3, <3>1 DEF HasReset
    <3>2. CASE i = Len(ResetOrder)
      <4>1. PICK j \in 1..Len(ResetOrder) : ResetOrder[j] = g
        BY Orders
      <4>2. j \in 1..step[s]
        BY <1>0, <2>2, <2>3, <3>2, <4>1
      <4> QED BY <2>1, <4>1, <4>2 DEF HasReset
    <3> QED BY <2>2, <3>1, <3>2
  <2>4. \A t \in Scrapes \ {s} : doing'[t] = doing[t] /\ step'[t] = step[t]
    BY <1>0, <2>1
  <2>5. \A t \in Scrapes \ {s}, g \in Gauges : HasReset(t, g)' => HasReset(t, g)
    BY <2>4 DEF HasReset
  <2>6. /\ vec'[ResetOrder[i]] = NoChild
        /\ \A g \in Gauges : g # ResetOrder[i] => vec'[g] = vec[g]
    BY <1>0, <2>1, <2>2
  <2> HIDE DEF i
  <2> QED BY <1>b, <2>1, <2>3, <2>5, <2>6
<1>3. ASSUME NEW s \in Scrapes, With(s) PROVE FreshInv'
  <2> DEFINE h == SetOrder[step[s] + 1]
             new == vec[h][label[s]] = Unset
             c == IF new THEN s ELSE vec[h][label[s]]
  <2>1. /\ doing[s] = "with" /\ doing' = [doing EXCEPT ![s] = "set"] /\ step' = step
        /\ vec' = [vec EXCEPT ![h][label[s]] = c]
        /\ value' = IF new THEN [value EXCEPT ![h][s] = Unset] ELSE value
    BY <1>3 DEF With
  <2>2. h \in Gauges /\ label[s] \in Labels
    BY <1>0, <2>1, Orders DEF TypeInv, ScrapeTypeOK
  <2>3. \A t \in Scrapes, g \in Gauges : HasReset(t, g)' => HasReset(t, g)
    BY <1>0, <2>1 DEF HasReset
  <2>4. \A g \in Gauges : g # h => vec'[g] = vec[g] /\ value'[g] = value[g]
    BY <1>0, <2>1, <2>2
  <2>5. ASSUME NEW l \in Labels, vec'[h][l] # Unset
        PROVE  \/ vec'[h][l] = vec[h][l] /\ value'[h][vec'[h][l]] = value[h][vec[h][l]]
               \/ value'[h][vec'[h][l]] = Unset
    <3>1. CASE new
      <4>1. vec'[h] = [vec[h] EXCEPT ![label[s]] = s] /\ value'[h] = [value[h] EXCEPT ![s] = Unset]
        BY <1>0, <2>1, <2>2, <3>1
      <4>2. vec[h] \in [Labels -> Samples] /\ value[h] \in [Scrapes -> Samples]
        BY <1>0, <2>2
      <4> HIDE DEF h, new
      <4> QED BY <2>2, <2>5, <4>1, <4>2
    <3>2. CASE ~new
      <4>1. vec' = vec /\ value' = value
        <5>1. vec[h] \in [Labels -> Samples] /\ c = vec[h][label[s]]
          BY <1>0, <2>2, <3>2
        <5>2. [vec[h] EXCEPT ![label[s]] = c] = vec[h]
          BY <5>1
        <5>3. vec' = vec
          BY <1>0, <2>1, <2>2, <5>1, <5>2
        <5> QED BY <2>1, <3>2, <5>3
      <4> QED BY <4>1
    <3> QED BY <3>1, <3>2
  <2> HIDE DEF h, c, new
  <2> QED BY <1>b, <2>3, <2>4, <2>5
<1>4. ASSUME NEW s \in Scrapes, Set(s) PROVE FreshInv'
  <2> DEFINE h == SetOrder[step[s] + 1]
             c == child[s]
  <2>1. /\ doing[s] = "set" /\ vec' = vec
        /\ value' = [value EXCEPT ![h][c] = s]
        /\ \E at \in {"with", "gather"} : doing' = [doing EXCEPT ![s] = at]
        /\ step' = [step EXCEPT ![s] = step[s] + 1]
    BY <1>4 DEF Set
  <2>2. h \in Gauges /\ c \in Scrapes
    BY <1>0, <2>1, Orders DEF TypeInv, ScrapeTypeOK
  <2>3. \A t \in Scrapes, g \in Gauges : HasReset(t, g)' => HasReset(t, g)
    BY <1>0, <2>1 DEF HasReset
  <2>4. \A g \in Gauges : g # h => value'[g] = value[g]
    BY <1>0, <2>1, <2>2
  <2>5. value'[h] = [value[h] EXCEPT ![c] = s] /\ value[h] \in [Scrapes -> Samples]
    BY <1>0, <2>1, <2>2
  <2>6. doing[s] \notin Over
    BY <2>1 DEF Over
  <2>7. \A l \in Labels : vec[h][l] # Unset => vec[h][l] \in Scrapes
    BY <1>0, <2>2 DEF Samples
  <2> HIDE DEF h, c
  <2>8. \A l \in Labels : vec[h][l] # Unset =>
          value'[h][vec[h][l]] = value[h][vec[h][l]] \/ value'[h][vec[h][l]] = s
    BY <2>2, <2>5, <2>7
  <2> QED BY <1>b, <2>1, <2>3, <2>4, <2>6, <2>8
<1>5. CASE UNCHANGED scrapeVars
  BY <1>5 DEF scrapeVars, FreshInv, HasReset
<1> QED BY <1>1, <1>2, <1>3, <1>4, <1>5
  DEF ScrapeNext, HandlePrometheusMetrics, updatePrometheusMetrics

\* What a scrape gathers is fresh, and stays so.
LEMMA NextNoStale ==
  ASSUME StaleInv, [ScrapeNext]_scrapeVars PROVE NoStaleSample'
<1> HIDE DEF Gauges
<1> USE DEF StaleInv
<1>0. /\ doing \in [Scrapes -> Places]
      /\ shown \in [Scrapes -> [Gauges -> SUBSET (Labels \X Samples)]]
  BY DEF TypeInv, ScrapeTypeOK, Places
<1>1. \A t \in Scrapes : doing[t] # "idle" => before'[t] = before[t]
  BY NextHistoryInv DEF TypeInv
<1>2. CASE shown' = shown
  <2> SUFFICES ASSUME NEW t \in Scrapes, NEW g \in Gauges, NEW x \in shown[t][g]
               PROVE  x[2] \notin before'[t]
    BY <1>2 DEF NoStaleSample
  <2>1. doing[t] # "idle"
    BY DEF HistoryInv
  <2> QED BY <1>1, <2>1 DEF NoStaleSample
<1>3. ASSUME NEW s \in Scrapes, Gather(s) PROVE NoStaleSample'
  <2>1. PICK g \in Gauges :
          shown' = [shown EXCEPT ![s][g] =
            {<<l, value[g][vec[g][l]]>> : l \in {m \in Labels : vec[g][m] # Unset}}]
    BY <1>3 DEF Gather
  <2>2. before' = before /\ HasReset(s, g)
    BY <1>3 DEF Gather, HasReset
  <2>3. \A l \in Labels : vec[g][l] # Unset => value[g][vec[g][l]] \notin before[s]
    BY <2>2 DEF FreshInv
  <2> SUFFICES ASSUME NEW t \in Scrapes, NEW h \in Gauges, NEW x \in shown'[t][h]
               PROVE  x[2] \notin before[t]
    BY <2>2 DEF NoStaleSample
  <2>4. CASE t = s /\ h = g
    <3>1. x \in {<<l, value[g][vec[g][l]]>> : l \in {m \in Labels : vec[g][m] # Unset}}
      BY <1>0, <2>1, <2>4
    <3> QED BY <2>3, <2>4, <3>1
  <2>5. CASE ~(t = s /\ h = g)
    <3>1. shown'[t][h] = shown[t][h]
      BY <1>0, <2>1, <2>5
    <3> QED BY <3>1 DEF NoStaleSample
  <2> QED BY <2>4, <2>5
<1> QED BY <1>2, <1>3
  DEF ScrapeNext, HandlePrometheusMetrics, updatePrometheusMetrics, CheckMetricsKey,
      collectMetrics, HandleMetrics, Reset, With, Set, scrapeVars

\* The invariant holds in every state.
THEOREM StaleInductive == ScrapeSpec => []StaleInv
<1>1. StaleInv /\ [ScrapeNext]_scrapeVars => StaleInv'
  BY NextScrapeType, NextCountInv, NextHistoryInv, NextFreshInv, NextNoStale
  DEF StaleInv, TypeInv
<1> QED BY InitStaleInv, <1>1, PTL DEF ScrapeSpec

\* The types of the scrapes' state; a handler never sets a child it did not get.
THEOREM ScrapeTypeCorrect == ScrapeSpec => []ScrapeTypeOK
<1>1. StaleInv => ScrapeTypeOK
  BY DEF StaleInv, TypeInv
<1> QED BY StaleInductive, <1>1, PTL

\* No scrape shows a sample from before it began, whatever other scrapes do to the
\* vectors meanwhile.
THEOREM NoStale == ScrapeSpec => []NoStaleSample
<1>1. StaleInv => NoStaleSample
  BY DEF StaleInv
<1> QED BY StaleInductive, <1>1, PTL

-----------------------------------------------------------------------------
(* Alone with the vectors.                                                 *)

\* No scrape is under way beside one that none has overlapped.
AloneInv ==
  \A s \in Scrapes : ~overlap[s] /\ UnderWay(s) =>
    \A t \in Scrapes \ {s} : ~UnderWay(t)

\* No child of vector g is another scrape's, or under other labels; and the
\* one there is shows the sample of s.
Clean(s, g) == \A l \in Labels : vec[g][l] # Unset => l = label[s] /\ vec[g][l] = s
Exact(s, g) == vec[g][label[s]] = s /\ value[g][s] = s

\* What a scrape that none has overlapped finds in the vectors.
OwnInv(s) ==
  /\ doing[s] = "reset" => \A j \in 1..step[s] : vec[ResetOrder[j]] = NoChild
  /\ doing[s] \in {"with", "set", "gather"} => \A g \in Gauges : Clean(s, g)
  /\ doing[s] \in {"with", "set"} => \A j \in 1..step[s] : Exact(s, SetOrder[j])
  /\ doing[s] = "set" => child[s] = s /\ vec[SetOrder[step[s] + 1]][label[s]] = s
  /\ doing[s] = "gather" => \A g \in Gauges : Exact(s, g)

OwnsInv == \A s \in Scrapes : ~overlap[s] => OwnInv(s)

ExactInv == TypeInv /\ HistoryInv /\ AloneInv /\ OwnsInv /\ AloneIsExact

\* The invariant holds before the first scrape.
LEMMA InitExactInv == ScrapeInit => ExactInv
<1> SUFFICES ASSUME ScrapeInit PROVE ExactInv
  OBVIOUS
<1> HIDE DEF Gauges
<1>1. TypeInv /\ HistoryInv
  BY InitStaleInv DEF StaleInv
<1>2. AloneInv /\ OwnsInv /\ AloneIsExact
  BY DEF ScrapeInit, AloneInv, UnderWay, OwnsInv, OwnInv, AloneIsExact
<1> QED BY <1>1, <1>2 DEF ExactInv

\* Only a scrape that begins can come to run beside others, and it marks them
\* and itself.
LEMMA NextAloneInv ==
  ASSUME TypeInv, AloneInv, [ScrapeNext]_scrapeVars
  PROVE  /\ AloneInv'
         /\ \A s \in Scrapes : ~overlap'[s] => ~overlap[s]
<1>0. /\ doing \in [Scrapes -> Places] /\ overlap \in [Scrapes -> BOOLEAN]
  BY DEF TypeInv, ScrapeTypeOK, Places
<1>1. ASSUME NEW s \in Scrapes, doing[s] = "idle", doing' = [doing EXCEPT ![s] = "collect"],
             overlap' = [t \in Scrapes |->
               \/ overlap[t]
               \/ t # s /\ UnderWay(t)
               \/ t = s /\ \E u \in Scrapes : UnderWay(u)]
      PROVE  AloneInv' /\ \A t \in Scrapes : ~overlap'[t] => ~overlap[t]
  <2>1. \A t \in Scrapes : ~overlap'[t] =>
          ~overlap[t] /\ (t # s => ~UnderWay(t)) /\ (t = s => \A u \in Scrapes : ~UnderWay(u))
    BY <1>1, Zenon
  <2>2. \A t \in Scrapes : t # s => doing'[t] = doing[t]
    BY <1>0, <1>1
  <2>3. \A t \in Scrapes : t # s => (UnderWay(t)' <=> UnderWay(t))
    BY <2>2 DEF UnderWay
  <2> QED BY <2>1, <2>3 DEF AloneInv
<1>2. ASSUME overlap' = overlap, \A t \in Scrapes : UnderWay(t)' => UnderWay(t)
      PROVE  AloneInv' /\ \A t \in Scrapes : ~overlap'[t] => ~overlap[t]
  BY <1>2 DEF AloneInv
<1>3. ASSUME NEW s \in Scrapes, CheckMetricsKey(s)
      PROVE  AloneInv' /\ \A t \in Scrapes : ~overlap'[t] => ~overlap[t]
  <2>1. CASE doing' = [doing EXCEPT ![s] = "unauthorized"] /\ overlap' = overlap
    <3>1. \A t \in Scrapes : UnderWay(t)' => UnderWay(t)
      BY <1>0, <2>1 DEF UnderWay, Over
    <3> QED BY <1>2, <2>1, <3>1
  <2> QED BY <1>1, <1>3, <2>1, Zenon DEF CheckMetricsKey
<1>4. ASSUME NEW s \in Scrapes, collectMetrics(s) \/ HandleMetrics(s) \/ Gather(s)
      PROVE  overlap' = overlap /\ \A t \in Scrapes : UnderWay(t)' => UnderWay(t)
  BY <1>0, <1>4 DEF collectMetrics, HandleMetrics, Gather, UnderWay, Over
<1>5. ASSUME NEW s \in Scrapes, Reset(s) \/ With(s) \/ Set(s)
      PROVE  overlap' = overlap /\ \A t \in Scrapes : UnderWay(t)' => UnderWay(t)
  BY <1>0, <1>5 DEF Reset, With, Set, UnderWay, Over
<1>6. CASE UNCHANGED scrapeVars
  BY <1>2, <1>6 DEF scrapeVars, UnderWay
<1> QED BY <1>2, <1>3, <1>4, <1>5, <1>6
  DEF ScrapeNext, HandlePrometheusMetrics, updatePrometheusMetrics

\* While a scrape is alone nothing but its own steps changes the vectors.
LEMMA NextOwnsInv ==
  ASSUME ExactInv, [ScrapeNext]_scrapeVars PROVE OwnsInv'
<1> HIDE DEF Gauges
<1>0. /\ doing \in [Scrapes -> Places] /\ step \in [Scrapes -> Nat]
      /\ label \in [Scrapes -> Labels] /\ child \in [Scrapes -> Samples]
      /\ vec \in [Gauges -> [Labels -> Samples]]
      /\ value \in [Gauges -> [Scrapes -> Samples]]
      /\ Unset \notin Scrapes
  BY ScrapeAssumption DEF ExactInv, TypeInv, ScrapeTypeOK, Places
<1>a. \A t \in Scrapes : ~overlap'[t] => ~overlap[t]
  BY NextAloneInv DEF ExactInv
\* The scrapes that do not take the step: one that is not under way has nothing
\* to keep, and when one is under way the step leaves the vectors alone.
<1>b. ASSUME NEW s \in Scrapes,
             ~overlap'[s] => OwnInv(s)',
             \A t \in Scrapes \ {s} :
               /\ doing'[t] = doing[t] /\ step'[t] = step[t]
               /\ label'[t] = label[t] /\ child'[t] = child[t],
             UnderWay(s) \/ UNCHANGED <<vec, value>>
      PROVE  OwnsInv'
  <2> SUFFICES ASSUME NEW t \in Scrapes, t # s, ~overlap'[t] PROVE OwnInv(t)'
    BY <1>b DEF OwnsInv
  <2>1. ~overlap[t] /\ OwnInv(t)
    BY <1>a DEF OwnsInv, ExactInv
  <2>2. CASE UnderWay(s)
    <3>1. ~UnderWay(t)
      BY <2>1, <2>2 DEF ExactInv, AloneInv
    <3> QED BY <1>b, <3>1 DEF OwnInv, UnderWay, Over
  <2>3. CASE UNCHANGED <<vec, value>>
    BY <1>b, <2>1, <2>3 DEF OwnInv, Clean, Exact
  <2> QED BY <1>b, <2>2, <2>3
<1>1. ASSUME NEW s \in Scrapes, CheckMetricsKey(s) \/ collectMetrics(s) \/ HandleMetrics(s)
      PROVE  OwnsInv'
  <2>1. /\ UNCHANGED <<step, child, vec, value>>
        /\ \A t \in Scrapes \ {s} : doing'[t] = doing[t] /\ label'[t] = label[t]
    BY <1>0, <1>1 DEF CheckMetricsKey, collectMetrics, HandleMetrics
  <2>2. \/ doing'[s] \in Over \cup {"collect"}
        \/ doing'[s] = "reset" /\ step[s] = 0
    BY <1>0, <1>1 DEF CheckMetricsKey, collectMetrics, HandleMetrics, ExactInv, TypeInv, CountInv, Over
  <2>3. OwnInv(s)'
    BY <2>1, <2>2 DEF OwnInv, Over
  <2> QED BY <1>b, <2>1, <2>3
<1>2. ASSUME NEW s \in Scrapes, Reset(s) PROVE OwnsInv'
  <2> DEFINE i == step[s] + 1
  <2>1. /\ doing[s] = "reset" /\ UNCHANGED <<label, child, value>>
        /\ vec' = [vec EXCEPT ![ResetOrder[i]] = NoChild]
        /\ \/ i < Len(ResetOrder) /\ step' = [step EXCEPT ![s] = i] /\ doing' = doing
           \/ /\ ~(i < Len(ResetOrder))
              /\ step' = [step EXCEPT ![s] = 0] /\ doing' = [doing EXCEPT ![s] = "with"]
    BY <1>2 DEF Reset, NoChild
  <2>2. /\ i \in 1..Len(ResetOrder) /\ ResetOrder[i] \in Gauges
        /\ ~(i < Len(ResetOrder)) => i = Len(ResetOrder)
    BY <1>0, <2>1, Orders DEF ExactInv, TypeInv, ScrapeTypeOK
  <2>3. /\ UnderWay(s)
        /\ \A t \in Scrapes \ {s} : doing'[t] = doing[t] /\ step'[t] = step[t]
    BY <1>0, <2>1 DEF UnderWay, Over
  <2>4. \A g \in Gauges : vec'[g] = vec[g] \/ vec'[g] = NoChild
    BY <1>0, <2>1
  <2>5. ASSUME ~overlap'[s] PROVE OwnInv(s)'
    <3>1. \A j \in 1..step[s] : vec[ResetOrder[j]] = NoChild
      BY <1>a, <2>1, <2>5 DEF ExactInv, OwnsInv, OwnInv
    <3>2. vec'[ResetOrder[i]] = NoChild
      BY <1>0, <2>1, <2>2
    <3>3. \A j \in 1..i : vec'[ResetOrder[j]] = NoChild
      <4> SUFFICES ASSUME NEW j \in 1..i PROVE vec'[ResetOrder[j]] = NoChild
        OBVIOUS
      <4>1. ResetOrder[j] \in Gauges
        BY <2>2, Orders
      <4>2. j = i \/ j \in 1..step[s]
        BY <1>0
      <4> HIDE DEF i
      <4> QED BY <2>4, <3>1, <3>2, <4>1, <4>2
    <3>4. CASE i < Len(ResetOrder)
      <4>1. step'[s] = i /\ doing'[s] = "reset"
        BY <1>0, <2>1, <3>4
      <4> HIDE DEF i
      <4> QED BY <3>3, <4>1 DEF OwnInv
    <3>5. CASE i = Len(ResetOrder)
      <4>1. \A g \in Gauges : vec'[g] = NoChild
        BY <3>3, <3>5, Orders
      <4>2. \A g \in Gauges : Clean(s, g)'
        BY <4>1 DEF Clean, NoChild
      <4>3. step'[s] = 0 /\ doing'[s] = "with"
        BY <1>0, <2>1, <3>5
      <4> QED BY <4>2, <4>3 DEF OwnInv
    <3> QED BY <2>2, <3>4, <3>5
  <2> QED BY <1>b, <2>1, <2>3, <2>5
<1>3. ASSUME NEW s \in Scrapes, With(s) PROVE OwnsInv'
  <2> DEFINE h == SetOrder[step[s] + 1]
             new == vec[h][label[s]] = Unset
             c == IF new THEN s ELSE vec[h][label[s]]
  <2>1. /\ doing[s] = "with" /\ doing' = [doing EXCEPT ![s] = "set"]
        /\ child' = [child EXCEPT ![s] = c]
        /\ vec' = [vec EXCEPT ![h][label[s]] = c]
        /\ value' = IF new THEN [value EXCEPT ![h][s] = Unset] ELSE value
        /\ UNCHANGED <<step, label>>
    BY <1>3 DEF With
  <2>2. /\ h \in Gauges /\ label[s] \in Labels
        /\ \A j \in 1..step[s] : SetOrder[j] \in Gauges
    BY <1>0, <2>1, Orders DEF ExactInv, TypeInv, ScrapeTypeOK
  <2>3. /\ UnderWay(s) /\ doing'[s] = "set"
        /\ \A t \in Scrapes \ {s} : doing'[t] = doing[t] /\ child'[t] = child[t]
    BY <1>0, <2>1 DEF UnderWay, Over
  <2>4. ASSUME ~overlap'[s] PROVE OwnInv(s)'
    <3>1. OwnInv(s)
      BY <1>a, <2>4 DEF ExactInv, OwnsInv
    <3>2. (\A g \in Gauges : Clean(s, g)) /\ (\A j \in 1..step[s] : Exact(s, SetOrder[j]))
      BY <2>1, <3>1 DEF OwnInv
    <3>3. c = s /\ child'[s] = s
      <4>1. c = s
        BY <2>2, <3>2 DEF Clean
      <4> HIDE DEF c
      <4> QED BY <1>0, <2>1, <4>1
    <3>4. /\ vec' = [vec EXCEPT ![h] = [vec[h] EXCEPT ![label[s]] = s]]
          /\ vec[h] \in [Labels -> Samples] /\ value[h] \in [Scrapes -> Samples]
          /\ \A g \in Gauges : value'[g][s] = value[g][s] \/ (g = h /\ new)
      BY <1>0, <2>1, <2>2, <3>3
    <3> HIDE DEF h, c, new
    <3>5. \A g \in Gauges, l \in Labels :
            vec'[g][l] = IF g = h /\ l = label[s] THEN s ELSE vec[g][l]
      BY <1>0, <2>2, <3>4
    <3>6. \A g \in Gauges : Clean(s, g)'
      BY <2>1, <3>2, <3>5 DEF Clean
    <3>7. ASSUME NEW j \in 1..step[s] PROVE Exact(s, SetOrder[j])'
      <4>1. ~(SetOrder[j] = h /\ new)
        BY <1>0, <3>2 DEF Exact, new
      <4> QED BY <2>1, <2>2, <3>2, <3>4, <3>5, <4>1 DEF Exact
    <3>8. vec'[SetOrder[step'[s] + 1]][label'[s]] = s
      BY <2>1, <2>2, <3>5 DEF h
    <3> QED BY <2>1, <2>3, <3>3, <3>6, <3>7, <3>8 DEF OwnInv
  <2> QED BY <1>b, <2>1, <2>3, <2>4
<1>4. ASSUME NEW s \in Scrapes, Set(s) PROVE OwnsInv'
  <2> DEFINE h == SetOrder[step[s] + 1]
             c == child[s]
  <2>1. /\ doing[s] = "set" /\ UNCHANGED <<label, child, vec>>
        /\ value' = [value EXCEPT ![h][c] = s]
        /\ step' = [step EXCEPT ![s] = step[s] + 1]
        /\ doing' = [doing EXCEPT ![s] = IF step[s] + 1 < Len(SetOrder) THEN "with" ELSE "gather"]
    BY <1>4 DEF Set
  <2>2. /\ h \in Gauges
        /\ \A j \in 1..step[s] + 1 : SetOrder[j] \in Gauges
        /\ ~(step[s] + 1 < Len(SetOrder)) => step[s] + 1 = Len(SetOrder)
    BY <1>0, <2>1, Orders DEF ExactInv, TypeInv, ScrapeTypeOK
  <2>3. /\ UnderWay(s) /\ step'[s] = step[s] + 1
        /\ \A t \in Scrapes \ {s} : doing'[t] = doing[t] /\ step'[t] = step[t]
    BY <1>0, <2>1 DEF UnderWay, Over
  <2>4. ASSUME ~overlap'[s] PROVE OwnInv(s)'
    <3>1. OwnInv(s)
      BY <1>a, <2>4 DEF ExactInv, OwnsInv
    <3>2. /\ \A g \in Gauges : Clean(s, g)
          /\ \A j \in 1..step[s] : Exact(s, SetOrder[j])
          /\ c = s /\ vec[h][label[s]] = s
      BY <2>1, <3>1 DEF OwnInv
    <3>3. \A g \in Gauges : value'[g][s] = IF g = h THEN s ELSE value[g][s]
      BY <1>0, <2>1, <2>2, <3>2
    <3>4. \A j \in 1..step[s] + 1 : Exact(s, SetOrder[j])'
      <4> SUFFICES ASSUME NEW j \in 1..step[s] + 1 PROVE Exact(s, SetOrder[j])'
        OBVIOUS
      <4>1. CASE SetOrder[j] = h
        BY <2>1, <2>2, <3>2, <3>3, <4>1 DEF Exact
      <4>2. CASE SetOrder[j] # h
        <5>1. j \in 1..step[s]
          BY <1>0, <4>2
        <5> HIDE DEF h
        <5> QED BY <2>1, <2>2, <3>2, <3>3, <4>2, <5>1 DEF Exact
      <4> QED BY <4>1, <4>2
    <3>5. \A g \in Gauges : Clean(s, g)'
      BY <2>1, <3>2 DEF Clean
    <3>6. CASE step[s] + 1 < Len(SetOrder)
      <4>1. doing'[s] = "with"
        BY <1>0, <2>1, <3>6
      <4> QED BY <2>3, <3>4, <3>5, <4>1 DEF OwnInv
    <3>7. CASE step[s] + 1 = Len(SetOrder)
      <4>1. doing'[s] = "gather"
        BY <1>0, <2>1, <3>7
      <4>2. \A g \in Gauges : Exact(s, g)'
        BY <3>4, <3>7, Orders
      <4> QED BY <3>5, <4>1, <4>2 DEF OwnInv
    <3> QED BY <2>2, <3>6, <3>7
  <2> QED BY <1>b, <2>1, <2>3, <2>4
<1>5. ASSUME NEW s \in Scrapes, Gather(s) PROVE OwnsInv'
  <2>1. /\ UNCHANGED <<step, label, child, vec, value>> /\ doing[s] = "gather"
        /\ doing' = doing \/ doing' = [doing EXCEPT ![s] = "ok"]
    BY <1>5 DEF Gather
  <2>2. /\ doing'[s] \in {"gather", "ok"}
        /\ \A t \in Scrapes \ {s} : doing'[t] = doing[t]
    BY <1>0, <2>1
  <2>3. ~overlap'[s] => OwnInv(s)'
    BY <1>a, <2>1, <2>2 DEF ExactInv, OwnsInv, OwnInv, Clean, Exact
  <2> QED BY <1>b, <2>1, <2>2, <2>3
<1>6. CASE UNCHANGED scrapeVars
  BY <1>6 DEF scrapeVars, ExactInv, OwnsInv, OwnInv, Clean, Exact
<1> QED BY <1>1, <1>2, <1>3, <1>4, <1>5, <1>6
  DEF ScrapeNext, HandlePrometheusMetrics, updatePrometheusMetrics

\* What a scrape has gathered stays what it was, and what it gathers now is its
\* own when it is alone.
LEMMA NextAloneIsExact ==
  ASSUME ExactInv, [ScrapeNext]_scrapeVars PROVE AloneIsExact'
<1> HIDE DEF Gauges
<1>0. /\ label \in [Scrapes -> Labels] /\ asked \in [Scrapes -> SUBSET Gauges]
      /\ shown \in [Scrapes -> [Gauges -> SUBSET (Labels \X Samples)]]
      /\ Unset \notin Scrapes
  BY ScrapeAssumption DEF ExactInv, TypeInv, ScrapeTypeOK
<1>a. \A t \in Scrapes : ~overlap'[t] => ~overlap[t]
  BY NextAloneInv DEF ExactInv
<1>1. ASSUME UNCHANGED <<asked, shown>>,
             \A t \in Scrapes : label'[t] = label[t] \/ asked[t] = {}
      PROVE  AloneIsExact'
  BY <1>1, <1>a DEF ExactInv, AloneIsExact
<1>2. ASSUME NEW s \in Scrapes, collectMetrics(s) \/ HandleMetrics(s)
      PROVE  AloneIsExact'
  <2>1. /\ UNCHANGED <<asked, shown>> /\ doing[s] \in {"idle", "collect"}
        /\ \A t \in Scrapes : label'[t] = label[t] \/ t = s
    BY <1>0, <1>2 DEF collectMetrics, HandleMetrics
  <2>2. asked[s] = {}
    BY <2>1 DEF ExactInv, HistoryInv
  <2> QED BY <1>1, <2>1, <2>2
<1>3. ASSUME NEW s \in Scrapes, CheckMetricsKey(s) \/ Reset(s) \/ With(s) \/ Set(s)
      PROVE  AloneIsExact'
  BY <1>1, <1>3 DEF CheckMetricsKey, Reset, With, Set
<1>4. ASSUME NEW s \in Scrapes, Gather(s) PROVE AloneIsExact'
  <2>1. /\ doing[s] = "gather" /\ UNCHANGED <<label, vec, value, overlap>>
    BY <1>4 DEF Gather
  <2>2. PICK g \in Gauges :
          /\ shown' = [shown EXCEPT ![s][g] =
               {<<l, value[g][vec[g][l]]>> : l \in {m \in Labels : vec[g][m] # Unset}}]
          /\ asked' = [asked EXCEPT ![s] = @ \cup {g}]
    BY <1>4 DEF Gather
  <2>3. ASSUME ~overlap[s]
        PROVE  {<<l, value[g][vec[g][l]]>> : l \in {m \in Labels : vec[g][m] # Unset}} =
                 {<<label[s], s>>}
    <3>1. Clean(s, g) /\ Exact(s, g)
      BY <2>1, <2>3 DEF ExactInv, OwnsInv, OwnInv
    <3>2. {m \in Labels : vec[g][m] # Unset} = {label[s]}
      BY <1>0, <3>1 DEF Clean, Exact
    <3>3. value[g][vec[g][label[s]]] = s
      BY <3>1 DEF Exact
    <3> QED BY <3>2, <3>3
  <2> SUFFICES ASSUME NEW t \in Scrapes, ~overlap[t], NEW h \in asked'[t]
               PROVE  shown'[t][h] = {<<label[t], t>>}
    BY <2>1 DEF AloneIsExact
  <2>4. CASE t = s /\ h = g
    <3>1. shown'[s][g] = {<<l, value[g][vec[g][l]]>> : l \in {m \in Labels : vec[g][m] # Unset}}
      BY <1>0, <2>2
    <3> QED BY <2>3, <2>4, <3>1
  <2>5. CASE ~(t = s /\ h = g)
    <3>1. h \in asked[t] /\ h \in Gauges
      BY <1>0, <2>2, <2>5
    <3>2. shown'[t][h] = shown[t][h]
      BY <1>0, <2>2, <2>5, <3>1
    <3> QED BY <3>1, <3>2 DEF ExactInv, AloneIsExact
  <2> QED BY <2>4, <2>5
<1>5. CASE UNCHANGED scrapeVars
  BY <1>1, <1>5 DEF scrapeVars
<1> QED BY <1>2, <1>3, <1>4, <1>5
  DEF ScrapeNext, HandlePrometheusMetrics, updatePrometheusMetrics

\* A scrape that no other overlapped shows exactly its own sample in every
\* vector, whatever earlier scrapes left there.
THEOREM AloneExact == ScrapeSpec => []AloneIsExact
<1>1. ExactInv /\ [ScrapeNext]_scrapeVars => ExactInv'
  BY NextScrapeType, NextCountInv, NextHistoryInv, NextAloneInv, NextOwnsInv, NextAloneIsExact
  DEF ExactInv, TypeInv
<1>2. ExactInv => AloneIsExact
  BY DEF ExactInv
<1> QED BY InitExactInv, <1>1, <1>2, PTL DEF ScrapeSpec

=============================================================================
