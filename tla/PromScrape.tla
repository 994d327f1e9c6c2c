----------------------------- MODULE PromScrape -----------------------------
(***************************************************************************)
(* The metrics endpoints (metrics/prometheus.go, metrics/metrics.go):      *)
(* concurrent scrapes, each in a goroutine of its own, which share the     *)
(* process-wide gauge vectors.  A scrape collects a sample, resets the     *)
(* vectors one by one, sets them one by one and then gathers them.         *)
(*                                                                         *)
(* The sample a scrape collected is named by the scrape, and of a label    *)
(* combination only gpu_type is kept, the one label that can change: a     *)
(* failing NVML call makes it "none".                                      *)
(***************************************************************************)
EXTENDS Naturals, Sequences, FiniteSets

CONSTANTS
  Scrapes,       \* requests to the two metrics endpoints
  ResetOrder,    \* the gauge vectors, as updatePrometheusMetrics resets them
  SetOrder,      \* and as it sets them
  Unset          \* no child, and the value of a child not set yet

Gauges == {ResetOrder[i] : i \in DOMAIN ResetOrder}
Labels == {"gpu", "none"}

ASSUME ScrapeAssumption ==
  /\ Unset \notin Scrapes
  /\ ResetOrder \in Seq(Gauges) /\ SetOrder \in Seq(Gauges)
  /\ Gauges = {SetOrder[i] : i \in DOMAIN SetOrder}
  /\ ResetOrder # <<>> /\ SetOrder # <<>>

VARIABLES
  doing,     \* where the handler of each scrape is
  step,      \* how many vectors it has reset, or set
  label,     \* the labels of its sample
  child,     \* the child With() returned to it
  vec,       \* the children of each vector by label, named by their creator
  value,     \* the sample each child shows
  asked,     \* the vectors a scrape has gathered
  shown,     \* what a scrape gathered: per vector, pairs of label and sample
  before,    \* history: scrapes that had ended when this one began
  overlap    \* history: another scrape ran at the same time

scrapeVars == <<doing, step, label, child, vec, value, asked, shown, before,
                overlap>>

Over   == {"ok", "unauthorized", "error"}
UnderWay(s) == doing[s] \notin Over \cup {"idle"}

ScrapeInit ==
  /\ doing = [s \in Scrapes |-> "idle"]
  /\ step = [s \in Scrapes |-> 0]
  /\ label = [s \in Scrapes |-> "none"]
  /\ child = [s \in Scrapes |-> Unset]
  /\ vec = [g \in Gauges |-> [l \in Labels |-> Unset]]
  /\ value = [g \in Gauges |-> [s \in Scrapes |-> Unset]]
  /\ asked = [s \in Scrapes |-> {}]
  /\ shown = [s \in Scrapes |-> [g \in Gauges |-> {}]]
  /\ before = [s \in Scrapes |-> {}]
  /\ overlap = [s \in Scrapes |-> FALSE]

-----------------------------------------------------------------------------
\* A scrape arrives and its key is compared with the configured one.
CheckMetricsKey(s) ==
  /\ doing[s] = "idle"
  /\ before' = [before EXCEPT ![s] = {t \in Scrapes : doing[t] \in Over}]
  /\ \/ doing' = [doing EXCEPT ![s] = "unauthorized"] /\ UNCHANGED overlap
     \/ /\ doing' = [doing EXCEPT ![s] = "collect"]
        /\ overlap' = [t \in Scrapes |->
             \/ overlap[t]
             \/ t # s /\ UnderWay(t)
             \/ t = s /\ \E u \in Scrapes : UnderWay(u)]
  /\ UNCHANGED <<step, label, child, vec, value, asked, shown>>

\* gpuMetrics: the name of the GPU, or none when there is no GPU or any NVML
\* call fails, for whichever device; it becomes the label gpu_type.
gpuMetrics == Labels

\* collectMetrics: the memory's or the CPU's statistics may fail, which ends
\* the request; the GPU's may be missing, which does not.
collectMetrics(s) ==
  /\ doing[s] = "collect"
  /\ \/ doing' = [doing EXCEPT ![s] = "error"] /\ UNCHANGED label
     \/ /\ doing' = [doing EXCEPT ![s] = "reset"]
        /\ \E l \in gpuMetrics : label' = [label EXCEPT ![s] = l]
  /\ UNCHANGED <<step, child, vec, value, asked, shown, before, overlap>>

\* The JSON endpoint answers with a sample of its own and shares nothing.
HandleMetrics(s) ==
  /\ doing[s] = "idle"
  /\ \E at \in Over : doing' = [doing EXCEPT ![s] = at]
  /\ \E l \in gpuMetrics : label' = [label EXCEPT ![s] = l]
  /\ UNCHANGED <<step, child, vec, value, asked, shown, before, overlap>>

\* A faulty variant: the last vector is not reset.
Reset_AllButLast(s) ==
  /\ doing[s] = "reset"
  /\ LET i == step[s] + 1 IN
       IF i < Len(ResetOrder)
         THEN /\ vec' = [vec EXCEPT ![ResetOrder[i]] = [l \in Labels |-> Unset]]
              /\ step' = [step EXCEPT ![s] = i] /\ UNCHANGED doing
         ELSE /\ step' = [step EXCEPT ![s] = 0]
              /\ doing' = [doing EXCEPT ![s] = "with"] /\ UNCHANGED vec
  /\ UNCHANGED <<label, child, value, asked, shown, before, overlap>>

\* GaugeVec.Reset() of the next vector: its children are gone, though a scrape
\* may still hold one of them.
Reset(s) ==
  /\ doing[s] = "reset"
  /\ LET i == step[s] + 1 IN
       /\ vec' = [vec EXCEPT ![ResetOrder[i]] = [l \in Labels |-> Unset]]
       /\ IF i < Len(ResetOrder)
            THEN step' = [step EXCEPT ![s] = i] /\ UNCHANGED doing
            ELSE step' = [step EXCEPT ![s] = 0] /\ doing' = [doing EXCEPT ![s] = "with"]
  /\ UNCHANGED <<label, child, value, asked, shown, before, overlap>>

\* A faulty variant: a lookup that does not create the child.
With_LookupOnly(s) ==
  /\ doing[s] = "with"
  /\ child' = [child EXCEPT ![s] = vec[SetOrder[step[s] + 1]][label[s]]]
  /\ doing' = [doing EXCEPT ![s] = "set"]
  /\ UNCHANGED <<step, label, vec, value, asked, shown, before, overlap>>

\* GaugeVec.With(labels): the child with these labels, a new one if need be.
With(s) ==
  /\ doing[s] = "with"
  /\ LET g == SetOrder[step[s] + 1]
         c == IF vec[g][label[s]] = Unset THEN s ELSE vec[g][label[s]]
     IN /\ child' = [child EXCEPT ![s] = c]
        /\ vec' = [vec EXCEPT ![g][label[s]] = c]
        /\ value' = IF vec[g][label[s]] = Unset
                      THEN [value EXCEPT ![g][s] = Unset] ELSE value
  /\ doing' = [doing EXCEPT ![s] = "set"]
  /\ UNCHANGED <<step, label, asked, shown, before, overlap>>

\* A faulty variant: the last vector is forgotten.
Set_AllButLast(s) ==
  /\ doing[s] = "set"
  /\ LET i == step[s] + 1 IN
       /\ value' = [value EXCEPT ![SetOrder[i]][child[s]] = s]
       /\ step' = [step EXCEPT ![s] = i]
       /\ doing' = [doing EXCEPT ![s] = IF i + 1 < Len(SetOrder) THEN "with" ELSE "gather"]
  /\ UNCHANGED <<label, child, vec, asked, shown, before, overlap>>

\* Gauge.Set(value), of a GPU gauge 0 when there is none.
Set(s) ==
  /\ doing[s] = "set"
  /\ LET i == step[s] + 1 IN
       /\ value' = [value EXCEPT ![SetOrder[i]][child[s]] = s]
       /\ step' = [step EXCEPT ![s] = i]
       /\ doing' = [doing EXCEPT ![s] = IF i < Len(SetOrder) THEN "with" ELSE "gather"]
  /\ UNCHANGED <<label, child, vec, asked, shown, before, overlap>>

\* The registry's Gather asks the vectors in any order, each of which answers
\* under its own lock.  The answer ends when all have been asked.  (That the
\* value of a child is read a little after the list of children is left out.)
Gather(s) ==
  /\ doing[s] = "gather"
  /\ \E g \in Gauges \ asked[s] :
       /\ shown' = [shown EXCEPT ![s][g] =
            {<<l, value[g][vec[g][l]]>> : l \in {m \in Labels : vec[g][m] # Unset}}]
       /\ asked' = [asked EXCEPT ![s] = @ \cup {g}]
       /\ doing' = IF asked'[s] = Gauges THEN [doing EXCEPT ![s] = "ok"] ELSE doing
  /\ UNCHANGED <<step, label, child, vec, value, before, overlap>>

updatePrometheusMetrics(s) == Reset(s) \/ With(s) \/ Set(s)

HandlePrometheusMetrics(s) ==
  \/ CheckMetricsKey(s)
  \/ collectMetrics(s)
  \/ updatePrometheusMetrics(s)
  \/ Gather(s)

ScrapeNext ==
  \E s \in Scrapes : HandlePrometheusMetrics(s) \/ HandleMetrics(s)

ScrapeSpec == ScrapeInit /\ [][ScrapeNext]_scrapeVars

-----------------------------------------------------------------------------
Samples == Scrapes \cup {Unset}

\* Types.
ScrapeTypeOK ==
  /\ doing \in [Scrapes -> Over \cup {"idle", "collect", "reset", "with", "set", "gather"}]
  /\ step \in [Scrapes -> Nat]
  /\ \A s \in Scrapes :
       /\ (doing[s] = "reset") => (step[s] < Len(ResetOrder))
       /\ (doing[s] \in {"with", "set"}) => (step[s] < Len(SetOrder))
       /\ (doing[s] = "set") => (child[s] \in Scrapes)
  /\ label \in [Scrapes -> Labels]
  /\ child \in [Scrapes -> Samples]
  /\ vec \in [Gauges -> [Labels -> Samples]]
  /\ value \in [Gauges -> [Scrapes -> Samples]]
  /\ shown \in [Scrapes -> [Gauges -> SUBSET (Labels \X Samples)]]
  /\ asked \in [Scrapes -> SUBSET Gauges]
  /\ before \in [Scrapes -> SUBSET Scrapes]
  /\ overlap \in [Scrapes -> BOOLEAN]

\* However scrapes interleave, none shows a sample collected by a scrape that
\* had ended before it began: its own Reset calls removed every child that
\* could still hold one, whatever labels the earlier scrapes used.
NoStaleSample ==
  \A s \in Scrapes, g \in Gauges :
    \A x \in shown[s][g] : x[2] \notin before[s]

\* A scrape that no other overlapped shows in every vector exactly its own
\* sample under its own labels, no matter what earlier scrapes left behind.
AloneIsExact ==
  \A s \in Scrapes : ~overlap[s] =>
    \A g \in asked[s] : shown[s][g] = {<<label[s], s>>}

=============================================================================
