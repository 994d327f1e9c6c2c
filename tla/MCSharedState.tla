--------------------------- MODULE MCSharedState ---------------------------
(***************************************************************************)
(* What concurrent HTTP handlers of the shim share: the map of rate        *)
(* limiters, the gauge vectors of the metrics and the cached ACPI archive. *)
(* None of the three touches another, so that each behaviour is one of one *)
(* of them, and the others stay in an initial state.                       *)
(***************************************************************************)
EXTENDS RateLimiter, PromScrape, AcpiCache, TLC

CONSTANTS r1, r2, r3, r4, k1, k2

\* The handlers; those of the scrapes and of the ACPI requests are symmetric.
MCHandlers == {r1, r2, r3}
MCCallers  == MCHandlers \cup {r4}
MCKeys     == {k1, k2}
Symmetry   == Permutations(MCHandlers)

\* Two of the six gauge vectors: the code resets them in one order and sets them
\* in the other.
MCResetOrder == <<"gpu_util", "cpu_mem">>
MCSetOrder   == <<"cpu_mem", "gpu_util">>

VARIABLE part

sharedVars == <<part, limiterVars, scrapeVars, acpiVars>>

SharedInit ==
  /\ part \in {"limiter", "scrape", "acpi"}
  /\ (part # "acpi") => (force = [r \in Requests |-> FALSE])
  /\ LimiterInit /\ ScrapeInit /\ AcpiInit

SharedNext ==
  /\ UNCHANGED part
  /\ \/ part = "limiter" /\ LimiterNext /\ UNCHANGED <<scrapeVars, acpiVars>>
     \/ part = "scrape"  /\ ScrapeNext  /\ UNCHANGED <<limiterVars, acpiVars>>
     \/ part = "acpi"    /\ AcpiNext    /\ UNCHANGED <<limiterVars, scrapeVars>>

SharedSpec == SharedInit /\ [][SharedNext]_sharedVars

=============================================================================
