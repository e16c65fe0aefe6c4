--------------------------- MODULE MCAccounting ----------------------------
(* The two things that happen to every byte of a user, for TLC: it is      *)
(* throttled and it is billed.  A behaviour is one of the ledger, with one *)
(* or the other kind of panel client, or one of the rate limiter.          *)
EXTENDS MCTrafficLedger, RateLimiter

CONSTANTS k1, k2

VARIABLE about

\* The ledger of a node with PPanelClient is the one of this run's constants;
\* this is the ledger with any other panel client, on the same state.
Strict == INSTANCE TrafficLedger WITH FallbackAcks <- FALSE

AccountingInit == about \in {"strict", "ppanel", "rate"} /\ Init /\ RateInit

AccountingNext ==
    /\ \/ about = "strict" /\ Strict!Next /\ UNCHANGED rateVars
       \/ about = "ppanel" /\ Next /\ UNCHANGED rateVars
       \/ about = "rate" /\ RateNext /\ UNCHANGED vars
    /\ UNCHANGED about

EitherReports(r) ==
    \/ about = "strict" /\ Strict!Reports(r)
    \/ about = "ppanel" /\ Reports(r)

\* None of these actions is enabled in a part that is still as Init left it.
AccountingSpec ==
    /\ AccountingInit /\ [][AccountingNext]_<<vars, rateVars, about>>
    /\ \A r \in Runner : WF_vars(EitherReports(r)) /\ SavesAndStops(r)
    /\ TasksPolled

\* Pending traffic of a runner that keeps running is counted by the panel in
\* the end, however many reports fail, when report_traffic tells a failed post
\* from a good one, as every client but PPanelClient does.
PendingIsCounted == about # "ppanel" => PendingIsCredited
=============================================================================
