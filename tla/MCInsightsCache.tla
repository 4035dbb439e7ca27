-------------------------- MODULE MCInsightsCache --------------------------
(* Two keys, both of them refreshed in the background. *)
EXTENDS InsightsCache

CONSTANTS k1, k2

BothDefault == <<k1, k2>>
=============================================================================
