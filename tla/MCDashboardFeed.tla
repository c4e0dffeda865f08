--------------------------- MODULE MCDashboardFeed ---------------------------
(* One page, two metric windows, a worker that is stopped and started.     *)
EXTENDS DashboardFeedProps
CONSTANTS w15m, w24h
=============================================================================
