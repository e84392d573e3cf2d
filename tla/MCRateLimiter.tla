--------------------------- MODULE MCRateLimiter ---------------------------
(***************************************************************************)
(* TLC instance of RateLimiterHistory: MaxChecks bounds the history.        *)
(***************************************************************************)
EXTENDS RateLimiterHistory

CONSTANT MaxChecks      \* bound on the number of checks (model checking)

MCNext ==
    \/ LoggedAdvance
    \/ Len(log) < MaxChecks /\ \E p \in Peer : \E now \in Stamps : LoggedCheck(p, now)

MCSpec == LoggedInit /\ [][MCNext]_<<vars, log>>
=============================================================================
