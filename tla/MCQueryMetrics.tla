--------------------------- MODULE MCQueryMetrics ---------------------------
(* Instances of QueryMetrics for TLC: a fast, a middling, a slow query.    *)
EXTENDS QueryMetrics

CONSTANTS q1, q2

MCBounds == <<1, 4>>
MCRank == {<<1, 2>>, <<99, 100>>}
=============================================================================
