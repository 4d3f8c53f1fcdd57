-------------------------- MODULE MCRateLimitGuard --------------------------
(* RateLimitGuard on one or two lanes.  Level 1 allows one running lane    *)
(* fewer than there are, so that a breach sheds a lane.                    *)
EXTENDS RateLimitGuard

OneBelow == [l \in 0..MaxLevel |-> IF l = 0 THEN Cardinality(Lanes) ELSE Cardinality(Lanes) - 1]

=============================================================================
