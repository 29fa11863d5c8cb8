-------------------------- MODULE MCBackgroundJobs --------------------------
(* Small instances of BackgroundJobs.                                       *)
EXTENDS BackgroundJobs, TLC

CONSTANTS j1, j2, w1, s1, key

\* Two requests for the same key.
SameKey      == j1 :> key @@ j2 :> key
RankHighLow  == j1 :> 0 @@ j2 :> 3
TwoAttempts  == j1 :> 2 @@ j2 :> 1
Leases       == j1 :> 1 @@ j2 :> 1
=============================================================================
