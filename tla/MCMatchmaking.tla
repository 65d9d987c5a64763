---------------------------- MODULE MCMatchmaking ----------------------------
(* Instances of Matchmaking for TLC. *)
EXTENDS Matchmaking, TLC

CONSTANTS t1, m1, m2

\* Two players out of range of each other until one of them has waited.
MCRatingApart == 1 :> 10 @@ 2 :> 13
=============================================================================
