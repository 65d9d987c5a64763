---------------------------- MODULE MCLeaderboard ----------------------------
EXTENDS Leaderboard

\* Smaller figures with the sign and the inequality of 25 and -15.
MCLoseScore == -2
=============================================================================
