------------------------------ MODULE MCServers -----------------------------
(* Migrations, Heartbeat and Dashboard for TLC: servers that start and then   *)
(* serve Alice, who connects twice, and Bob.  The three share no variable.    *)
(* Heartbeat and Dashboard move once all servers have started without a       *)
(* fault, each only while the others rest, so that the states add up.         *)
EXTENDS Migrations, Heartbeat, Dashboard

CONSTANTS a1, a2, b1, alice, bob

MCUserOf == [c \in Conn |-> IF c = b1 THEN bob ELSE alice]

Started == faults = 0 /\ \A p \in Process : pc[p] = "serve"

MCInit == Init /\ InitHeartbeat /\ InitDashboard

MCNext ==
  \/ /\ Next /\ InitHeartbeat /\ InitDashboard
     /\ UNCHANGED <<heartbeatVars, dashboardVars>>
  \/ /\ HeartbeatNext /\ Started /\ InitDashboard
     /\ UNCHANGED <<vars, dashboardVars>>
  \/ /\ DashboardNext /\ Started /\ InitHeartbeat
     /\ UNCHANGED <<vars, heartbeatVars>>

\* Neither asks for anything where the other moves: no step of Fairness is
\* enabled in Started, and none of HeartbeatFairness in InitHeartbeat.
MCSpec ==
  /\ MCInit /\ [][MCNext]_<<vars, heartbeatVars, dashboardVars>>
  /\ Fairness /\ HeartbeatFairness
=============================================================================
