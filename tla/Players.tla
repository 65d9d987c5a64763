------------------------------ MODULE Players ------------------------------
(***************************************************************************)
(* The players and the sockets that their clients open, which Presence,    *)
(* Sessions, Heartbeat and Dashboard have in common.                       *)
(***************************************************************************)
EXTENDS Integers, FiniteSets

CONSTANTS User,   \* players
          Conn,   \* sockets that clients open
          UserOf, \* the player whose token each socket carries
          None    \* no socket

ASSUME UserOfAssumption == UserOf \in [Conn -> User]
ASSUME NoneAssumption == None \notin Conn
ASSUME UsersAssumption == IsFiniteSet(User)
ASSUME SocketsAssumption == IsFiniteSet(Conn)
=============================================================================
