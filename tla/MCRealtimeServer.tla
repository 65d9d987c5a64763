-------------------------- MODULE MCRealtimeServer --------------------------
EXTENDS RealtimeServer

CONSTANTS a1, a2, b1, alice, bob

\* Alice may reconnect, Bob has one socket.
MCUserOf == [c \in Conn |-> IF c = b1 THEN bob ELSE alice]

\* The state Init leads to when Bob's socket connects before all else, by
\* Connect, CreateSession and AttachHandlers.  What a late connection meets is
\* left to Alice's two sockets.
BobConnected ==
  /\ cpc = [c \in Conn |-> IF c = b1 THEN "ready" ELSE "none"]
  /\ sock = [c \in Conn |-> IF c = b1 THEN "open" ELSE "closed"]
  /\ sessions = [u \in User |-> IF u = bob THEN b1 ELSE None]
  /\ roomOf = [c \in Conn |-> None]
  /\ dpc = [c \in Conn |-> "none"]
  /\ mpc = [r \in Room |-> "none"]
  /\ duo = [r \in Room |-> <<>>]
  /\ rooms = {}
  /\ players = [r \in Room |-> {}]
  /\ game = [r \in Room |-> None]
  /\ decisive = [r \in Room |-> None]
  /\ row = [r \in Room |-> "none"]
  /\ epc = [x \in Ender |-> "none"]
  /\ eroom = [x \in Ender |-> None]
  /\ passed = [x \in Ender |-> 0]
  /\ recorded = [r \in Room |-> 0]
  /\ failures = 0

MCLiveSpec == BobConnected /\ [][Next]_vars /\ Fairness
=============================================================================
