----------------------------- MODULE MCSessions -----------------------------
(* An instance of Sessions for TLC: a player who connects again. *)
EXTENDS Sessions, TLC

CONSTANTS alice

MCUserOf == [c \in Conn |-> alice]
MCAccess == Conn \cup Call \cup Match

\* The sockets are interchangeable, as they have one player.
MCSymmetry == Permutations(Conn)
=============================================================================
