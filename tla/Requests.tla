------------------------------ MODULE Requests ------------------------------
(* What the modules of the HTTP API share. *)
EXTENDS Integers, FiniteSets

CONSTANTS Req, \* requests to the service, in all its servers
          Nil \* no request, no name, no key

ASSUME RequestsAssumption == Nil \notin Req /\ IsFiniteSet(Req)
=============================================================================
