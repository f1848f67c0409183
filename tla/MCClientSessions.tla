-------------------------- MODULE MCClientSessions --------------------------
(* ClientSessions for TLC: the callers are interchangeable.                 *)
EXTENDS ClientSessions, TLC

Symmetry == Permutations(Callers)
=============================================================================
