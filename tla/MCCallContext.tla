--------------------------- MODULE MCCallContext ---------------------------
(***************************************************************************)
(* CallContext with two adapters, two protocols, two results, up to two    *)
(* CPIs per adapter call and up to three instructions per transaction: an  *)
(* answer of one instruction is there to be mistaken for that of the next, *)
(* and the answer of an adapter further down for that of the one above.    *)
(***************************************************************************)
EXTENDS CallContext

CONSTANTS a1, a2, q1, q2, v1, v2

MCAdapters == {a1, a2}
MCProtocols == {q1, q2}
MCValues == {v1, v2}
=============================================================================
