----------------------------- MODULE MCRegistry -----------------------------
(* Small instances of AlgorithmRegistry for TLC: one default algorithm, one *)
(* name without.                                                            *)
EXTENDS AlgorithmRegistry

DefaultHandlers == "HS256" :> "hmac"
=============================================================================
