---------------------------- MODULE MCJWKSClient ----------------------------
(* Small instances of JWKSClient for TLC.                                   *)
EXTENDS JWKSClient, TLC

CONSTANTS k1, k2

Doc(shape, keys) == [shape |-> shape, keys |-> keys]

(* Two generations of the endpoint's keys.                                  *)
RotatingDocs == {Doc("set", {k1}), Doc("set", {k2})}

(* Every way a document can be unfit, and two that are not.                 *)
UnfitDocs ==
    {Doc("set", {k1}), Doc("set", {k1, k2}), Doc("set", {}),
     Doc("unusable", {}), Doc("notobject", {}), Doc("null", {})}

(* The same key in every document: only the version tells them apart.       *)
SteadyDocs == {Doc("set", {k1})}

(* The documents treat the kids alike, and so does the client.              *)
RotatingSymmetry == Permutations(Threads) \cup Permutations({k1, k2})
=============================================================================
