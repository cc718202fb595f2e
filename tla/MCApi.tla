------------------------------- MODULE MCApi -------------------------------
(* Two keys, each on a domain of its own.                                   *)
EXTENDS Api, TLC
CONSTANTS k1, k2, d1, d2
OneKey == k1 :> d1
TwoKeys == k1 :> d1 @@ k2 :> d2
=============================================================================
