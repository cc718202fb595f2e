---------------------------- MODULE MCService ----------------------------
(* Two keys on domains of their own; four hosts, one more than Send tries,  *)
(* two of them equally good.                                                *)
EXTENDS Service, TLC
CONSTANTS k1, k2, d1, d2, h1, h2, h3, h4
TwoKeys == k1 :> d1 @@ k2 :> d2
FourPrefs == h1 :> 10 @@ h2 :> 10 @@ h3 :> 20 @@ h4 :> 30
=============================================================================
