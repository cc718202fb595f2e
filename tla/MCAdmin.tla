------------------------------ MODULE MCAdmin ------------------------------
(* Two presets of the period chips: one day, which is the default, and all.  *)
(* Two addresses of which the text of one begins with that of the other.     *)
EXTENDS Admin, TLC
TwoRanges == "1d" :> 1 @@ "all" :> 0
TwoAddresses ==
  "203.0.113.1" :> {"203.0.113.1"} @@ "203.0.113.10" :> {"203.0.113.10", "203.0.113.1"}
=============================================================================
