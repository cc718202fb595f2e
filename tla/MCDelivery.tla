----------------------------- MODULE MCDelivery -----------------------------
(* Values for the constants of Delivery.  One unit of time stands for about *)
(* a quarter of an hour where the real windows are compared (Send cap 30m,  *)
(* stale window 45m), and the schedule is cut to its first entries.         *)
EXTENDS Delivery, TLC

OneDomain == [x \in Addrs |-> CHOOSE y \in Addrs : TRUE]
OwnDomain == [x \in Addrs |-> x]
NoRetry == <<>>
OneRetry == <<1>>
TwoRetries == <<1, 2>>

\* Emails and processes are interchangeable: no action or property tells them
\* apart but by their state.  Only runs without liveness use it.
Interchangeable == Permutations(Emails) \cup Permutations(Procs)
=============================================================================
