------------------------------ MODULE Sessions ------------------------------
(***************************************************************************)
(* Sessions of the admin UI (internal/admin/admin.go): a map of tokens to  *)
(* expiry times in memory, behind a mutex.  login adds an entry, authed    *)
(* looks one up, or removes it when it has expired, and logout removes it  *)
(* in a second critical section after authed.  Requests overlap.           *)
(***************************************************************************)
EXTENDS Integers

CONSTANTS
  Tokens,     \* random tokens, never drawn twice
  Browsers,   \* requests that may be open at the same time
  Lifetime,   \* of a session, seven days
  MaxClock, MaxVisits   \* bounds: of time, and of requests

SessionsAssumption == Lifetime \in Nat /\ MaxClock \in Nat /\ MaxVisits \in Nat

VARIABLES
  sessions,  \* expiry of each token in the map; Absent
  clock,
  visit,     \* the request of each browser
  visits,
  began,     \* history: when each token was handed out; Absent
  out        \* history: tokens logged out for good, or lost in a restart

vars == <<sessions, clock, visit, visits, began, out>>

Absent == -1
Closed == [phase |-> "closed"]

Init ==
  /\ sessions = [t \in Tokens |-> Absent] /\ began = [t \in Tokens |-> Absent]
  /\ clock = 0 /\ visits = 0 /\ out = {}
  /\ visit = [b \in Browsers |-> Closed]

Over(t) == clock > began[t] + Lifetime \/ t \in out

Login(t) ==
  /\ began[t] = Absent
  /\ began' = [began EXCEPT ![t] = clock]
  /\ sessions' = [sessions EXCEPT ![t] = clock + Lifetime]
  /\ UNCHANGED <<clock, visit, visits, out>>

\* A request arrives with the cookie of a session, whatever became of it.
Arrive(b, t, op) ==
  /\ began[t] # Absent /\ visit[b] = Closed /\ visits < MaxVisits /\ visits' = visits + 1
  /\ visit' = [visit EXCEPT ![b] = [phase |-> "auth", token |-> t, op |-> op, late |-> Over(t)]]
  /\ UNCHANGED <<sessions, clock, began, out>>

Live(t) == sessions[t] # Absent /\ clock <= sessions[t]

Authed(b) ==
  /\ visit[b].phase = "auth"
  /\ LET t == visit[b].token IN
     IF Live(t)
     THEN visit' = [visit EXCEPT ![b].phase = "passed"] /\ UNCHANGED sessions
     ELSE /\ visit' = [visit EXCEPT ![b].phase = "refused"]
          /\ sessions' = [sessions EXCEPT ![t] = Absent]
  /\ UNCHANGED <<clock, visits, began, out>>

LogoutOfCookie(b) ==
  /\ visit[b].phase = "passed" /\ visit[b].op = "logout"
  /\ visit' = [visit EXCEPT ![b] = Closed]
  /\ out' = out \cup {visit[b].token}
  /\ UNCHANGED <<sessions, clock, visits, began>>
Logout(b) ==
  /\ visit[b].phase = "passed" /\ visit[b].op = "logout"
  /\ sessions' = [sessions EXCEPT ![visit[b].token] = Absent]
  /\ visit' = [visit EXCEPT ![b] = Closed]
  /\ out' = out \cup {visit[b].token}
  /\ UNCHANGED <<clock, visits, began>>

\* Any other handler runs and answers, or the login page was the answer.
Answered(b) ==
  /\ visit[b].phase = "refused" \/ (visit[b].phase = "passed" /\ visit[b].op = "page")
  /\ visit' = [visit EXCEPT ![b] = Closed]
  /\ UNCHANGED <<sessions, clock, visits, began, out>>

Restart ==
  /\ sessions' = [t \in Tokens |-> Absent]
  /\ visit' = [b \in Browsers |-> Closed]
  /\ out' = {t \in Tokens : began[t] # Absent}
  /\ UNCHANGED <<clock, visits, began>>

TimePasses == clock < MaxClock /\ clock' = clock + 1 /\ UNCHANGED <<sessions, visit, visits, began, out>>

Next ==
  \/ \E t \in Tokens : Login(t)
  \/ \E b \in Browsers, t \in Tokens, op \in {"page", "logout"} : Arrive(b, t, op)
  \/ \E b \in Browsers : Authed(b) \/ Logout(b) \/ Answered(b)
  \/ Restart \/ TimePasses

Spec == Init /\ [][Next]_vars

-----------------------------------------------------------------------------
(* Properties.                                                              *)

\* No handler serves a request that came after its session had ended, by a
\* logout that was answered, by age or by a restart; one that overlaps with the
\* end may still be served.  And nobody is sent to the login page whose session
\* goes on, unless a logout of it is under way.
EndedSessionsStayEnded ==
  \A b \in Browsers :
    /\ visit[b].phase = "passed" => ~visit[b].late
    /\ visit[b].phase = "refused" => Over(visit[b].token)
=============================================================================
