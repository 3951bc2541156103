------------------------------- MODULE RateLimiter -------------------------------
(***************************************************************************)
(* The API's rate limit (httpapi/middleware): a window for each address,     *)
(* opened by the first request after the one before it. The middleware runs  *)
(* before the one that finds out who asks, so that nobody has a window of    *)
(* his own: users behind one address share that of the address. A request    *)
(* reads the clock before it takes the lock.                                 *)
(***************************************************************************)
EXTENDS Integers, FiniteSetsExt

CONSTANTS
  Addresses, Limit, LimitWindow,
  Askers,   \* the goroutines of requests
  MaxTime, MaxAsked \* bounds

ASSUME RateLimiterAssumption == Limit \in Nat /\ LimitWindow \in Nat /\ {MaxTime, MaxAsked} \subseteq Nat

VARIABLES
  time,
  asking,  \* what the requests that wait for the lock have read
  entries, \* of addresses, not of all
  passed,  \* history: the requests let through, with the window that counted them
  refused, \* history: the requests that were not
  windows  \* history: how many windows each address has had

limiterVars == <<time, asking, entries, passed, refused, windows>>

LimiterInit ==
  /\ time = 0 /\ asking = <<>> /\ entries = <<>> /\ passed = {} /\ refused = {}
  /\ windows = [a \in Addresses |-> 0]

\* A mutated removal of the entries that are not old.
PruneNew(es, now) == [a \in {b \in DOMAIN es : now > es[b].resetAt + LimitWindow} |-> es[a]]

\* Entries whose window ended a window ago.
Prune(es, now) == [a \in {b \in DOMAIN es : now <= es[b].resetAt + LimitWindow} |-> es[a]]

\* What was let through of an address from one time until before another.
Through(a, from, to) == {p \in passed : p.by = a /\ from <= p.at /\ p.at < to}

\* Preflight requests, health checks and webhooks do not come here. Bound: the requests.
Asked == Cardinality(passed) + Cardinality(refused) + Cardinality(DOMAIN asking)
ReadClock(g, a) ==
  /\ g \notin DOMAIN asking /\ Asked < MaxAsked
  /\ asking' = [h \in DOMAIN asking \cup {g} |-> IF h = g THEN [by |-> a, now |-> time] ELSE asking[h]]
  /\ UNCHANGED <<time, entries, passed, refused, windows>>

Pass(a, now, window, until, nth) ==
  /\ passed' = passed \cup {[by |-> a, at |-> time, late |-> now < time, window |-> window,
                             until |-> until, nth |-> nth]}
  /\ UNCHANGED refused

\* One request of an address lets its entry count, in the window it has or the next.
Count(es, a, now, window, entry) ==
  /\ entries' = [b \in DOMAIN es \cup {a} |-> IF b = a THEN entry ELSE es[b]]
  /\ windows' = [windows EXCEPT ![a] = window]
  /\ Pass(a, now, window, entry.resetAt, entry.count)

\* Allow, under the lock.
Allow(g) ==
  LET a == asking[g].by
      now == asking[g].now
      es == Prune(entries, now)
      open == a \in DOMAIN es /\ now < es[a].resetAt
  IN
  /\ g \in DOMAIN asking
  /\ asking' = [h \in DOMAIN asking \ {g} |-> asking[h]]
  /\ IF Limit = 0 \/ LimitWindow = 0
       THEN Pass(a, now, 0, time, Cardinality(passed) + 1) /\ UNCHANGED <<entries, windows>>
     ELSE IF ~open
       THEN Count(es, a, now, windows[a] + 1, [count |-> 1, resetAt |-> now + LimitWindow])
     ELSE IF es[a].count >= Limit
       THEN /\ entries' = es /\ UNCHANGED <<passed, windows>>
            /\ refused' = refused \cup {[by |-> a, at |-> time, late |-> now < time,
                                         retry |-> es[a].resetAt]}
     ELSE Count(es, a, now, windows[a], [count |-> es[a].count + 1, resetAt |-> es[a].resetAt])
  /\ UNCHANGED time

Passes ==
  /\ time < MaxTime /\ time' = time + 1
  /\ UNCHANGED <<asking, entries, passed, refused, windows>>

LimiterNext ==
  \/ Passes
  \/ \E g \in Askers : Allow(g) \/ \E a \in Addresses : ReadClock(g, a)

-----------------------------------------------------------------------------

\* However requests are spread, no address is let through more than twice the limit in
\* any time as long as a window, the ends of two of them, and none is refused that was not
\* let through as often as the limit within a window before, by itself: no other
\* address, nor the removal of old entries, costs it any. What a refusal says of when to
\* try again is less than a window away. Not so are the requests that waited for the lock
\* from one time to another, and came to it out of order; nor do they change this for others.
WindowLimit ==
  Limit > 0 /\ LimitWindow > 0 =>
    /\ \A a \in Addresses, from \in 0 .. MaxTime :
         Cardinality({p \in Through(a, from, from + LimitWindow) : ~p.late}) <= 2 * Limit
    /\ \A r \in refused : ~r.late =>
         /\ r.at < r.retry /\ r.retry <= r.at + LimitWindow
         /\ Cardinality(Through(r.by, r.at - LimitWindow + 1, r.at + 1)) >= Limit
=============================================================================
