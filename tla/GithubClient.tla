------------------------------ MODULE GithubClient ------------------------------
(***************************************************************************)
(* The calls of running syncs to GitHub: each takes an installation's token  *)
(* from the cache (githubapp), is attempted again while GitHub answers with  *)
(* what passes (githubclient), and after a listing waits when little is left *)
(* of the hour's quota (syncjob maybeThrottleGitHub).                        *)
(***************************************************************************)
EXTENDS Integers, FiniteSetsExt

CONSTANTS
  Callers,          \* syncs of repositories of one installation
  MaxRetries, InitialBackoff, MaxBackoff,
  MinRemaining,     \* minRateLimitRemaining
  Quota, Window,    \* GitHub's: calls allowed in a window
  TokenLife, Margin, \* of a token, and what must be left of it when it is taken
  MaxClock          \* bound

ASSUME GithubClientAssumption ==
  /\ {MaxRetries, MinRemaining, MaxClock, Margin} \subseteq Nat
  /\ {InitialBackoff, MaxBackoff, Quota, Window} \subseteq Nat \ {0} /\ TokenLife \in Nat
  /\ IsFiniteSet(Callers)

\* Arithmetic that the provers do not know.
ASSUME DoublingAssumption == \A n \in 0 .. MaxRetries : 2^n \in Nat

VARIABLES
  clock,
  quota,      \* GitHub's count for the installation, external
  tokenCache, \* when the cached token expires, 0 for none
  call,       \* of each caller
  refusals    \* history: calls GitHub refused, "exhausted" or "expired"

clientVars == <<clock, quota, tokenCache, call, refusals>>

NoCall == [at |-> "next", listing |-> TRUE, attempt |-> 0, token |-> 0, taken |-> 0,
           wake |-> 0, until |-> 0]

ClientInit ==
  /\ clock = 1 /\ tokenCache = 0 /\ refusals = {}
  /\ quota = [left |-> Quota, reset |-> 1 + Window]
  /\ call = [c \in Callers |-> NoCall]

\* BackoffDuration doubles, up to the longest.
BackoffDuration(attempt) == Min({InitialBackoff * 2^attempt, MaxBackoff})

\* A mutated delay that passes over Retry-After.
RetryDelayReset(retryAfter, reset, fallback) == IF reset > clock THEN reset - clock ELSE fallback

\* Retry-After, else what is left until the reset that a header names, else the backoff: a
\* failure that has nothing to do with the quota waits for its reset too. Headers that
\* are missing are 0.
RetryDelay(retryAfter, reset, fallback) ==
  IF retryAfter > 0 THEN retryAfter ELSE IF reset > clock THEN reset - clock ELSE fallback

-----------------------------------------------------------------------------

\* maybeThrottleGitHub, by the headers of the last page.
Throttled(remaining) == MinRemaining > 0 /\ remaining <= MinRemaining

\* A mutated cache that gives out a token until it expires.
CachedUntilExpired == tokenCache > clock

\* cachedInstallationToken: soon expired is expired.
CachedInstallationToken == tokenCache - clock > Margin

\* clientForRepository: a client of its own for the call, with the token of that moment.
\* Between two listings, which are throttled, comes at most the detail of one pull request.
CreateInstallationToken(c) ==
  /\ call[c].at = "next"
  /\ tokenCache' = IF CachedInstallationToken THEN tokenCache ELSE clock + TokenLife
  /\ \E listing \in IF call[c].listing THEN BOOLEAN ELSE {TRUE} :
       call' = [call EXCEPT ![c] = [NoCall EXCEPT !.at = "send", !.listing = listing,
                                      !.token = tokenCache', !.taken = clock]]
  /\ UNCHANGED <<clock, quota, refusals>>

Ends(c) == call' = [call EXCEPT ![c] = [NoCall EXCEPT !.at = "end"]]
Sleeps(c, for, until) ==
  call' = [call EXCEPT ![c].at = "sleep", ![c].wake = clock + for, ![c].until = until]

\* A failure that passes: the last attempt's is the call's.
RetryOrEnd(c, delay, until) ==
  IF call[c].attempt < MaxRetries THEN Sleeps(c, delay, until) ELSE Ends(c)

\* do, one attempt. GitHub counts it when it gets it.
Attempt(c) ==
  LET spent == IF clock >= quota.reset THEN [left |-> Quota - 1, reset |-> clock + Window]
               ELSE [quota EXCEPT !.left = Max({0, @ - 1})]
      exhausted == clock < quota.reset /\ quota.left = 0
      backoff == BackoffDuration(call[c].attempt)
  IN
  /\ call[c].at = "send"
  /\ \/ /\ exhausted /\ call[c].token > clock
        /\ quota' = spent /\ refusals' = refusals \cup {"exhausted"}
        /\ RetryOrEnd(c, RetryDelay(0, spent.reset, backoff), spent.reset)
     \/ \* 401: not attempted again, whatever is left of the retries
        /\ call[c].token <= clock
        /\ quota' = quota /\ refusals' = refusals \cup {"expired"} /\ Ends(c)
     \/ /\ ~exhausted /\ call[c].token > clock /\ UNCHANGED refusals
        /\ quota' = spent
        /\ \/ \* 2xx, then maybeThrottleGitHub
              IF call[c].listing /\ Throttled(spent.left)
              THEN call' = [call EXCEPT ![c].at = "throttled", ![c].wake = spent.reset,
                                        ![c].until = spent.reset]
              ELSE call' = [call EXCEPT ![c].at = "next"]
           \/ \* 429, 5xx and a secondary limit, with or without the headers
              \E after \in {0, 2}, reset \in {0, spent.reset} :
                RetryOrEnd(c, RetryDelay(after, reset, backoff), clock + after)
     \/ \* no answer: retried but for a timeout, and counted or not
        /\ quota' \in {quota, spent} /\ UNCHANGED refusals
        /\ RetryOrEnd(c, backoff, clock) \/ Ends(c)
  /\ UNCHANGED <<clock, tokenCache>>

\* The next attempt has the call's token.
Wake(c) ==
  /\ call[c].at \in {"sleep", "throttled"} /\ clock >= call[c].wake
  /\ call' = IF call[c].at = "sleep" THEN [call EXCEPT ![c].at = "send", ![c].attempt = @ + 1]
             ELSE [call EXCEPT ![c].at = "next"]
  /\ UNCHANGED <<clock, quota, tokenCache, refusals>>

Tick ==
  /\ clock < MaxClock /\ clock' = clock + 1
  /\ UNCHANGED <<quota, tokenCache, call, refusals>>

ClientNext ==
  \/ Tick
  \/ \E c \in Callers : CreateInstallationToken(c) \/ Attempt(c) \/ Wake(c)

-----------------------------------------------------------------------------

\* Syncs that leave the last of the quota alone never run out of it, though they do not
\* know of each other, nor is the detail of a pull request throttled, nor a retry: what
\* they leave is enough when it is all that one listing and one detail of each of the
\* others may still take, when there is that much in a window, and when none that failed
\* is started again before the reset. And no call is sent before the time GitHub named.
QuotaSpared ==
  /\ LET most == 2 * (MaxRetries + 1) * Cardinality(Callers)
     IN MinRemaining >= most /\ Quota >= most => "exhausted" \notin refusals
  /\ \A c \in Callers : call[c].at = "send" => clock >= call[c].until

\* A token is good when the call is sent, and stays so for retries within the margin.
\* Only a call that slept longer, until the reset of the quota say, may come back with a
\* token that has expired, and fails for it.
TokenOutlivesCall ==
  TokenLife > Margin =>
    \A c \in Callers : call[c].at = "send" /\ clock - call[c].taken <= Margin => call[c].token > clock
=============================================================================
