------------------------------- MODULE Sessions -------------------------------
(***************************************************************************)
(* The sessions of auth: login, refresh, logout, and the authentication     *)
(* every other request begins with. A call is an API request; each of its    *)
(* statements is an action. A token stands for the hash it is stored as.     *)
(***************************************************************************)
EXTENDS Integers, FiniteSets

CONSTANTS
  Users,     \* with one session each, known by its user
  Calls,     \* goroutines of API requests
  MaxTokens, \* bound: pairs of tokens of a session
  Refreshers \* bound: the users whose clients refresh their tokens

ASSUME SessionAssumption == MaxTokens \in Nat \ {0} /\ Refreshers \subseteq Users

VARIABLES
  session,  \* user_sessions: the valid pair of tokens, and whether it is revoked or old
  spent,    \* history, per session: the refresh tokens that were answered with new ones
  call      \* where each request is, and what it has read

sessionVars == <<session, spent>>

\* token 0: no such row; every new token is the next number. expired: both dates are
\* over (that of the access token alone is a request that is not made).
Session == [token : 0 .. MaxTokens, revoked : BOOLEAN, expired : BOOLEAN]
NoSession == [token |-> 0, revoked |-> FALSE, expired |-> FALSE]

\* u: the session, then its principal; m: the member at hand; role: to be written;
\* current: as GetByID has read it.
Roles == {"owner", "admin", "member"}
Call == [op : {"idle", "refresh", "logout", "create", "update", "delete"},
         at : {"idle", "rotate", "act", "get", "write"},
         u : Users, token : 0 .. MaxTokens, m : Users, role : Roles,
         current : Roles \cup {"none"}]
AnyUser == CHOOSE u \in Users : TRUE
Idle == [op |-> "idle", at |-> "idle", u |-> AnyUser, token |-> 0, m |-> AnyUser,
         role |-> "member", current |-> "none"]

SessionTypeOK ==
  /\ session \in [Users -> Session]
  /\ spent \in [Users -> SUBSET (1 .. MaxTokens)]
  /\ call \in [Calls -> Call]

SessionInit ==
  /\ session = [u \in Users |-> NoSession]
  /\ spent = [u \in Users |-> {}]
  /\ call = [c \in Calls |-> Idle]

At(c, at) == call[c].at = at
Begin(c, start) == call[c].op = "idle" /\ call' = [call EXCEPT ![c] = start]
End(c) == call' = [call EXCEPT ![c] = Idle]

CreateSession(u) == session' = [session EXCEPT ![u].token = 1]

\* After an upsert of the user.
Login(u) ==
  /\ session[u].token = 0
  /\ CreateSession(u)
  /\ UNCHANGED <<spent, call>>

\* Time passes: the access token is good for minutes, the refresh token for weeks.
Expire(u) ==
  /\ session[u].token # 0 /\ ~session[u].expired
  /\ session' = [session EXCEPT ![u].expired = TRUE]
  /\ UNCHANGED <<spent, call>>

\* Refresh, with a token the client was given once: the row of its hash, if any.
Refresh(c, u) ==
  /\ u \in Refreshers
  /\ session[u].token # 0
  /\ ~session[u].revoked /\ ~session[u].expired
  /\ Begin(c, [Idle EXCEPT !.op = "refresh", !.at = "rotate", !.u = u,
                         !.token = session[u].token])
  /\ UNCHANGED sessionVars

\* The new pair and its dates, for the token that was presented.
Rotate(c) ==
  LET u == call[c].u IN
  /\ session[u].token < MaxTokens
  /\ session' = [session EXCEPT ![u].token = @ + 1, ![u].expired = FALSE]
  /\ spent' = [spent EXCEPT ![u] = @ \cup {call[c].token}]
  /\ End(c)

\* A mutated UPDATE without the hash of the token in its WHERE.
RotateSessionAny(c) ==
  /\ At(c, "rotate")
  /\ ~session[call[c].u].revoked
  /\ Rotate(c)

\* One UPDATE; no row is an error for the client.
RotateSession(c) ==
  /\ At(c, "rotate")
  /\ LET s == session[call[c].u] IN
       IF ~s.revoked /\ s.token = call[c].token
         THEN Rotate(c)
         ELSE End(c) /\ UNCHANGED sessionVars

\* Authenticate: the session of the access token is read, and its last use written.
Authenticate(c, start) ==
  LET s == session[start.u] IN
  /\ s.token # 0 /\ ~s.revoked /\ ~s.expired
  /\ Begin(c, [start EXCEPT !.at = "act"])
  /\ UNCHANGED sessionVars

Logout(c, u) == Authenticate(c, [Idle EXCEPT !.op = "logout", !.u = u])

\* A second logout finds no row.
RevokeSession(c) ==
  /\ call[c].op = "logout" /\ At(c, "act")
  /\ session' = [session EXCEPT ![call[c].u].revoked = TRUE]
  /\ End(c)
  /\ UNCHANGED spent

\* The request is over: its client is gone, or a statement failed.
CallEnds(c) ==
  /\ ~At(c, "idle")
  /\ End(c)
  /\ UNCHANGED sessionVars

SessionNext ==
  \/ \E u \in Users : Login(u) \/ Expire(u)
  \/ \E c \in Calls :
       \/ RotateSession(c) \/ RevokeSession(c) \/ CallEnds(c)
       \/ \E u \in Users : Refresh(c, u) \/ Logout(c, u)

SessionSpec == SessionInit /\ [][SessionNext]_<<session, spent, call>>
-----------------------------------------------------------------------------
\* auth/repository.go:194: "two concurrent refreshes racing on the same
\* not-yet-rotated token can't both succeed", nor does one that races a logout:
\* sessions are those of SessionTokens.
Promise == INSTANCE SessionTokens WITH
  Sessions <- Users,
  Tokens <- 1 .. MaxTokens,
  live <- [u \in Users |-> session[u].token],
  over <- {u \in Users : session[u].revoked}

ImplementsSessionTokens == Promise!Spec
=============================================================================
