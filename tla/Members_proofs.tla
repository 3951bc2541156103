---------------------------- MODULE Members_proofs ----------------------------
(***************************************************************************)
(* Proofs, for every set of users, requests and tokens, of what the run of   *)
(* Members checks: its types, that an owner stays, and that its sessions are *)
(* those of SessionTokens.                                                   *)
(***************************************************************************)
EXTENDS Members, FiniteSetTheorems, TLAPS

-----------------------------------------------------------------------------
(* The inductive invariant, part by part.                                    *)

\* A refresh that is under way presents a token, and a request that was authenticated
\* has a session.
RequestHasToken ==
  \A c \in Calls :
    /\ call[c].at = "rotate" => call[c].token # 0
    /\ call[c].at = "act" => session[call[c].u].token # 0

\* What no step of the sessions does is take a token away.
TokensGrow == \A u \in Users : session'[u].token >= session[u].token

\* The tokens of a session that were exchanged are older than its valid one.
SpentBefore == \A u \in Users : \A t \in spent[u] : t < session[u].token

IInv == TypeOK /\ RequestHasToken /\ SpentBefore /\ OwnerStays

-----------------------------------------------------------------------------
(* What the helpers of the actions do.                                       *)

LEMMA IdleType == AnyUser \in Users /\ Idle \in Call
  BY MemberAssumption, SessionAssumption DEF AnyUser, Idle, Call, Roles

LEMMA BeginKeeps ==
  ASSUME TypeOK, RequestHasToken, NEW c \in Calls, NEW start \in Call, Begin(c, start),
         start.at = "rotate" => start.token # 0,
         start.at = "act" => session[start.u].token # 0, session' = session
  PROVE  call' \in [Calls -> Call] /\ RequestHasToken'
  BY DEF TypeOK, SessionTypeOK, Begin, RequestHasToken

LEMMA EndKeeps ==
  ASSUME TypeOK, RequestHasToken, NEW c \in Calls, End(c), TokensGrow, session' \in [Users -> Session]
  PROVE  call' \in [Calls -> Call] /\ RequestHasToken'
  <1>1. call' \in [Calls -> Call] /\ call'[c].at = "idle" /\ \A d \in Calls \ {c} : call'[d] = call[d]
    BY IdleType DEF TypeOK, SessionTypeOK, End, Idle
  <1>2. \A u \in Users : session[u].token # 0 => session'[u].token # 0
    BY SessionAssumption DEF TokensGrow, TypeOK, SessionTypeOK, Session
  <1>3. \A d \in Calls : call[d].u \in Users
    BY DEF TypeOK, SessionTypeOK, Call
  <1>4. QED
    BY <1>1, <1>2, <1>3 DEF RequestHasToken

LEMMA SessionsStay == session' = session /\ SessionTypeOK => TokensGrow /\ session' \in [Users -> Session]
  BY DEF TokensGrow, SessionTypeOK, Session

LEMMA AuthenticateKeeps ==
  ASSUME TypeOK, RequestHasToken, NEW c \in Calls, NEW start \in Call, Authenticate(c, start)
  PROVE  call' \in [Calls -> Call] /\ RequestHasToken' /\ UNCHANGED sessionVars
  <1>1. [start EXCEPT !.at = "act"] \in Call /\ [start EXCEPT !.at = "act"].at = "act"
    BY DEF Call
  <1>2. QED
    BY <1>1, BeginKeeps DEF Authenticate, sessionVars, Call

LEMMA RotateKeeps ==
  ASSUME TypeOK, RequestHasToken, SpentBefore, NEW c \in Calls,
         At(c, "rotate"), session[call[c].u].token = call[c].token, Rotate(c)
  PROVE  SessionTypeOK' /\ RequestHasToken' /\ SpentBefore'
  <1> DEFINE u == call[c].u
  <1>2. u \in Users /\ call[c].token \in 1 .. MaxTokens /\ session[u] \in Session
    BY SessionAssumption DEF TypeOK, SessionTypeOK, Call, RequestHasToken, At
  <1>3. session' \in [Users -> Session] /\ session'[u].token = session[u].token + 1
        /\ \A v \in Users \ {u} : session'[v] = session[v]
    <2>1. session' = [session EXCEPT ![u].token = @ + 1, ![u].expired = FALSE] /\ session \in [Users -> Session]
          /\ session[u].token < MaxTokens
      BY DEF Rotate, TypeOK, SessionTypeOK
    <2>2. session[u].token \in 0 .. MaxTokens /\ MaxTokens \in Nat
      BY <1>2, SessionAssumption DEF Session
    <2>3. session[u].token + 1 \in 0 .. MaxTokens
      BY <2>1, <2>2
    <2>4. [session[u] EXCEPT !.token = @ + 1, !.expired = FALSE] \in Session
      BY <1>2, <2>3 DEF Session
    <2>5. QED
      BY <1>2, <2>1, <2>4 DEF Session
  <1>1. call' \in [Calls -> Call] /\ RequestHasToken'
    <2>1. TokensGrow
      BY <1>2, <1>3 DEF TokensGrow, TypeOK, SessionTypeOK, Session
    <2>2. QED
      BY <2>1, <1>3, EndKeeps DEF Rotate
  <1>4. spent' \in [Users -> SUBSET (1 .. MaxTokens)] /\ spent'[u] = spent[u] \cup {call[c].token}
        /\ \A v \in Users \ {u} : spent'[v] = spent[v]
    BY <1>2 DEF Rotate, TypeOK, SessionTypeOK
  <1>5. SpentBefore'
    BY <1>2, <1>3, <1>4 DEF SpentBefore, TypeOK, SessionTypeOK, Session
  <1>6. QED
    BY <1>1, <1>3, <1>4, <1>5 DEF SessionTypeOK

-----------------------------------------------------------------------------
(* The steps of sessions, which leave the members alone.                     *)

LEMMA SessionStep ==
  ASSUME TypeOK, RequestHasToken, SpentBefore, SessionNext
  PROVE  SessionTypeOK' /\ RequestHasToken' /\ SpentBefore'
  <1> USE DEF TypeOK, SessionTypeOK
  <1>1. ASSUME NEW u \in Users, Login(u) PROVE SessionTypeOK' /\ RequestHasToken' /\ SpentBefore'
    <2>1. session' \in [Users -> Session] /\ \A v \in Users : session'[v].token >= session[v].token
      BY <1>1, SessionAssumption DEF Login, CreateSession, Session
    <2>2. QED
      BY <1>1, <2>1 DEF Login, RequestHasToken, SpentBefore, Session, Call
  <1>2. ASSUME NEW u \in Users, Expire(u) PROVE SessionTypeOK' /\ RequestHasToken' /\ SpentBefore'
    <2>1. session' \in [Users -> Session] /\ \A v \in Users : session'[v].token = session[v].token
      BY <1>2 DEF Expire, Session
    <2>2. QED
      BY <1>2, <2>1 DEF Expire, RequestHasToken, SpentBefore, Call
  <1>3. ASSUME NEW c \in Calls, RotateSession(c)
        PROVE SessionTypeOK' /\ RequestHasToken' /\ SpentBefore'
    <2>1. CASE session[call[c].u].token = call[c].token /\ Rotate(c)
      BY <1>3, <2>1, RotateKeeps DEF RotateSession
    <2>2. CASE End(c) /\ UNCHANGED sessionVars
      BY <2>2, EndKeeps, SessionsStay DEF sessionVars, SpentBefore
    <2>3. QED
      BY <1>3, <2>1, <2>2 DEF RotateSession
  <1>4. ASSUME NEW c \in Calls, RevokeSession(c)
        PROVE SessionTypeOK' /\ RequestHasToken' /\ SpentBefore'
    <2>1. session' \in [Users -> Session] /\ \A v \in Users : session'[v].token = session[v].token
      <3>1. call[c].u \in Users /\ session[call[c].u] \in Session
        BY DEF Call
      <3>2. QED
        BY <1>4, <3>1 DEF RevokeSession, Session
    <2>2. call' \in [Calls -> Call] /\ RequestHasToken' /\ spent' = spent
      <3>1. TokensGrow
        BY <2>1, SessionAssumption DEF TokensGrow, Session
      <3>2. QED
        BY <1>4, <2>1, <3>1, EndKeeps DEF RevokeSession
    <2>3. QED
      BY <2>1, <2>2 DEF SpentBefore
  <1>5. ASSUME NEW c \in Calls, CallEnds(c)
        PROVE SessionTypeOK' /\ RequestHasToken' /\ SpentBefore'
    BY <1>5, EndKeeps, SessionsStay DEF CallEnds, sessionVars, SpentBefore
  <1>6. ASSUME NEW c \in Calls, NEW u \in Users, Refresh(c, u)
        PROVE SessionTypeOK' /\ RequestHasToken' /\ SpentBefore'
    <2> DEFINE start == [Idle EXCEPT !.op = "refresh", !.at = "rotate", !.u = u,
                                     !.token = session[u].token]
    <2>1. start \in Call /\ start.token # 0 /\ start.at = "rotate"
      BY <1>6, IdleType DEF Refresh, Call, Session
    <2>2. call' \in [Calls -> Call] /\ RequestHasToken'
      BY <1>6, <2>1, BeginKeeps DEF Refresh, sessionVars
    <2>3. QED
      BY <1>6, <2>2 DEF Refresh, sessionVars, SpentBefore
  <1>7. ASSUME NEW c \in Calls, NEW u \in Users, Logout(c, u)
        PROVE SessionTypeOK' /\ RequestHasToken' /\ SpentBefore'
    <2>1. [Idle EXCEPT !.op = "logout", !.u = u] \in Call
      BY IdleType DEF Call
    <2>2. QED
      BY <1>7, <2>1, AuthenticateKeeps DEF Logout, sessionVars, SpentBefore
  <1>8. QED
    BY <1>1, <1>2, <1>3, <1>4, <1>5, <1>6, <1>7 DEF SessionNext

-----------------------------------------------------------------------------
(* The steps of members, which leave the sessions alone.                     *)

\* An owner who goes because the guard let him leaves another behind.
LEMMA GuardLeavesOwner ==
  ASSUME TypeOK, OwnerStays, NEW c \in Calls, NEW r \in {"none", "admin", "member"}, Write(c, r)
  PROVE  OwnerStays'
  <1> DEFINE m == call[c].m
  <1> USE DEF TypeOK, SessionTypeOK
  <1> SUFFICES ASSUME ~stale', Owners' = {} PROVE FALSE
    BY DEF OwnerStays
  <1>1. m \in Users /\ Owners # {} /\ ~stale
    BY DEF Write, OwnerStays, Call
  <1>2. Guard(c) /\ role' = [role EXCEPT ![m] = r] /\ role[m] = "owner" /\ call[c].current = "owner"
    BY <1>1 DEF Write, Owners
  <1>3. Owners = {m}
    BY <1>1, <1>2 DEF Owners
  <1>4. Cardinality(Owners) = 1
    BY <1>3, FS_Singleton
  <1>5. QED
    BY <1>2, <1>4 DEF Guard

LEMMA WriteKeeps ==
  ASSUME IInv, NEW c \in Calls, NEW r \in {"none", "admin", "member"}, Write(c, r)
  PROVE  IInv'
  <1> USE DEF IInv, TypeOK
  <1>1. SessionTypeOK' /\ RequestHasToken' /\ SpentBefore'
    BY EndKeeps, SessionsStay DEF Write, sessionVars, SessionTypeOK, SpentBefore
  <1>2. role' \in [Users -> Roles \cup {"none"}] /\ stale' \in BOOLEAN
    BY DEF Write, Roles
  <1>3. QED
    BY <1>1, <1>2, GuardLeavesOwner

LEMMA MemberStep ==
  ASSUME IInv, MemberNext
  PROVE  IInv'
  <1> USE DEF IInv, TypeOK
  <1>1. ASSUME NEW c \in Calls, Ask(c), UNCHANGED <<role, stale>> PROVE IInv'
    <2>1. PICK start \in Call : Authenticate(c, start)
      <3>1. PICK u \in Users, m \in Users :
              \/ Authenticate(c, [Idle EXCEPT !.op = "delete", !.u = u, !.m = m])
              \/ \E op \in {"create", "update"}, r \in Roles :
                   Authenticate(c, [Idle EXCEPT !.op = op, !.u = u, !.m = m, !.role = r])
        BY <1>1 DEF Ask
      <3>2. [Idle EXCEPT !.op = "delete", !.u = u, !.m = m] \in Call
        BY IdleType DEF Call
      <3>3. \A op \in {"create", "update"}, r \in Roles :
              [Idle EXCEPT !.op = op, !.u = u, !.m = m, !.role = r] \in Call
        BY IdleType DEF Call
      <3>4. QED
        BY <3>1, <3>2, <3>3
    <2>2. QED
      BY <1>1, <2>1, AuthenticateKeeps DEF sessionVars, SessionTypeOK, SpentBefore, OwnerStays, Owners
  <1>2. ASSUME NEW c \in Calls, Authorize(c) PROVE IInv'
    <2>1. call' \in [Calls -> Call] /\ RequestHasToken'
      <3>1. CASE End(c)
        BY <1>2, <3>1, EndKeeps, SessionsStay DEF Authorize, sessionVars
      <3>2. CASE call' = [call EXCEPT ![c].u = AnyUser,
                                      ![c].at = IF call[c].op = "create" THEN "write" ELSE "get"]
        <4> DEFINE new == [call[c] EXCEPT !.u = AnyUser,
                                          !.at = IF call[c].op = "create" THEN "write" ELSE "get"]
        <4>1. new \in Call /\ new.at \in {"write", "get"}
          BY IdleType DEF SessionTypeOK, Call
        <4>2. call' = [call EXCEPT ![c] = new]
          BY <3>2
        <4>3. QED
          BY <1>2, <4>1, <4>2 DEF SessionTypeOK, RequestHasToken, Authorize, sessionVars
      <3>3. QED
        BY <1>2, <3>1, <3>2 DEF Authorize
    <2>2. QED
      BY <1>2, <2>1 DEF Authorize, sessionVars, SessionTypeOK, SpentBefore, OwnerStays, Owners
  <1>3. ASSUME NEW c \in Calls, GetByID(c) PROVE IInv'
    <2>1. call' \in [Calls -> Call] /\ RequestHasToken'
      <3>1. CASE End(c)
        BY <1>3, <3>1, EndKeeps, SessionsStay DEF GetByID, sessionVars
      <3>2. CASE call' = [call EXCEPT ![c].at = "write", ![c].current = role[call[c].m]]
        <4> DEFINE new == [call[c] EXCEPT !.at = "write", !.current = role[call[c].m]]
        <4>1. new \in Call /\ new.at = "write"
          BY DEF SessionTypeOK, Call
        <4>2. call' = [call EXCEPT ![c] = new]
          BY <3>2
        <4>3. QED
          BY <1>3, <4>1, <4>2 DEF SessionTypeOK, RequestHasToken, GetByID, sessionVars
      <3>3. QED
        BY <1>3, <3>1, <3>2 DEF GetByID
    <2>2. QED
      BY <1>3, <2>1 DEF GetByID, sessionVars, SessionTypeOK, SpentBefore, OwnerStays, Owners
  <1>4. ASSUME NEW c \in Calls, Create(c) PROVE IInv'
    <2>1. SessionTypeOK' /\ RequestHasToken' /\ SpentBefore'
      BY <1>4, EndKeeps, SessionsStay DEF Create, sessionVars, SessionTypeOK, SpentBefore
    <2>2. call[c].m \in Users /\ call[c].role \in Roles
      BY DEF SessionTypeOK, Call
    <2>3. role' \in [Users -> Roles \cup {"none"}] /\ stale' = stale /\ Owners \subseteq Owners'
      BY <1>4, <2>2 DEF Create, Owners
    <2>4. QED
      BY <2>1, <2>3 DEF OwnerStays
  <1>5. ASSUME NEW c \in Calls, UpdateRoleWithOwnerGuard(c) PROVE IInv'
    <2>1. CASE call[c].role # "owner" /\ Write(c, call[c].role)
      BY <2>1, WriteKeeps DEF SessionTypeOK, Call, Roles
    <2>2. CASE /\ role' = IF role[call[c].m] = "none" THEN role ELSE [role EXCEPT ![call[c].m] = "owner"]
               /\ End(c) /\ UNCHANGED <<sessionVars, stale>>
      <3>1. SessionTypeOK' /\ RequestHasToken' /\ SpentBefore'
        BY <2>2, EndKeeps, SessionsStay DEF sessionVars, SessionTypeOK, SpentBefore
      <3>2. role' \in [Users -> Roles \cup {"none"}] /\ stale' = stale /\ Owners \subseteq Owners'
        BY <2>2 DEF SessionTypeOK, Call, Owners, Roles
      <3>3. QED
        BY <3>1, <3>2 DEF OwnerStays
    <2>3. QED
      BY <1>5, <2>1, <2>2 DEF UpdateRoleWithOwnerGuard
  <1>6. ASSUME NEW c \in Calls, DeleteWithOwnerGuard(c) PROVE IInv'
    BY <1>6, WriteKeeps DEF DeleteWithOwnerGuard
  <1>7. QED
    BY <1>1, <1>2, <1>3, <1>4, <1>5, <1>6 DEF MemberNext

-----------------------------------------------------------------------------
(* The theorems.                                                             *)

LEMMA Invariance == Spec => []IInv
  <1> USE DEF IInv, TypeOK
  <1>1. Init => IInv
    <2> SUFFICES ASSUME Init PROVE IInv
      OBVIOUS
    <2>1. SessionTypeOK
      BY IdleType, SessionAssumption DEF Init, SessionInit, SessionTypeOK, Session, NoSession
    <2>2. RequestHasToken /\ SpentBefore
      BY DEF Init, SessionInit, RequestHasToken, SpentBefore, Idle
    <2>3. role \in [Users -> Roles \cup {"none"}] /\ stale \in BOOLEAN /\ Creator \in Owners
      BY MemberAssumption DEF Init, Roles, Owners
    <2>4. QED
      BY <2>1, <2>2, <2>3 DEF OwnerStays
  <1>2. IInv /\ [Next]_vars => IInv'
    <2> SUFFICES ASSUME IInv, [Next]_vars PROVE IInv'
      OBVIOUS
    <2>1. CASE SessionNext /\ UNCHANGED <<role, stale>>
      BY <2>1, SessionStep DEF OwnerStays, Owners
    <2>2. CASE MemberNext
      BY <2>2, MemberStep
    <2>3. CASE UNCHANGED vars
      BY <2>3 DEF vars, SessionTypeOK, RequestHasToken, SpentBefore, OwnerStays, Owners
    <2>4. QED
      BY <2>1, <2>2, <2>3 DEF Next
  <1>3. QED
    BY <1>1, <1>2, PTL DEF Spec

\* The types of sessions, requests and members.
THEOREM TypeCorrect == Spec => []TypeOK
  BY Invariance, PTL DEF IInv

\* Whoever demotes or removes whom at once, under any number of members and requests, an
\* owner is left: the guard of the transaction counts the owners it has locked. Only a
\* role that was read before the member became an owner passes it by.
THEOREM OwnerRemains == Spec => []OwnerStays
  BY Invariance, PTL DEF IInv

-----------------------------------------------------------------------------
(* Sessions are those of SessionTokens: Login and RotateSession are its       *)
(* Login and Exchange, RevokeSession is its Logout, and nothing else changes  *)
(* what a client may exchange.                                                *)

Live == [u \in Users |-> session[u].token]
Over == {u \in Users : session[u].revoked}

LEMMA SessionRefines ==
  ASSUME IInv, SessionNext
  PROVE  [Promise!Next]_(Promise!vars)
  <1> USE DEF IInv, TypeOK, SessionTypeOK
  <1>1. ASSUME NEW u \in Users, Login(u) PROVE Promise!Login(u)
    <2>1. Live' = [Live EXCEPT ![u] = 1] /\ Over' = Over /\ spent' = spent
      BY <1>1 DEF Login, CreateSession, Live, Over, Session
    <2>2. 1 \in (1 .. MaxTokens) \ (spent'[u] \cup {0, Live[u]})
      BY <1>1, SessionAssumption DEF Login, Live, SpentBefore
    <2>3. QED
      BY <1>1, <2>1, <2>2 DEF Promise!Login, Promise!Issue, Live, Over, Login
  <1>2. ASSUME NEW c \in Calls, NEW u \in Users, u = call[c].u, At(c, "rotate"), Rotate(c),
               ~session[u].revoked, session[u].token = call[c].token
        PROVE Promise!Exchange(u)
    <2>1. call[c].token # 0 /\ session[u].token \in Nat
      BY <1>2, SessionAssumption DEF Call, Session, RequestHasToken, At
    <2>2. Live' = [Live EXCEPT ![u] = session[u].token + 1] /\ Over' = Over
      BY <1>2, <2>1 DEF Rotate, Live, Over, Session
    <2>3. spent' = [spent EXCEPT ![u] = @ \cup {Live[u]}]
      BY <1>2, <2>1 DEF Rotate, Live
    <2>4. session[u].token + 1 \in (1 .. MaxTokens) \ (spent'[u] \cup {0, Live[u]})
      BY <1>2, <2>1, <2>3, SessionAssumption DEF Rotate, Live, SpentBefore
    <2>5. QED
      BY <1>2, <2>1, <2>2, <2>3, <2>4 DEF Promise!Exchange, Promise!Issue, Live, Over
  <1>3. ASSUME NEW c \in Calls, NEW u \in Users, u = call[c].u, RevokeSession(c)
        PROVE Promise!Logout(u)
    <2>1. Live[u] # 0
      BY <1>3 DEF RevokeSession, RequestHasToken, At, Live
    <2>2. Live' = Live /\ Over' = Over \cup {u} /\ spent' = spent
      BY <1>3, <2>1 DEF RevokeSession, Live, Over, Session
    <2>3. QED
      BY <2>1, <2>2 DEF Promise!Logout, Live, Over
  <1>4. ASSUME NEW u \in Users, Expire(u) PROVE UNCHANGED Promise!vars
    BY <1>4 DEF Expire, Promise!vars, Session
  <1>5. ASSUME UNCHANGED sessionVars PROVE UNCHANGED Promise!vars
    BY <1>5 DEF sessionVars, Promise!vars
  <1>6. \A c \in Calls : call[c].u \in Users
    BY DEF Call
  <1>7. ASSUME NEW c \in Calls, RotateSession(c) PROVE [Promise!Next]_(Promise!vars)
    <2>1. CASE End(c) /\ UNCHANGED sessionVars
      BY <2>1, <1>5
    <2>2. CASE ~(End(c) /\ UNCHANGED sessionVars)
      BY <1>7, <2>2, <1>2, <1>6 DEF RotateSession, Promise!Next
    <2>3. QED
      BY <2>1, <2>2
  <1>8. ASSUME NEW c \in Calls, CallEnds(c) \/ \E u \in Users : Refresh(c, u) \/ Logout(c, u)
        PROVE UNCHANGED Promise!vars
    BY <1>8, <1>5 DEF CallEnds, Refresh, Logout, Authenticate
  <1>9. QED
    BY <1>1, <1>3, <1>4, <1>6, <1>7, <1>8 DEF SessionNext, Promise!Next

\* However refreshes, logouts and repeated tokens meet, a session has one valid refresh
\* token, each is exchanged at most once, and none after the logout: the UPDATE of
\* RotateSession names the token it replaces, and no new token was ever given out before.
THEOREM SessionsRefine == Spec => ImplementsSessionTokens
  <1>1. Init => Promise!Init
    BY DEF Init, SessionInit, NoSession, Promise!Init
  <1>2. IInv /\ [Next]_vars => [Promise!Next]_(Promise!vars)
    <2> SUFFICES ASSUME IInv, [Next]_vars PROVE [Promise!Next]_(Promise!vars)
      OBVIOUS
    <2>1. CASE SessionNext
      BY <2>1, SessionRefines
    <2>2. CASE MemberNext \/ UNCHANGED vars
      <3>1. ASSUME NEW c \in Calls,
                   \/ Ask(c) \/ Authorize(c) \/ GetByID(c) \/ Create(c)
                   \/ UpdateRoleWithOwnerGuard(c) \/ DeleteWithOwnerGuard(c)
            PROVE  UNCHANGED sessionVars
        BY <3>1, Zenon DEF Ask, Authenticate, Authorize, GetByID, Create,
                           UpdateRoleWithOwnerGuard, DeleteWithOwnerGuard, Write
      <3>2. UNCHANGED sessionVars
        BY <2>2, <3>1 DEF MemberNext, sessionVars, vars
      <3>3. QED
        BY <3>2 DEF sessionVars, Promise!vars
    <2>3. QED
      BY <2>1, <2>2 DEF Next
  <1>3. QED
    BY <1>1, <1>2, Invariance, PTL DEF Spec, ImplementsSessionTokens, Promise!Spec
=============================================================================
