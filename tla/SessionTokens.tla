---------------------------- MODULE SessionTokens ----------------------------
(***************************************************************************)
(* What the sessions of auth promise of refresh tokens: a session has one   *)
(* valid token at a time, each is exchanged for the next at most once, and  *)
(* none is issued after the session is over.                                *)
(***************************************************************************)
EXTENDS Naturals

CONSTANTS
  Sessions,
  Tokens     \* refresh tokens; 0 is none of them

VARIABLES
  live,   \* per session: its valid token, 0 before the login
  over,   \* the sessions that were logged out
  spent   \* per session: the tokens that were exchanged

Init ==
  /\ live = [s \in Sessions |-> 0]
  /\ over = {}
  /\ spent = [s \in Sessions |-> {}]

\* A token nobody had before.
Issue(s) == \E t \in Tokens \ (spent'[s] \cup {0, live[s]}) : live' = [live EXCEPT ![s] = t]

Login(s) ==
  /\ live[s] = 0
  /\ UNCHANGED <<over, spent>>
  /\ Issue(s)

Exchange(s) ==
  /\ live[s] # 0 /\ s \notin over
  /\ spent' = [spent EXCEPT ![s] = @ \cup {live[s]}]
  /\ Issue(s)
  /\ UNCHANGED over

Logout(s) ==
  /\ live[s] # 0
  /\ over' = over \cup {s}
  /\ UNCHANGED <<live, spent>>

Next == \E s \in Sessions : Login(s) \/ Exchange(s) \/ Logout(s)

vars == <<live, over, spent>>
Spec == Init /\ [][Next]_vars
=============================================================================
