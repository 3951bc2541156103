\* Two users, two requests at once, three pairs of tokens of the creator's session,
\* so that a token can be presented again after the next one has been issued.
CONSTANTS
  u1 = u1  u2 = u2  c1 = c1  c2 = c2
  Users = {u1, u2}
  Creator = u1
  Calls = {c1, c2}
  MaxTokens = 3
  Refreshers = {u1}
SPECIFICATION Spec
SYMMETRY Symmetry
INVARIANTS
  TypeOK
  OwnerStays
PROPERTY ImplementsSessionTokens
CHECK_DEADLOCK FALSE
