\* Two users and two requests, no refreshes.
CONSTANTS
  u1 = u1  u2 = u2  c1 = c1  c2 = c2
  Users = {u1, u2}
  Creator = u1
  Calls = {c1, c2}
  MaxTokens = 1
  Refreshers = {}
SPECIFICATION Spec
SYMMETRY Symmetry
INVARIANT NeverOwnerless
CHECK_DEADLOCK FALSE
