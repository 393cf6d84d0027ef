SPECIFICATION Spec
CONSTANTS
  Browsers = {b1, b2}
  mine = mine
  other = other
  Emails = {mine, other}
  Identities = {i1, i2}
  ClaimedEmail <- MCClaimedEmail
  MaxId = 3
  MaxPassword = 4
  MaxAsked = 3
SYMMETRY Symmetry
INVARIANT AccountsInv
INVARIANT SessionKnowsPassword
PROPERTY OwnersRemain
CHECK_DEADLOCK FALSE
