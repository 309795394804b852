SPECIFICATION BoundedSpec
CONSTANTS
  b1 = b1
  b2 = b2
  l1 = l1
  l2 = l2
  l3 = l3
  ann = ann
  bob = bob
  p1 = p1
  g1 = g1
  g2 = g2
  annAtX = annAtX
  bobAtX = bobAtX
  None = None
  Browsers <- TwoBrowsers
  Logins <- ThreeLogins
  Names <- TwoNames
  Passwords <- OnePassword
  GoogleUsers <- TwoGoogleUsers
  Emails <- TwoEmails
  deriveUsername <- LocalPart
  MaxSecret = 2
SYMMETRY Symmetry
CHECK_DEADLOCK FALSE
INVARIANTS
  SessionNamesAccount
  SessionIsEarned
  AccountPerGoogleUser
  StateRefusalHasCause
PROPERTY SignedInUntilCause
