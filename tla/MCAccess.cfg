\* Three wallets; invitations, roles and removals; signing in and out.
CONSTANTS
  a = a
  b = b
  c = c
  x = x
  y = y
  z = z
  Wallet = {a, b, c}
  Account = {a, b}
  Browser = {x, y, z}
  Scenes <- MCScenes
  MaxChallenge = 2
  MaxSession = 3
  MaxInvite = 2
SPECIFICATION Spec
CHECK_DEADLOCK FALSE
INVARIANTS
  SignersOwnTheirWorkspace
  OneSessionPerSignature
PROPERTIES
  JoinsAreInvited
  InvitationsSettleOnce
