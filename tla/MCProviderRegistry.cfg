\* Two wallets, two pages; one built-in provider and one of a wallet; three endpoints.
CONSTANTS
  a = a
  b = b
  x = x
  y = y
  e1 = e1
  e2 = e2
  e3 = e3
  Wallet = {a, b}
  Browser = {x, y}
  Provider <- MCProvider
  Endpoint = {e1, e2, e3}
  Answers <- MCAnswers
  Scenes <- MCScenes
SPECIFICATION Spec
CHECK_DEADLOCK FALSE
INVARIANTS
  HealthyMeansVerified
PROPERTIES
  RowsKeepTheirOwner
  OnlyEnablingEnables
