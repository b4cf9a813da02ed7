CONSTANTS
  pat = pat
  google = google
  Methods <- MCMethods
  Kind <- MCKind
  None = None
  Procs = {c1, c2}
  MaxIds = 2
  MaxGrants = 2
  MaxRenewals = 1
  Tokens <- TokenSet
SPECIFICATION Spec
INVARIANT NoStraySecret
