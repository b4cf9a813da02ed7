CONSTANTS
  pat = pat
  google = google
  Methods <- MCMethods
  Kind <- MCKind
  None = None
  Procs = {c1, c2}
  MaxIds = 2
  MaxGrants = 3
  MaxRenewals = 1
  Tokens <- TokenSet
SYMMETRY Callers
SPECIFICATION Spec
INVARIANTS TypeOK NoOrphanSecret TokensStayUsable NotSetIsTrue StraysCameLate
