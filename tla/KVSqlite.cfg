SPECIFICATION Spec
CONSTANTS
  Clients = {c1, c2}
  Particles = {p}
  Keys <- Empty
  Values <- OneByte
  ListPrefixes <- Empty
  Bytes <- MCBytes
  Length <- MCLength
  HasPrefix <- MCHasPrefix
  Like <- MCLike
  Quota = 4
  Absent = Absent
INVARIANTS SnapshotIsCurrent NamespaceWithinQuota UsageInSync
PROPERTIES ImplementsContract
